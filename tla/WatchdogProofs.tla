--------------------------- MODULE WatchdogProofs ---------------------------
(***************************************************************************)
(* Proofs about the watchdog, for any probes, any number of polls and any  *)
(* faults: that it implements AlertLedger (its table opens an alert at     *)
(* most once at a time for each condition, closes it once, and rewrites    *)
(* nothing), that its alerts are the episodes of what it saw, that it      *)
(* closes on evidence only, and that each opening is mailed once.          *)
(***************************************************************************)
EXTENDS Watchdog, TLAPS

Polls == 0 .. WdPolls

\* What the refinement needs of the watchdog's state.
AlertRow == [cond : Conditions, since : Polls, cleared : Polls, told : BOOLEAN]
AlertTypes == alerts \in Seq(AlertRow)
HeldTypes ==
    /\ DOMAIN held \subseteq Conditions /\ toOpen \subseteq DOMAIN held
    /\ \A c \in DOMAIN held : held[c] \in [since : Polls, alert : Nat]
    /\ wdAt = "down" => toOpen = {}
UnrecordedTypes == unrecorded \subseteq [cond : Conditions, since : Polls, cleared : 1 .. WdPolls]
PollTypes == clock \in Polls /\ (wdAt \notin {"down", "idle"} => clock # 0)

LedgerInv == AlertTypes /\ HeldTypes /\ UnrecordedTypes /\ PollTypes

---------------------------------------------------------------------------
(* Writes to the table.                                                    *)

\* What a sequence over a set is.
LEMMA SequenceFacts ==
    ASSUME NEW S, NEW s \in Seq(S)
    PROVE  /\ DOMAIN s = 1 .. Len(s) /\ Len(s) \in Nat
           /\ \A i \in 1 .. Len(s) : s[i] \in S
           /\ s = [i \in 1 .. Len(s) |-> s[i]]
OBVIOUS

\* A function from an initial segment is a sequence.
LEMMA FunctionIsSequence ==
    ASSUME NEW S, NEW n \in Nat, NEW f, f = [i \in 1 .. n |-> f[i]], \A i \in 1 .. n : f[i] \in S
    PROVE  f \in Seq(S) /\ Len(f) = n
OBVIOUS

\* The rows of a table are a sequence of rows.
LEMMA LedgerRowsTyped ==
    ASSUME NEW s \in Seq(AlertRow)
    PROVE  LET rows == [i \in DOMAIN s |-> RowOf(s[i])]
           IN  /\ rows \in Seq(Ledger!Row) /\ Len(rows) = Len(s)
               /\ \A i \in 1 .. Len(s) : rows[i] = RowOf(s[i])
<1> DEFINE rows == [i \in DOMAIN s |-> RowOf(s[i])]
<1>1. DOMAIN s = 1 .. Len(s) /\ Len(s) \in Nat /\ \A i \in 1 .. Len(s) : s[i] \in AlertRow
  BY SequenceFacts
<1>2. \A i \in 1 .. Len(s) : RowOf(s[i]) \in Ledger!Row BY <1>1 DEF RowOf, Ledger!Row, Polls, AlertRow
<1>3. rows = [i \in 1 .. Len(s) |-> rows[i]] /\ \A i \in 1 .. Len(s) : rows[i] = RowOf(s[i]) BY <1>1
<1> HIDE DEF rows
<1>4. rows \in Seq(Ledger!Row) /\ Len(rows) = Len(s) BY <1>1, <1>2, <1>3, FunctionIsSequence
<1> QED BY <1>3, <1>4 DEF rows

\* An alert more is a row more.
LEMMA AppendWrites ==
    ASSUME AlertTypes, AlertTypes',
           NEW a \in AlertRow,
           alerts' = Append(alerts, a), a.cleared = 0 => OpenAlertsOf(a.cond) = {}
    PROVE  Ledger!Writes
<1>1. /\ LedgerRows \in Seq(Ledger!Row) /\ Len(LedgerRows) = Len(alerts)
      /\ \A i \in 1 .. Len(alerts) : LedgerRows[i] = RowOf(alerts[i])
  BY LedgerRowsTyped DEF AlertTypes, LedgerRows
<1>2. /\ LedgerRows' \in Seq(Ledger!Row) /\ Len(LedgerRows') = Len(alerts')
      /\ \A i \in 1 .. Len(alerts') : LedgerRows'[i] = RowOf(alerts'[i])
  BY LedgerRowsTyped DEF AlertTypes, LedgerRows
<1>3. /\ Len(alerts') = Len(alerts) + 1 /\ Len(alerts) \in Nat /\ alerts'[Len(alerts) + 1] = a
      /\ \A i \in 1 .. Len(alerts) : alerts'[i] = alerts[i]
  BY DEF AlertTypes
<1>4. RowOf(a) \in Ledger!Row BY DEF RowOf, Ledger!Row, Polls, AlertRow
<1>5. LedgerRows' = Append(LedgerRows, RowOf(a))
  <2> DEFINE more == Append(LedgerRows, RowOf(a))
  <2>1. /\ more \in Seq(Ledger!Row) /\ Len(more) = Len(alerts) + 1 /\ more[Len(alerts) + 1] = RowOf(a)
        /\ \A i \in 1 .. Len(alerts) : more[i] = RowOf(alerts[i])
    BY <1>1, <1>4
  <2> HIDE DEF more
  <2>2. \A i \in 1 .. Len(alerts) + 1 : LedgerRows'[i] = more[i] BY <1>2, <1>3, <2>1
  <2>3. Len(LedgerRows') = Len(more) BY <1>2, <1>3, <2>1
  <2>4. more = LedgerRows' BY <1>2, <1>3, <2>1, <2>2, <2>3
  <2> QED BY <2>4 DEF more
<1>6. ASSUME RowOf(a).cleared = 0 PROVE Ledger!OpenRows(RowOf(a).cond) = {}
  <2>1. OpenAlertsOf(a.cond) = {} BY <1>6 DEF RowOf
  <2>2. DOMAIN LedgerRows = 1 .. Len(alerts) /\ DOMAIN alerts = 1 .. Len(alerts) BY <1>1 DEF AlertTypes
  <2> QED BY <1>1, <2>1, <2>2 DEF OpenAlertsOf, Ledger!OpenRows, RowOf
<1> QED BY <1>1, <1>2, <1>3, <1>4, <1>5, <1>6 DEF Ledger!Writes

\* Closing an open alert closes its row.
LEMMA CloseCloses ==
    ASSUME AlertTypes, AlertTypes', NEW i \in DOMAIN alerts, alerts[i].cleared = 0,
           NEW t \in Polls \ {0}, alerts' = [alerts EXCEPT ![i].cleared = t]
    PROVE  i \in DOMAIN LedgerRows /\ Ledger!Closes(i)
<1>1. \A j \in DOMAIN alerts : alerts[j] \in AlertRow
  BY DEF AlertTypes
<1>2. /\ DOMAIN alerts' = DOMAIN alerts /\ alerts'[i] = [alerts[i] EXCEPT !.cleared = t]
      /\ \A j \in DOMAIN alerts : j # i => alerts'[j] = alerts[j]
  BY DEF AlertTypes
<1>3. RowOf(alerts'[i]) = [RowOf(alerts[i]) EXCEPT !.cleared = t] BY <1>1, <1>2 DEF RowOf, AlertRow
<1>4. LedgerRows' = [LedgerRows EXCEPT ![i].cleared = t] BY <1>2, <1>3 DEF LedgerRows
<1>5. i \in DOMAIN LedgerRows /\ LedgerRows[i].cleared = 0 BY DEF LedgerRows, RowOf
<1> QED BY <1>4, <1>5 DEF Ledger!Closes, Polls

\* What an e-mail's outcome leaves in the table is no part of its rows.
LEMMA LogKeepsRows ==
    ASSUME AlertTypes, NEW m, Logged(m)
    PROVE  AlertTypes' /\ LedgerRows' = LedgerRows
<1>1. CASE alerts' = alerts BY <1>1 DEF AlertTypes, LedgerRows
<1>2. CASE alerts' = [alerts EXCEPT ![m.alert].told = TRUE]
  <2>1. \A j \in DOMAIN alerts : alerts[j] \in AlertRow
    BY DEF AlertTypes
  <2>2. /\ DOMAIN alerts' = DOMAIN alerts
        /\ \A j \in DOMAIN alerts : alerts'[j] = IF j = m.alert THEN [alerts[j] EXCEPT !.told = TRUE] ELSE alerts[j]
    BY <1>2
  <2>3. \A j \in DOMAIN alerts :
            /\ alerts'[j] \in AlertRow
            /\ RowOf(alerts'[j]) = RowOf(alerts[j])
    BY <2>1, <2>2 DEF RowOf, AlertRow
  <2>4. alerts' = [j \in DOMAIN alerts |-> alerts'[j]] BY <1>2
  <2>5. DOMAIN alerts = 1 .. Len(alerts) /\ Len(alerts) \in Nat BY DEF AlertTypes
  <2>6. AlertTypes' BY <2>3, <2>4, <2>5 DEF AlertTypes
  <2> QED BY <2>2, <2>3, <2>6 DEF LedgerRows
<1> QED BY <1>1, <1>2 DEF Logged

\* openAlert writes at most one row, of a condition with no open alert.
LEMMA InsertWrites ==
    ASSUME LedgerInv, NEW c \in toOpen, alerts' = Inserted(c)
    PROVE  AlertTypes' /\ (Ledger!Writes \/ LedgerRows' = LedgerRows)
<1> DEFINE a == [cond |-> c, since |-> held[c].since, cleared |-> 0, told |-> FALSE]
<1>1. a \in AlertRow
  BY WdAssumption DEF LedgerInv, HeldTypes, Polls, AlertRow
<1>2. CASE OpenAlertsOf(c) # {} BY <1>2 DEF Inserted, LedgerInv, AlertTypes, LedgerRows
<1>3. CASE OpenAlertsOf(c) = {}
  <2>1. alerts' = Append(alerts, a) BY <1>3 DEF Inserted
  <2>2. AlertTypes' BY <1>1, <2>1 DEF LedgerInv, AlertTypes
  <2>3. a.cond = c OBVIOUS
  <2> HIDE DEF a
  <2> QED BY <1>1, <1>3, <2>1, <2>2, <2>3, AppendWrites DEF LedgerInv
<1> QED BY <1>2, <1>3

\* recordClosed writes a row that is closed.
LEMMA RecordWrites ==
    ASSUME LedgerInv, NEW u \in unrecorded, alerts' = Append(alerts, ClosedRow(u))
    PROVE  AlertTypes' /\ Ledger!Writes
<1> DEFINE a == ClosedRow(u)
<1>1. a \in AlertRow /\ a.cleared # 0
  BY DEF LedgerInv, UnrecordedTypes, ClosedRow, Polls, AlertRow
<1> HIDE DEF a
<1>2. alerts' = Append(alerts, a) BY DEF a
<1>3. AlertTypes' BY <1>1, <1>2 DEF LedgerInv, AlertTypes
<1> QED BY <1>1, <1>2, <1>3, AppendWrites DEF LedgerInv

---------------------------------------------------------------------------

\* At first the table is empty, and so is the ledger.
LEMMA LedgerInvInit == WatchdogInit => LedgerInv /\ Ledger!Init
<1>1. ASSUME WatchdogInit PROVE LedgerInv /\ Ledger!Init
  <2>1. 0 \in Polls /\ alerts = <<>> /\ DOMAIN held = {} BY <1>1, WdAssumption DEF WatchdogInit, None, Polls
  <2>2. LedgerInv
    BY <1>1, <2>1 DEF WatchdogInit, LedgerInv, AlertTypes, HeldTypes, UnrecordedTypes, PollTypes
  <2>3. LedgerRows = <<>> BY <2>1 DEF LedgerRows
  <2> QED BY <2>2, <2>3 DEF Ledger!Init
<1> QED BY <1>1

\* Every step keeps the invariant, and is a step of the ledger or none.
LEMMA LedgerStep ==
    LedgerInv /\ [WatchdogNext]_WatchdogVars => LedgerInv' /\ (Ledger!Next \/ LedgerRows' = LedgerRows)
<1> SUFFICES ASSUME LedgerInv, [WatchdogNext]_WatchdogVars
             PROVE  LedgerInv' /\ (Ledger!Next \/ LedgerRows' = LedgerRows)
    OBVIOUS
<1>0. AlertTypes /\ HeldTypes /\ UnrecordedTypes /\ PollTypes BY DEF LedgerInv
<1>s. ASSUME UNCHANGED alerts PROVE AlertTypes' /\ LedgerRows' = LedgerRows
  BY <1>0, <1>s DEF AlertTypes, LedgerRows
<1>a. ASSUME AlertTypes', LedgerRows' = LedgerRows, HeldTypes', UnrecordedTypes', PollTypes'
      PROVE  LedgerInv' /\ (Ledger!Next \/ LedgerRows' = LedgerRows)
  BY <1>a DEF LedgerInv
<1>1. CASE WdStart \/ WdStartHalf \/ WdStartBlind
  <2>1. /\ held' \in {Seeded, None} /\ wdAt' = "idle"
        /\ UNCHANGED <<clock, unrecorded, toOpen, alerts>> /\ wdAt = "down"
    BY <1>1 DEF WdStart, WdStartHalf, WdStartBlind, WdBegins
  <2>2. \A i \in DOMAIN alerts : alerts[i].cond \in Conditions /\ alerts[i].since \in Polls
    <3>1. \A i \in DOMAIN alerts : alerts[i] \in AlertRow BY <1>0, SequenceFacts DEF AlertTypes
    <3> QED BY <3>1 DEF AlertRow
  <2>3. DOMAIN Seeded \subseteq Conditions BY <2>2 DEF Seeded, StillOpen
  <2>4. \A c \in DOMAIN Seeded : Seeded[c] \in [since : Polls, alert : Nat]
    <3> SUFFICES ASSUME NEW c \in DOMAIN Seeded PROVE Seeded[c] \in [since : Polls, alert : Nat] OBVIOUS
    <3> DEFINE i == CHOOSE i \in OpenAlertsOf(c) : TRUE
    <3>1. PICK j \in StillOpen : alerts[j].cond = c BY DEF Seeded
    <3>2. j \in OpenAlertsOf(c) BY <3>1 DEF StillOpen, OpenAlertsOf
    <3>3. i \in OpenAlertsOf(c) BY <3>2
    <3>4. Seeded[c] = [since |-> alerts[i].since, alert |-> i] BY DEF Seeded
    <3>5. i \in DOMAIN alerts /\ DOMAIN alerts \subseteq Nat BY <1>0, <3>3 DEF OpenAlertsOf, AlertTypes
    <3> HIDE DEF i
    <3> QED BY <2>2, <3>4, <3>5
  <2>5. DOMAIN None = {} BY DEF None
  <2>6. toOpen' = {} BY <1>0, <2>1 DEF HeldTypes
  <2>7. HeldTypes' BY <2>1, <2>3, <2>4, <2>5, <2>6 DEF HeldTypes
  <2> QED BY <1>0, <1>a, <1>s, <2>1, <2>7 DEF UnrecordedTypes, PollTypes
<1>2. ASSUME NEW p \in WdProbes, Poll(p) PROVE LedgerInv' /\ (Ledger!Next \/ LedgerRows' = LedgerRows)
  <2> DEFINE opened  == Detected(p) \ DOMAIN held
             cleared == DOMAIN held \ (Detected(p) \cup Unknown(p))
  <2>1. /\ clock < WdPolls /\ clock' = clock + 1 /\ UNCHANGED alerts
        /\ held' = [c \in (DOMAIN held \ cleared) \cup opened |->
                        IF c \in opened THEN [since |-> clock + 1, alert |-> 0] ELSE held[c]]
        /\ unrecorded' = unrecorded \cup
               {[cond |-> c, since |-> held[c].since, cleared |-> clock + 1] :
                    c \in {d \in cleared : held[d].alert = 0}}
        /\ toOpen' \in {DOMAIN held', {}} /\ wdAt' \in {"open", "enqueue"}
    BY <1>2 DEF Poll
  <2>2. clock + 1 \in Polls /\ clock + 1 \in 1 .. WdPolls /\ clock + 1 # 0
    BY <1>0, <2>1, WdAssumption DEF PollTypes, Polls
  <2>3. opened \subseteq Conditions /\ cleared \subseteq DOMAIN held BY DEF Detected
  <2> HIDE DEF opened, cleared
  <2>4. DOMAIN held' \subseteq Conditions BY <1>0, <2>1, <2>3 DEF HeldTypes
  <2>5. \A c \in DOMAIN held' : held'[c] \in [since : Polls, alert : Nat]
    BY <1>0, <2>1, <2>2 DEF HeldTypes
  <2>6. UnrecordedTypes' BY <1>0, <2>1, <2>2, <2>3 DEF HeldTypes, UnrecordedTypes
  <2>7. HeldTypes' BY <2>1, <2>4, <2>5 DEF HeldTypes
  <2>8. PollTypes' BY <2>1, <2>2 DEF PollTypes
  <2> QED BY <1>a, <1>s, <2>1, <2>6, <2>7, <2>8
<1>3. ASSUME NEW c \in Conditions, OpenAlert(c) PROVE LedgerInv' /\ (Ledger!Next \/ LedgerRows' = LedgerRows)
  <2>1. /\ wdAt = "open" /\ c \in toOpen /\ alerts' = Inserted(c) /\ toOpen' = toOpen \ {c}
        /\ UNCHANGED <<clock, wdAt, unrecorded>>
    BY <1>3 DEF OpenAlert, syncOnly
  <2>2. PICK a : held' = [held EXCEPT ![c].alert = a] /\ a \in Nat
    <3>1. CASE OpenAlertsOf(c) # {}
      <4>1. (CHOOSE i \in OpenAlertsOf(c) : TRUE) \in Nat BY <1>0, <3>1 DEF OpenAlertsOf, AlertTypes
      <4> QED BY <1>3, <3>1, <4>1 DEF OpenAlert
    <3>2. CASE OpenAlertsOf(c) = {}
      <4>1. Len(alerts) + 1 \in Nat BY <1>0 DEF AlertTypes
      <4> QED BY <1>3, <3>2, <4>1 DEF OpenAlert
    <3> QED BY <3>1, <3>2
  <2>3. AlertTypes' /\ (Ledger!Writes \/ LedgerRows' = LedgerRows) BY <2>1, InsertWrites
  <2>4. DOMAIN held' = DOMAIN held /\ \A d \in DOMAIN held : held'[d] \in [since : Polls, alert : Nat]
    BY <1>0, <2>2 DEF HeldTypes
  <2>5. HeldTypes' BY <1>0, <2>1, <2>4 DEF HeldTypes
  <2>6. UnrecordedTypes' /\ PollTypes' BY <1>0, <2>1 DEF UnrecordedTypes, PollTypes
  <2> QED BY <2>3, <2>5, <2>6 DEF LedgerInv, Ledger!Next
<1>4. ASSUME NEW i \in DOMAIN alerts, CloseAlert(i) PROVE LedgerInv' /\ (Ledger!Next \/ LedgerRows' = LedgerRows)
  <2>1. /\ wdAt = "close" /\ alerts[i].cleared = 0 /\ alerts' = [alerts EXCEPT ![i].cleared = clock]
        /\ UNCHANGED <<clock, wdAt, held, unrecorded, toOpen>>
    BY <1>4 DEF CloseAlert, syncOnly, Stale, StillOpen
  <2>2. clock \in Polls \ {0} BY <1>0, <2>1 DEF PollTypes
  <2>3. AlertTypes'
    <3>1. \A j \in DOMAIN alerts : alerts'[j] \in AlertRow
      <4>1. \A j \in DOMAIN alerts : alerts[j] \in AlertRow BY <1>0, SequenceFacts DEF AlertTypes
      <4> QED BY <2>1, <2>2, <4>1 DEF AlertRow
    <3>2. /\ alerts' = [j \in 1 .. Len(alerts) |-> alerts'[j]] /\ Len(alerts) \in Nat
          /\ DOMAIN alerts = 1 .. Len(alerts)
      <4>1. DOMAIN alerts = 1 .. Len(alerts) /\ Len(alerts) \in Nat BY <1>0, SequenceFacts DEF AlertTypes
      <4> QED BY <2>1, <4>1
    <3> QED BY <3>1, <3>2, FunctionIsSequence DEF AlertTypes
  <2>4. HeldTypes' /\ UnrecordedTypes' /\ PollTypes' BY <1>0, <2>1 DEF HeldTypes, UnrecordedTypes, PollTypes
  <2>5. i \in DOMAIN LedgerRows /\ Ledger!Closes(i) BY <1>0, <2>1, <2>2, <2>3, CloseCloses
  <2> QED BY <2>3, <2>4, <2>5 DEF LedgerInv, Ledger!Next
<1>5. ASSUME NEW u \in unrecorded, RecordClosed(u) PROVE LedgerInv' /\ (Ledger!Next \/ LedgerRows' = LedgerRows)
  <2>1. /\ alerts' = Append(alerts, ClosedRow(u)) /\ unrecorded' = unrecorded \ {u}
        /\ UNCHANGED <<clock, wdAt, held, toOpen>>
    BY <1>5 DEF RecordClosed, syncOnly
  <2>2. AlertTypes' /\ Ledger!Writes BY <2>1, RecordWrites
  <2>3. HeldTypes' /\ UnrecordedTypes' /\ PollTypes' BY <1>0, <2>1 DEF HeldTypes, UnrecordedTypes, PollTypes
  <2> QED BY <2>2, <2>3 DEF LedgerInv, Ledger!Next
<1>6. CASE AllOpen \/ AllClosed \/ AllRecorded
  <2>1. UNCHANGED <<clock, held, unrecorded, toOpen, alerts>> /\ wdAt \notin {"down", "idle"} /\ wdAt' # "down"
    BY <1>6 DEF AllOpen, AllClosed, AllRecorded, syncOnly
  <2> QED BY <1>0, <1>a, <1>s, <2>1 DEF HeldTypes, UnrecordedTypes, PollTypes
<1>7. CASE SyncFails
  <2>1. UNCHANGED <<clock, held, unrecorded, alerts>> /\ toOpen' = {} /\ wdAt \notin {"down", "idle"}
    BY <1>7 DEF SyncFails, syncOnly
  <2> QED BY <1>0, <1>a, <1>s, <2>1 DEF HeldTypes, UnrecordedTypes, PollTypes
<1>8. CASE AnswerLost
  <2>1. UNCHANGED <<clock, held, unrecorded>> /\ toOpen' = {} /\ wdAt \notin {"down", "idle"}
    BY <1>8 DEF AnswerLost, syncOnly
  <2>2. AlertTypes' /\ (Ledger!Writes \/ LedgerRows' = LedgerRows)
    BY <1>8, InsertWrites, RecordWrites DEF AnswerLost
  <2>3. HeldTypes' /\ UnrecordedTypes' /\ PollTypes' BY <1>0, <2>1 DEF HeldTypes, UnrecordedTypes, PollTypes
  <2> QED BY <2>2, <2>3 DEF LedgerInv, Ledger!Next
<1>9. CASE Enqueue
  <2>1. UNCHANGED <<clock, held, unrecorded, toOpen, alerts>> /\ wdAt \notin {"down", "idle"} /\ wdAt' # "down"
    BY <1>9 DEF Enqueue
  <2> QED BY <1>0, <1>a, <1>s, <2>1 DEF HeldTypes, UnrecordedTypes, PollTypes
<1>10. ASSUME NEW m \in queue, SkipMail(m) \/ SendMail(m)
       PROVE  LedgerInv' /\ (Ledger!Next \/ LedgerRows' = LedgerRows)
  <2>1. (Logged(m) \/ UNCHANGED alerts) /\ UNCHANGED <<clock, wdAt, held, unrecorded, toOpen>>
    BY <1>10 DEF SkipMail, SendMail, Settled, wdMind
  <2>2. AlertTypes' /\ LedgerRows' = LedgerRows BY <1>0, <1>s, <2>1, LogKeepsRows
  <2> QED BY <1>0, <1>a, <2>1, <2>2 DEF HeldTypes, UnrecordedTypes, PollTypes
<1>11. ASSUME NEW m \in queue, SendFails(m) PROVE LedgerInv' /\ (Ledger!Next \/ LedgerRows' = LedgerRows)
  <2>1. UNCHANGED <<clock, wdAt, held, unrecorded, toOpen, alerts>> BY <1>11 DEF SendFails, wdMind
  <2> QED BY <1>0, <1>a, <1>s, <2>1 DEF HeldTypes, UnrecordedTypes, PollTypes
<1>12. CASE PollEnds
  <2>1. UNCHANGED <<clock, held, unrecorded, toOpen, alerts>> /\ wdAt' = "idle" BY <1>12 DEF PollEnds, wdMind
  <2> QED BY <1>0, <1>a, <1>s, <2>1 DEF HeldTypes, UnrecordedTypes, PollTypes
<1>13. CASE WdCrash
  <2>1. UNCHANGED <<clock, alerts>> /\ held' = None /\ DOMAIN None = {} /\ unrecorded' = {} /\ toOpen' = {}
        /\ wdAt' = "down"
    BY <1>13 DEF WdCrash, None
  <2> QED BY <1>0, <1>a, <1>s, <2>1 DEF HeldTypes, UnrecordedTypes, PollTypes
<1>14. CASE UNCHANGED WatchdogVars
  <2>1. UNCHANGED <<clock, wdAt, held, unrecorded, toOpen, alerts>> BY <1>14 DEF WatchdogVars, wdMind
  <2> QED BY <1>0, <1>a, <1>s, <2>1 DEF HeldTypes, UnrecordedTypes, PollTypes
<1> QED BY <1>1, <1>2, <1>3, <1>4, <1>5, <1>6, <1>7, <1>8, <1>9, <1>10, <1>11, <1>12, <1>13, <1>14
        DEF WatchdogNext

\* The watchdog implements the ledger: whatever it finds, whenever it dies or
\* loses an answer, the table it writes is one that AlertLedger allows
\* (src/watchdog/store.js, the open-alert index of alert_events).
THEOREM LedgerImplemented == WatchdogSpec => LedgerKept
<1>1. WatchdogInit => LedgerInv /\ Ledger!Init BY LedgerInvInit
<1>2. LedgerInv /\ [WatchdogNext]_WatchdogVars => LedgerInv' /\ [Ledger!Next]_LedgerRows BY LedgerStep
<1> QED BY <1>1, <1>2, PTL DEF WatchdogSpec, LedgerKept, Ledger!Spec

---------------------------------------------------------------------------
(* Episodes: what was seen open is not lost.                               *)

\* At most one alert of a condition is open, and an open one is no younger than
\* what the process holds of its condition; nothing is dated later than now.
OneOpen ==
    \A i, j \in DOMAIN alerts :
        alerts[i].cleared = 0 /\ alerts[j].cleared = 0 /\ alerts[i].cond = alerts[j].cond => i = j

TimesInv ==
    /\ \A i \in DOMAIN alerts : alerts[i].since <= clock
    /\ \A c \in DOMAIN held : held[c].since <= clock
    /\ \A c \in DOMAIN held : \A i \in OpenAlertsOf(c) : alerts[i].since <= held[c].since
    /\ \A u \in unrecorded : u.since <= u.cleared /\ u.cleared <= clock
    /\ \A e \in seen : e.since <= clock

SeenTypes == seen \subseteq [cond : Conditions, since : Polls] /\ (wdAt = "down" => seen = {})

EpisodeInv == OneOpen /\ HeldAlertsOpen /\ TimesInv /\ SeenTypes /\ EpisodesKept

\* A step may mark alerts as told and change nothing else of the table.
TableKept ==
    /\ DOMAIN alerts' = DOMAIN alerts
    /\ \A i \in DOMAIN alerts :
          /\ alerts'[i].cond = alerts[i].cond /\ alerts'[i].since = alerts[i].since
          /\ alerts'[i].cleared = alerts[i].cleared
          /\ alerts[i].told => alerts'[i].told

\* The log of a mail marks its alert as told, and leaves the rest of the table as it is.
LEMMA LogKeepsTable ==
    ASSUME AlertTypes, NEW m, Logged(m) \/ UNCHANGED alerts
    PROVE  TableKept
<1>1. \A j \in DOMAIN alerts : alerts[j] \in AlertRow
  BY DEF AlertTypes
<1>2. CASE alerts' = [alerts EXCEPT ![m.alert].told = TRUE]
  <2>1. /\ DOMAIN alerts' = DOMAIN alerts
        /\ \A j \in DOMAIN alerts : alerts'[j] = IF j = m.alert THEN [alerts[j] EXCEPT !.told = TRUE] ELSE alerts[j]
    BY <1>2
  <2>2. \A j \in DOMAIN alerts :
           LET a == [alerts[j] EXCEPT !.told = TRUE]
           IN  a.cond = alerts[j].cond /\ a.since = alerts[j].since /\ a.cleared = alerts[j].cleared /\ a.told
    BY <1>1 DEF AlertRow
  <2> QED BY <2>1, <2>2 DEF TableKept
<1>3. CASE UNCHANGED alerts
  BY <1>3 DEF TableKept
<1> QED BY <1>2, <1>3 DEF Logged

\* A row more leaves the others as they are.
LEMMA AppendKeeps ==
    ASSUME AlertTypes, NEW a, alerts' = Append(alerts, a)
    PROVE  /\ DOMAIN alerts = 1 .. Len(alerts) /\ Len(alerts) \in Nat
           /\ DOMAIN alerts' = 1 .. (Len(alerts) + 1)
           /\ alerts'[Len(alerts) + 1] = a
           /\ \A i \in DOMAIN alerts : i \in DOMAIN alerts' /\ alerts'[i] = alerts[i]
           /\ \A i \in DOMAIN alerts' : i \in DOMAIN alerts \/ i = Len(alerts) + 1
BY DEF AlertTypes

\* What a step does that leaves the episodes alone.
LEMMA EpisodesStay ==
    ASSUME EpisodeInv, TableKept, UNCHANGED <<clock, held, unrecorded, seen>>, wdAt' = "down" => wdAt = "down"
    PROVE  EpisodeInv'
<1>1. OneOpen'
  BY DEF EpisodeInv, OneOpen, TableKept
<1>2. HeldAlertsOpen'
  BY DEF EpisodeInv, HeldAlertsOpen, TableKept
<1>3. TimesInv'
  BY DEF EpisodeInv, TimesInv, TableKept, OpenAlertsOf
<1>4. SeenTypes'
  BY DEF EpisodeInv, SeenTypes
<1>5. EpisodesKept'
  BY <1>2 DEF EpisodeInv, EpisodesKept, TableKept, Covers
<1> QED BY <1>1, <1>2, <1>3, <1>4, <1>5 DEF EpisodeInv

\* A row that is inserted for a held condition without an open alert, or that is
\* closed already.
LEMMA EpisodesMore ==
    ASSUME LedgerInv, EpisodeInv, UNCHANGED <<clock, seen>>, wdAt' # "down",
           NEW a \in AlertRow, alerts' = Append(alerts, a), a.since <= clock,
           \/ a.cleared # 0
           \/ a.cond \in DOMAIN held /\ a.since = held[a.cond].since /\ OpenAlertsOf(a.cond) = {},
           DOMAIN held' = DOMAIN held,
           \A c \in DOMAIN held :
               /\ held'[c].since = held[c].since
               /\ \/ held'[c].alert = held[c].alert
                  \/ held'[c].alert = Len(alerts) + 1 /\ a.cond = c /\ a.cleared = 0,
           \/ unrecorded' = unrecorded
           \/ \E u \in unrecorded : a = ClosedRow(u) /\ unrecorded' = unrecorded \ {u}
    PROVE  EpisodeInv'
<1> DEFINE n == Len(alerts) + 1
<1>0. AlertTypes /\ OneOpen /\ HeldAlertsOpen /\ TimesInv /\ SeenTypes /\ EpisodesKept
  BY DEF LedgerInv, EpisodeInv
<1>1. /\ Len(alerts) \in Nat /\ DOMAIN alerts = 1 .. Len(alerts) /\ DOMAIN alerts' = 1 .. n /\ alerts'[n] = a
      /\ \A i \in DOMAIN alerts : i \in DOMAIN alerts' /\ alerts'[i] = alerts[i]
      /\ \A i \in DOMAIN alerts' : i \in DOMAIN alerts \/ i = n
      /\ n \in DOMAIN alerts' /\ n \notin DOMAIN alerts /\ n # 0
  BY <1>0, AppendKeeps
<1> HIDE DEF n
<1>2. OneOpen'
  BY <1>0, <1>1 DEF OneOpen, OpenAlertsOf
<1>3. HeldAlertsOpen'
  BY <1>0, <1>1 DEF HeldAlertsOpen, n
<1>4. TimesInv'
  <2>1. \A i \in DOMAIN alerts' : alerts'[i].since <= clock
    BY <1>0, <1>1 DEF TimesInv
  <2>2. \A c \in DOMAIN held : \A i \in OpenAlertsOf(c)' : alerts'[i].since <= held[c].since
    <3> SUFFICES ASSUME NEW c \in DOMAIN held, NEW i \in DOMAIN alerts', alerts'[i].cond = c, alerts'[i].cleared = 0
                 PROVE  alerts'[i].since <= held[c].since
      BY DEF OpenAlertsOf
    <3>1. CASE i \in DOMAIN alerts
      BY <1>0, <1>1, <3>1 DEF TimesInv, OpenAlertsOf
    <3>2. CASE i = n
      <4>1. held[c].since \in Nat
        BY DEF LedgerInv, HeldTypes, Polls
      <4> QED BY <1>1, <3>2, <4>1
    <3> QED BY <1>1, <3>1, <3>2
  <2> QED BY <1>0, <2>1, <2>2 DEF TimesInv
<1>5. SeenTypes'
  BY <1>0 DEF SeenTypes
<1>6. EpisodesKept'
  <2> SUFFICES ASSUME NEW e \in seen
               PROVE  \/ e.cond \in DOMAIN held' /\ held'[e.cond].since = e.since
                      \/ \E u \in unrecorded' : u.cond = e.cond /\ u.since = e.since
                      \/ \E i \in DOMAIN alerts' : Covers(alerts'[i], e)
    BY <1>3 DEF EpisodesKept
  <2>1. CASE e.cond \in DOMAIN held /\ held[e.cond].since = e.since
    BY <2>1
  <2>2. ASSUME NEW i \in DOMAIN alerts, Covers(alerts[i], e) PROVE \E k \in DOMAIN alerts' : Covers(alerts'[k], e)
    BY <1>1, <2>2
  <2>3. ASSUME NEW u \in unrecorded, u.cond = e.cond, u.since = e.since, u \notin unrecorded'
        PROVE  \E k \in DOMAIN alerts' : Covers(alerts'[k], e)
    <3>1. a = ClosedRow(u)
      BY <2>3
    <3>2. u.since \in Nat /\ u.since <= u.cleared
      BY <1>0, <2>3 DEF TimesInv, LedgerInv, UnrecordedTypes, Polls
    <3>3. Covers(a, e)
      BY <2>3, <3>1, <3>2 DEF Covers, ClosedRow
    <3> QED BY <1>1, <3>3
  <2> QED BY <1>0, <2>1, <2>2, <2>3 DEF EpisodesKept
<1> QED BY <1>2, <1>3, <1>4, <1>5, <1>6 DEF EpisodeInv

\* The open alert a restarted process takes up.
LEMMA SeededFrom ==
    ASSUME NEW c \in DOMAIN Seeded
    PROVE  \E i \in OpenAlertsOf(c) : Seeded[c] = [since |-> alerts[i].since, alert |-> i]
<1> DEFINE i == CHOOSE i \in OpenAlertsOf(c) : TRUE
<1>1. PICK j \in StillOpen : alerts[j].cond = c
  BY DEF Seeded
<1>2. j \in OpenAlertsOf(c)
  BY <1>1 DEF StillOpen, OpenAlertsOf
<1>3. i \in OpenAlertsOf(c)
  BY <1>2
<1>4. Seeded[c] = [since |-> alerts[i].since, alert |-> i]
  BY DEF Seeded
<1> HIDE DEF i
<1> QED BY <1>3, <1>4

\* A start of the watchdog keeps the episodes: what it seeds is what is open.
LEMMA EpisodesBegin ==
    ASSUME LedgerInv, EpisodeInv, WdStart \/ WdStartHalf \/ WdStartBlind
    PROVE  EpisodeInv'
<1>0. /\ OneOpen /\ HeldAlertsOpen /\ TimesInv /\ SeenTypes /\ seen = {}
      /\ held' \in {Seeded, None} /\ wdAt' = "idle" /\ UNCHANGED <<clock, unrecorded, alerts, seen>>
      /\ DOMAIN None = {}
  BY DEF EpisodeInv, SeenTypes, WdStart, WdStartHalf, WdStartBlind, WdBegins, None
<1>1. ASSUME NEW c \in DOMAIN held'
      PROVE  \E i \in OpenAlertsOf(c) : held'[c] = [since |-> alerts[i].since, alert |-> i]
  BY <1>0, <1>1, SeededFrom
<1>2. HeldAlertsOpen'
  <2> SUFFICES ASSUME NEW c \in DOMAIN held'
               PROVE  /\ held'[c].alert \in DOMAIN alerts'
                      /\ alerts'[held'[c].alert].cond = c
                      /\ alerts'[held'[c].alert].cleared = 0
    BY DEF HeldAlertsOpen
  <2> QED BY <1>0, <1>1 DEF OpenAlertsOf
<1>3. ASSUME NEW c \in DOMAIN held'
      PROVE  /\ held'[c].since <= clock
             /\ \A i \in OpenAlertsOf(c) : alerts[i].since <= held'[c].since
  <2>1. PICK i \in OpenAlertsOf(c) : held'[c] = [since |-> alerts[i].since, alert |-> i]
    BY <1>1, <1>3
  <2>2. \A k \in OpenAlertsOf(c) : k = i
    BY <1>0 DEF OneOpen, OpenAlertsOf
  <2>3. alerts[i].since \in Nat /\ alerts[i].since <= clock
    <3>1. \A k \in DOMAIN alerts : alerts[k] \in AlertRow
      BY SequenceFacts DEF LedgerInv, AlertTypes
    <3> QED BY <1>0, <3>1 DEF OpenAlertsOf, TimesInv, AlertRow, Polls
  <2> QED BY <2>1, <2>2, <2>3
<1>4. TimesInv'
  BY <1>0, <1>3 DEF TimesInv, OpenAlertsOf
<1>5. OneOpen' /\ SeenTypes'
  BY <1>0 DEF OneOpen, SeenTypes
<1>6. EpisodesKept'
  BY <1>0, <1>2 DEF EpisodesKept
<1> QED BY <1>2, <1>4, <1>5, <1>6 DEF EpisodeInv

\* A poll keeps the episodes: it only decides what it is about to open and close.
LEMMA EpisodesPoll ==
    ASSUME LedgerInv, EpisodeInv, NEW p \in WdProbes, Poll(p)
    PROVE  EpisodeInv'
<1> DEFINE opened  == Detected(p) \ DOMAIN held
           cleared == DOMAIN held \ (Detected(p) \cup Unknown(p))
<1>0. /\ OneOpen /\ HeldAlertsOpen /\ TimesInv /\ SeenTypes /\ EpisodesKept
      /\ clock \in Nat /\ \A i \in DOMAIN alerts : alerts[i] \in AlertRow
      /\ \A c \in DOMAIN held : c \in Conditions /\ held[c] \in [since : Polls, alert : Nat]
      /\ \A u \in unrecorded : u \in [cond : Conditions, since : Polls, cleared : 1 .. WdPolls]
      /\ WdPolls \in Nat
  BY WdAssumption, SequenceFacts
     DEF EpisodeInv, LedgerInv, PollTypes, Polls, AlertTypes, HeldTypes, UnrecordedTypes
<1>1. /\ clock < WdPolls /\ clock' = clock + 1 /\ UNCHANGED alerts
      /\ held' = [c \in (DOMAIN held \ cleared) \cup opened |->
                      IF c \in opened THEN [since |-> clock + 1, alert |-> 0] ELSE held[c]]
      /\ unrecorded' = unrecorded \cup
             {[cond |-> c, since |-> held[c].since, cleared |-> clock + 1] :
                  c \in {d \in cleared : held[d].alert = 0}}
      /\ seen' = seen \cup {[cond |-> c, since |-> clock + 1] : c \in opened}
      /\ wdAt' \in {"open", "enqueue"}
  BY DEF Poll
<1>2. opened \subseteq Conditions /\ opened \cap DOMAIN held = {} /\ cleared \subseteq DOMAIN held
  BY DEF Detected
<1> HIDE DEF opened, cleared
<1>3. ASSUME NEW c \in DOMAIN held'
      PROVE  \/ c \in opened /\ held'[c] = [since |-> clock + 1, alert |-> 0]
             \/ c \in DOMAIN held /\ c \notin cleared /\ held'[c] = held[c]
  BY <1>1, <1>2, <1>3
<1>4. HeldAlertsOpen'
  <2> SUFFICES ASSUME NEW c \in DOMAIN held', held'[c].alert # 0
               PROVE  /\ held'[c].alert \in DOMAIN alerts'
                      /\ alerts'[held'[c].alert].cond = c
                      /\ alerts'[held'[c].alert].cleared = 0
    BY DEF HeldAlertsOpen
  <2>1. c \in DOMAIN held /\ held'[c] = held[c]
    BY <1>3
  <2> QED BY <1>0, <1>1, <2>1 DEF HeldAlertsOpen
<1>5. TimesInv'
  <2>1. \A i \in DOMAIN alerts : alerts[i].since \in Nat /\ alerts[i].since <= clock
    BY <1>0 DEF TimesInv, AlertRow, Polls
  <2>2. ASSUME NEW c \in DOMAIN held'
        PROVE  held'[c].since <= clock + 1 /\ \A i \in OpenAlertsOf(c) : alerts[i].since <= held'[c].since
    <3>1. CASE c \in opened /\ held'[c] = [since |-> clock + 1, alert |-> 0]
      BY <1>0, <2>1, <3>1 DEF OpenAlertsOf
    <3>2. CASE c \in DOMAIN held /\ held'[c] = held[c]
      <4>1. held[c].since \in Nat /\ held[c].since <= clock
        BY <1>0, <3>2 DEF TimesInv, Polls
      <4> QED BY <1>0, <3>2, <4>1 DEF TimesInv
    <3> QED BY <1>3, <2>2, <3>1, <3>2
  <2>3. ASSUME NEW u \in unrecorded' PROVE u.since <= u.cleared /\ u.cleared <= clock + 1
    <3>1. CASE u \in unrecorded
      <4>1. u.cleared \in Nat /\ u.cleared <= clock /\ u.since <= u.cleared
        BY <1>0, <3>1 DEF TimesInv
      <4> QED BY <1>0, <4>1
    <3>2. ASSUME NEW c \in cleared, u = [cond |-> c, since |-> held[c].since, cleared |-> clock + 1]
          PROVE  u.since <= u.cleared /\ u.cleared <= clock + 1
      <4>1. held[c].since \in Nat /\ held[c].since <= clock
        BY <1>0, <1>2 DEF TimesInv, Polls
      <4> QED BY <1>0, <3>2, <4>1
    <3> QED BY <1>1, <2>3, <3>1, <3>2
  <2>4. \A e \in seen' : e.since <= clock + 1
    <3>1. \A e \in seen : e.since \in Nat /\ e.since <= clock
      BY <1>0 DEF TimesInv, SeenTypes, Polls
    <3> QED BY <1>0, <1>1, <3>1
  <2>5. \A i \in DOMAIN alerts : alerts[i].since <= clock + 1
    BY <1>0, <2>1
  <2> QED BY <1>1, <2>2, <2>3, <2>4, <2>5 DEF TimesInv, OpenAlertsOf
<1>6. OneOpen' /\ SeenTypes'
  BY <1>0, <1>1, <1>2 DEF OneOpen, SeenTypes, Polls
<1>7. EpisodesKept'
  <2> SUFFICES ASSUME NEW e \in seen'
               PROVE  \/ e.cond \in DOMAIN held' /\ held'[e.cond].since = e.since
                      \/ \E u \in unrecorded' : u.cond = e.cond /\ u.since = e.since
                      \/ \E i \in DOMAIN alerts' : Covers(alerts'[i], e)
    BY <1>4 DEF EpisodesKept
  <2>1. ASSUME NEW c \in opened, e = [cond |-> c, since |-> clock + 1]
        PROVE  e.cond \in DOMAIN held' /\ held'[e.cond].since = e.since
    BY <1>1, <2>1
  <2>2. CASE e \in seen /\ e.cond \in DOMAIN held /\ held[e.cond].since = e.since /\ e.cond \notin cleared
    BY <1>1, <1>2, <2>2
  <2>3. CASE e.cond \in cleared /\ held[e.cond].since = e.since /\ held[e.cond].alert = 0
    <3>1. [cond |-> e.cond, since |-> e.since, cleared |-> clock + 1] \in unrecorded'
      BY <1>1, <2>3
    <3> QED BY <3>1
  <2>4. CASE e.cond \in cleared /\ held[e.cond].since = e.since /\ held[e.cond].alert # 0
    <3>1. e.cond \in DOMAIN held
      BY <1>2, <2>4
    <3>2. /\ held[e.cond].alert \in DOMAIN alerts /\ alerts[held[e.cond].alert].cond = e.cond
          /\ alerts[held[e.cond].alert].cleared = 0
      BY <1>0, <2>4, <3>1 DEF HeldAlertsOpen
    <3>3. alerts[held[e.cond].alert].since <= e.since
      BY <1>0, <2>4, <3>1, <3>2 DEF TimesInv, OpenAlertsOf
    <3>4. Covers(alerts[held[e.cond].alert], e)
      BY <3>2, <3>3 DEF Covers
    <3> QED BY <1>1, <3>2, <3>4
  <2>5. CASE e \in seen /\ ~(e.cond \in DOMAIN held /\ held[e.cond].since = e.since)
    BY <1>0, <1>1, <2>5 DEF EpisodesKept
  <2> QED BY <1>1, <2>1, <2>2, <2>3, <2>4, <2>5
<1> QED BY <1>4, <1>5, <1>6, <1>7 DEF EpisodeInv

\* An opening keeps the episodes: no alert of its condition was open.
LEMMA EpisodesOpen ==
    ASSUME LedgerInv, EpisodeInv, NEW c \in Conditions, OpenAlert(c)
    PROVE  EpisodeInv'
<1>0. /\ OneOpen /\ HeldAlertsOpen /\ TimesInv /\ SeenTypes /\ EpisodesKept
      /\ c \in DOMAIN held /\ alerts' = Inserted(c) /\ wdAt = "open"
      /\ UNCHANGED <<clock, wdAt, unrecorded, seen>>
      /\ held' = [held EXCEPT ![c].alert =
                      IF OpenAlertsOf(c) # {} THEN CHOOSE i \in OpenAlertsOf(c) : TRUE ELSE Len(alerts) + 1]
      /\ \A d \in DOMAIN held : held[d] \in [since : Polls, alert : Nat]
  BY DEF EpisodeInv, LedgerInv, HeldTypes, OpenAlert, syncOnly
<1>1. PICK a : held' = [held EXCEPT ![c].alert = a]
               /\ a = IF OpenAlertsOf(c) # {} THEN CHOOSE i \in OpenAlertsOf(c) : TRUE ELSE Len(alerts) + 1
  BY <1>0
<1>2. /\ DOMAIN held' = DOMAIN held /\ held'[c].since = held[c].since /\ held'[c].alert = a
      /\ \A d \in DOMAIN held : d # c => held'[d] = held[d]
  BY <1>0, <1>1
<1>3. CASE OpenAlertsOf(c) # {}
  <2>1. a \in OpenAlertsOf(c) /\ UNCHANGED alerts
    BY <1>0, <1>1, <1>3 DEF Inserted
  <2>2. HeldAlertsOpen'
    <3> SUFFICES ASSUME NEW d \in DOMAIN held', held'[d].alert # 0
                 PROVE  /\ held'[d].alert \in DOMAIN alerts'
                        /\ alerts'[held'[d].alert].cond = d
                        /\ alerts'[held'[d].alert].cleared = 0
      BY DEF HeldAlertsOpen
    <3>1. CASE d = c
      BY <1>2, <2>1, <3>1 DEF OpenAlertsOf
    <3>2. CASE d # c
      BY <1>0, <1>2, <2>1, <3>2 DEF HeldAlertsOpen
    <3> QED BY <3>1, <3>2
  <2>3. \A d \in DOMAIN held : held'[d].since = held[d].since
    BY <1>2
  <2>4. TimesInv'
    BY <1>0, <1>2, <2>1, <2>3 DEF TimesInv, OpenAlertsOf
  <2>5. OneOpen' /\ SeenTypes'
    BY <1>0, <2>1 DEF OneOpen, SeenTypes
  <2>6. EpisodesKept'
    BY <1>0, <1>2, <2>1, <2>2, <2>3 DEF EpisodesKept
  <2> QED BY <2>2, <2>4, <2>5, <2>6 DEF EpisodeInv
<1>4. CASE OpenAlertsOf(c) = {}
  <2> DEFINE row == [cond |-> c, since |-> held[c].since, cleared |-> 0, told |-> FALSE]
  <2>1. row \in AlertRow /\ row.since <= clock /\ row.cond = c /\ row.cleared = 0 /\ row.since = held[c].since
    BY <1>0, WdAssumption DEF TimesInv, AlertRow, Polls
  <2>2. alerts' = Append(alerts, row) /\ a = Len(alerts) + 1
    BY <1>0, <1>1, <1>4 DEF Inserted
  <2> HIDE DEF row
  <2>3. \A d \in DOMAIN held :
            /\ held'[d].since = held[d].since
            /\ \/ held'[d].alert = held[d].alert
               \/ held'[d].alert = Len(alerts) + 1 /\ row.cond = d /\ row.cleared = 0
    BY <1>2, <2>1, <2>2
  <2> QED BY <1>0, <1>2, <1>4, <2>1, <2>2, <2>3, EpisodesMore
<1> QED BY <1>3, <1>4

\* A closing keeps the episodes: it is later than the opening.
LEMMA EpisodesClose ==
    ASSUME LedgerInv, EpisodeInv, NEW i \in DOMAIN alerts, CloseAlert(i)
    PROVE  EpisodeInv'
<1>0. /\ OneOpen /\ HeldAlertsOpen /\ TimesInv /\ SeenTypes /\ EpisodesKept
      /\ alerts[i].cleared = 0 /\ alerts[i].cond \notin DOMAIN held
      /\ alerts' = [alerts EXCEPT ![i].cleared = clock]
      /\ UNCHANGED <<clock, wdAt, held, unrecorded, seen>>
      /\ clock \in Polls \ {0}
      /\ \A j \in DOMAIN alerts : alerts[j] \in AlertRow
  BY SequenceFacts DEF EpisodeInv, LedgerInv, PollTypes, AlertTypes, CloseAlert, Stale, StillOpen, syncOnly
<1>1. /\ DOMAIN alerts' = DOMAIN alerts
      /\ \A j \in DOMAIN alerts : j # i => alerts'[j] = alerts[j]
      /\ alerts'[i].cond = alerts[i].cond /\ alerts'[i].since = alerts[i].since /\ alerts'[i].cleared = clock
  BY <1>0 DEF AlertRow
<1>2. clock # 0 /\ clock \in Nat
  BY <1>0 DEF Polls
<1>3. OneOpen' /\ SeenTypes'
  BY <1>0, <1>1, <1>2 DEF OneOpen, SeenTypes
<1>4. HeldAlertsOpen'
  BY <1>0, <1>1 DEF HeldAlertsOpen
<1>5. TimesInv'
  <2>1. \A c : OpenAlertsOf(c)' \subseteq OpenAlertsOf(c)
    BY <1>1, <1>2 DEF OpenAlertsOf
  <2>2. \A j \in DOMAIN alerts : alerts'[j].since = alerts[j].since
    BY <1>1
  <2>3. \A c : OpenAlertsOf(c) \subseteq DOMAIN alerts
    BY DEF OpenAlertsOf
  <2> QED BY <1>0, <1>1, <2>1, <2>2, <2>3 DEF TimesInv
<1>6. EpisodesKept'
  <2>1. ASSUME NEW e \in seen, NEW j \in DOMAIN alerts, Covers(alerts[j], e) PROVE Covers(alerts'[j], e)
    <3>1. e.since <= clock
      BY <1>0 DEF TimesInv
    <3> QED BY <1>0, <1>1, <2>1, <3>1 DEF Covers
  <2> QED BY <1>0, <1>1, <1>4, <2>1 DEF EpisodesKept
<1> QED BY <1>3, <1>4, <1>5, <1>6 DEF EpisodeInv

\* A closed row is that of an episode that is over.
LEMMA ClosedRowTyped ==
    ASSUME LedgerInv, EpisodeInv, NEW u \in unrecorded
    PROVE  ClosedRow(u) \in AlertRow /\ ClosedRow(u).cleared # 0 /\ ClosedRow(u).since <= clock
<1>1. /\ u \in [cond : Conditions, since : Polls, cleared : 1 .. WdPolls] /\ clock \in Nat
      /\ u.since <= u.cleared /\ u.cleared <= clock
  BY DEF LedgerInv, UnrecordedTypes, EpisodeInv, TimesInv, PollTypes, Polls
<1> QED BY <1>1, WdAssumption DEF ClosedRow, AlertRow, Polls

\* The record of an episode that was over before its opening was written keeps them.
LEMMA EpisodesRecord ==
    ASSUME LedgerInv, EpisodeInv, NEW u \in unrecorded, RecordClosed(u)
    PROVE  EpisodeInv'
<1>1. /\ alerts' = Append(alerts, ClosedRow(u)) /\ unrecorded' = unrecorded \ {u}
      /\ UNCHANGED <<clock, wdAt, held, seen>> /\ wdAt = "late"
  BY DEF RecordClosed, syncOnly
<1>2. PICK a : a = ClosedRow(u)
  OBVIOUS
<1>3. a \in AlertRow /\ a.cleared # 0 /\ a.since <= clock
  BY <1>2, ClosedRowTyped
<1> QED BY <1>1, <1>2, <1>3, EpisodesMore

\* A write whose answer is lost keeps the episodes: it is one of the writes above.
LEMMA EpisodesLost ==
    ASSUME LedgerInv, EpisodeInv, AnswerLost
    PROVE  EpisodeInv'
<1>0. /\ UNCHANGED <<clock, held, unrecorded, seen>> /\ wdAt' = "enqueue"
      /\ HeldTypes /\ TimesInv
  BY DEF AnswerLost, syncOnly, LedgerInv, EpisodeInv
<1>1. ASSUME NEW c \in toOpen, alerts' = Inserted(c) PROVE EpisodeInv'
  <2> DEFINE row == [cond |-> c, since |-> held[c].since, cleared |-> 0, told |-> FALSE]
  <2>1. c \in DOMAIN held /\ held[c] \in [since : Polls, alert : Nat]
    BY <1>0 DEF HeldTypes
  <2>2. row \in AlertRow /\ row.since <= clock /\ row.cond = c /\ row.cleared = 0 /\ row.since = held[c].since
    BY <1>0, <2>1, WdAssumption DEF HeldTypes, TimesInv, AlertRow, Polls
  <2>3. CASE OpenAlertsOf(c) = {}
    <3>1. alerts' = Append(alerts, row)
      BY <1>1, <2>3 DEF Inserted
    <3> HIDE DEF row
    <3> QED BY <1>0, <2>1, <2>2, <2>3, <3>1, EpisodesMore
  <2>4. CASE OpenAlertsOf(c) # {}
    <3>1. TableKept
      BY <1>1, <2>4 DEF Inserted, TableKept
    <3> QED BY <1>0, <3>1, EpisodesStay
  <2> QED BY <2>3, <2>4
<1>2. ASSUME NEW u \in unrecorded, alerts' = Append(alerts, ClosedRow(u)) PROVE EpisodeInv'
  <2>1. PICK a : a = ClosedRow(u)
    OBVIOUS
  <2>2. a \in AlertRow /\ a.cleared # 0 /\ a.since <= clock
    BY <2>1, ClosedRowTyped
  <2> QED BY <1>0, <1>2, <2>1, <2>2, EpisodesMore
<1> QED BY <1>1, <1>2 DEF AnswerLost

\* Every step keeps the episodes.
LEMMA EpisodeStep == LedgerInv /\ EpisodeInv /\ [WatchdogNext]_WatchdogVars => EpisodeInv'
<1> SUFFICES ASSUME LedgerInv, EpisodeInv, [WatchdogNext]_WatchdogVars PROVE EpisodeInv'
  OBVIOUS
<1>0. AlertTypes
  BY DEF LedgerInv
<1>1. CASE AllOpen \/ AllClosed \/ AllRecorded \/ SyncFails \/ Enqueue \/ PollEnds \/ UNCHANGED WatchdogVars
  <2>1. UNCHANGED <<clock, held, unrecorded, seen, alerts>> /\ (wdAt' = "down" => wdAt = "down")
    BY <1>1 DEF AllOpen, AllClosed, AllRecorded, SyncFails, Enqueue, PollEnds, WatchdogVars, syncOnly, wdMind
  <2>2. TableKept
    BY <2>1 DEF TableKept
  <2> QED BY <2>1, <2>2, EpisodesStay
<1>2. ASSUME NEW m \in queue, SkipMail(m) \/ SendMail(m) \/ SendFails(m) PROVE EpisodeInv'
  <2>1. UNCHANGED <<clock, held, unrecorded, seen, wdAt>> /\ (Logged(m) \/ UNCHANGED alerts)
    BY <1>2 DEF SkipMail, SendMail, SendFails, Settled, wdMind
  <2>2. TableKept
    BY <1>0, <2>1, LogKeepsTable
  <2> QED BY <2>1, <2>2, EpisodesStay
<1>3. CASE WdCrash
  <2>1. /\ UNCHANGED <<clock, alerts>> /\ held' = None /\ DOMAIN None = {} /\ unrecorded' = {} /\ seen' = {}
        /\ OneOpen /\ TimesInv
    BY <1>3 DEF WdCrash, None, EpisodeInv
  <2> QED BY <2>1 DEF EpisodeInv, OneOpen, HeldAlertsOpen, TimesInv, SeenTypes, EpisodesKept
<1> QED BY <1>1, <1>2, <1>3, EpisodesBegin, EpisodesPoll, EpisodesOpen, EpisodesClose, EpisodesRecord, EpisodesLost
        DEF WatchdogNext

\* At first there is no alert.
LEMMA EpisodeInit == WatchdogInit => EpisodeInv
<1> SUFFICES ASSUME WatchdogInit PROVE EpisodeInv
  OBVIOUS
<1>1. DOMAIN held = {} /\ DOMAIN alerts = {} /\ unrecorded = {} /\ seen = {}
  BY DEF WatchdogInit, None
<1> QED BY <1>1 DEF EpisodeInv, OneOpen, HeldAlertsOpen, TimesInv, SeenTypes, EpisodesKept

\* An episode that this process saw open is held, waits to be recorded or is
\* covered by an alert of the table, whatever fails or is lost and whenever the
\* process dies and starts again.
THEOREM EpisodesAreKept == WatchdogSpec => []EpisodesKept
<1>1. EpisodeInv => EpisodesKept
  BY DEF EpisodeInv
<1> QED BY <1>1, LedgerInvInit, EpisodeInit, LedgerStep, EpisodeStep, PTL DEF WatchdogSpec

\* The table never shows a condition as open twice: a second poll, a restart or
\* a repeated write finds the alert that is open (store.openAlert, _syncDb).
THEOREM OneIsOpen == WatchdogSpec => []OneOpen
<1>1. EpisodeInv => OneOpen
  BY DEF EpisodeInv
<1> QED BY <1>1, LedgerInvInit, EpisodeInit, LedgerStep, EpisodeStep, PTL DEF WatchdogSpec

---------------------------------------------------------------------------
(* Recoveries: what is closed was seen to be absent.                       *)

\* What a poll neither detects nor leaves unknown was shown to be absent.
LEMMA NeitherIsAbsent ==
    ASSUME NEW p \in Probe, NEW c \in Conditions, c \notin Detected(p), c \notin Unknown(p)
    PROVE  c \in ShownAbsent(p)
<1>0. /\ p.answer \in {"ok", "5xx", "none"} /\ p.db \in BOOLEAN /\ p.dbSaid \in BOOLEAN /\ p.redis \in BOOLEAN
      /\ p.queues \in BOOLEAN
  BY DEF Probe
<1>1. /\ ~(c = "web_unreachable" /\ ~Read(p) /\ ~(p.answer = "5xx" /\ ~p.db))
      /\ ~(c = "db_unreachable" /\ (~p.db \/ (Read(p) /\ ~p.dbSaid)))
      /\ ~(c = "valkey_unreachable" /\ Read(p) /\ ~p.redis)
      /\ ~(c = "worker_down" /\ Read(p) /\ p.redis /\ p.beat # "alive")
      /\ ~(c \in p.bad /\ Read(p) /\ (c \in FromQueues => p.queues))
  BY DEF Detected
<1>2. CASE c = "web_unreachable"
  <2>1. p.answer = "ok" \/ (p.answer = "5xx" /\ ~p.db)
    BY <1>1, <1>2 DEF Read
  <2> QED BY <1>2, <2>1 DEF ShownAbsent, Conditions
<1>3. CASE c = "db_unreachable"
  <2>1. p.db /\ (p.answer = "ok" => p.dbSaid)
    BY <1>1, <1>3 DEF Read
  <2> QED BY <1>3, <2>1 DEF ShownAbsent, Conditions
<1>4. ASSUME c # "web_unreachable", c # "db_unreachable"
      PROVE  /\ Read(p) /\ (c = "worker_down" => p.redis) /\ (c \in FromQueues => p.queues)
  BY <1>0, <1>4 DEF Unknown
<1>5. CASE c = "valkey_unreachable"
  BY <1>0, <1>1, <1>4, <1>5 DEF ShownAbsent, Read
<1>6. CASE c = "worker_down"
  BY <1>0, <1>1, <1>4, <1>6 DEF ShownAbsent, Read
<1>7. CASE c \in FromQueues
  BY <1>0, <1>1, <1>4, <1>7 DEF ShownAbsent, Read, FromQueues, FromHealth
<1>8. CASE c \in FromHealth /\ c \notin FromQueues
  BY <1>0, <1>1, <1>4, <1>8 DEF ShownAbsent, Read, FromQueues, FromHealth
<1> QED BY <1>2, <1>3, <1>5, <1>6, <1>7, <1>8 DEF Conditions

\* While the table is brought up to date, all that the poll detected is held.
EvidenceInv ==
    /\ wdAt \in {"open", "close"} => probe \in Probe /\ Detected(probe) \subseteq DOMAIN held
    /\ wdAt \in {"down", "idle", "open", "close", "late", "enqueue", "mail"}

\* A poll puts what it detects among what is held.
LEMMA EvidenceStep == EvidenceInv /\ [WatchdogNext]_WatchdogVars => EvidenceInv'
<1> SUFFICES ASSUME EvidenceInv, [WatchdogNext]_WatchdogVars PROVE EvidenceInv'
  OBVIOUS
<1>1. ASSUME NEW p \in WdProbes, Poll(p) PROVE EvidenceInv'
  <2>1. probe' = p /\ wdAt' \in {"open", "enqueue"} /\ Detected(p) \subseteq DOMAIN held'
    BY <1>1 DEF Poll
  <2>2. PICK q : q = probe'
    OBVIOUS
  <2>3. q \in Probe /\ Detected(q) \subseteq DOMAIN held'
    BY <2>1, <2>2, WdAssumption
  <2> QED BY <2>1, <2>2, <2>3 DEF EvidenceInv
<1>2. ASSUME NEW c \in Conditions, OpenAlert(c) PROVE EvidenceInv'
  <2>1. DOMAIN held' = DOMAIN held /\ UNCHANGED <<probe, wdAt>>
    BY <1>2 DEF OpenAlert, syncOnly
  <2> QED BY <2>1 DEF EvidenceInv
<1>3. CASE WdStart \/ WdStartHalf \/ WdStartBlind \/ AllClosed \/ AllRecorded \/ SyncFails \/ AnswerLost
           \/ Enqueue \/ PollEnds \/ WdCrash
  BY <1>3 DEF EvidenceInv, WdStart, WdStartHalf, WdStartBlind, WdBegins, AllClosed, AllRecorded, SyncFails,
              AnswerLost, Enqueue, PollEnds, WdCrash
<1>4. CASE AllOpen \/ UNCHANGED WatchdogVars
           \/ (\E i \in DOMAIN alerts : CloseAlert(i)) \/ (\E u \in unrecorded : RecordClosed(u))
  <2>1. UNCHANGED <<probe, held>> /\ (UNCHANGED wdAt \/ (wdAt = "open" /\ wdAt' = "close"))
    BY <1>4 DEF AllOpen, CloseAlert, RecordClosed, WatchdogVars, wdMind, syncOnly
  <2> QED BY <2>1 DEF EvidenceInv
<1>5. ASSUME NEW m \in queue, SkipMail(m) \/ SendMail(m) \/ SendFails(m) PROVE EvidenceInv'
  <2>1. UNCHANGED <<probe, wdAt, held>>
    BY <1>5 DEF SkipMail, SendMail, SendFails, Settled, wdMind
  <2> QED BY <2>1 DEF EvidenceInv
<1> QED BY <1>1, <1>2, <1>3, <1>4, <1>5 DEF WatchdogNext

\* A table that is kept, or has rows more, has no alert closed.
LEMMA NoneClosed ==
    ASSUME AlertTypes, TableKept \/ \E a : alerts' = Append(alerts, a)
    PROVE  \A i \in DOMAIN alerts : alerts[i].cleared = 0 => alerts'[i].cleared = 0
BY AppendKeeps DEF TableKept

\* An alert is closed only by the step that is to, on what its poll read.
LEMMA ClosedByPoll ==
    ASSUME LedgerInv, EvidenceInv, [WatchdogNext]_WatchdogVars,
           NEW i \in DOMAIN alerts, alerts[i].cleared = 0, alerts'[i].cleared # 0
    PROVE  alerts[i].cond \in ShownAbsent(probe)
<1>0. AlertTypes /\ \A j \in DOMAIN alerts : alerts[j] \in AlertRow
  BY SequenceFacts DEF LedgerInv, AlertTypes
<1>1. ASSUME TableKept \/ \E a : alerts' = Append(alerts, a) PROVE FALSE
  BY <1>0, <1>1, NoneClosed
<1>2. ASSUME UNCHANGED alerts PROVE FALSE
  BY <1>2
<1>3. ASSUME NEW k \in DOMAIN alerts, CloseAlert(k) PROVE alerts[i].cond \in ShownAbsent(probe)
  <2>1. /\ alerts' = [alerts EXCEPT ![k].cleared = clock] /\ wdAt = "close"
        /\ alerts[k].cond \notin DOMAIN held /\ alerts[k].cond \notin Unknown(probe)
    BY <1>3 DEF CloseAlert, Stale
  <2>2. i = k
    BY <1>0, <2>1
  <2>3. alerts[k].cond \in Conditions /\ alerts[k].cond \notin Detected(probe) /\ probe \in Probe
    BY <1>0, <2>1 DEF EvidenceInv, AlertRow
  <2> QED BY <2>1, <2>2, <2>3, NeitherIsAbsent
<1>4. ASSUME NEW c \in Conditions, alerts' = Inserted(c) PROVE FALSE
  BY <1>1, <1>2, <1>4 DEF Inserted
<1>5. ASSUME NEW m \in queue, SkipMail(m) \/ SendMail(m) \/ SendFails(m) PROVE FALSE
  <2>1. Logged(m) \/ UNCHANGED alerts
    BY <1>5 DEF SkipMail, SendMail, SendFails, Settled
  <2> QED BY <1>0, <1>1, <2>1, LogKeepsTable
<1>6. ASSUME NEW c \in Conditions, OpenAlert(c) PROVE FALSE
  BY <1>4, <1>6 DEF OpenAlert
<1>7. ASSUME AnswerLost PROVE FALSE
  <2>1. toOpen \subseteq Conditions
    BY DEF LedgerInv, HeldTypes
  <2> QED BY <1>1, <1>4, <1>7, <2>1 DEF AnswerLost
<1>8. ASSUME NEW u \in unrecorded, RecordClosed(u) PROVE FALSE
  BY <1>1, <1>8 DEF RecordClosed
<1>9. ASSUME \/ WdStart \/ WdStartHalf \/ WdStartBlind \/ (\E p \in WdProbes : Poll(p)) \/ AllOpen \/ AllClosed
             \/ AllRecorded \/ SyncFails \/ Enqueue \/ PollEnds \/ WdCrash \/ UNCHANGED WatchdogVars
      PROVE  FALSE
  BY <1>2, <1>9 DEF WdStart, WdStartHalf, WdStartBlind, WdBegins, Poll, AllOpen, AllClosed, AllRecorded,
                    SyncFails, Enqueue, PollEnds, WdCrash, WatchdogVars, syncOnly
<1> QED BY <1>3, <1>5, <1>6, <1>7, <1>8, <1>9 DEF WatchdogNext

\* An unknown is never reported as a recovery: an open alert is closed only in a
\* poll that could read its condition and found it absent, whatever the probes
\* return and however the process fails (src/watchdog/conditions.js).
THEOREM ClosedOnlyOnEvidence == WatchdogSpec => ClosedOnEvidence
<1>1. WatchdogInit => EvidenceInv
  BY DEF WatchdogInit, EvidenceInv
<1>2. LedgerInv /\ EvidenceInv /\ [WatchdogNext]_WatchdogVars
      => [\A i \in DOMAIN alerts : alerts[i].cleared = 0 /\ alerts'[i].cleared # 0
              => alerts[i].cond \in ShownAbsent(probe)]_WatchdogVars
  BY ClosedByPoll
<1> QED BY <1>1, <1>2, LedgerInvInit, LedgerStep, EvidenceStep, PTL DEF WatchdogSpec, ClosedOnEvidence

---------------------------------------------------------------------------
(* E-mails: each opening is reported, and none that was reported again.    *)

\* The "opened" e-mails that are still to be sent.
Openings == {m \in pending \cup queue : m.kind = "opened"}

Syncing == wdAt \in {"open", "close", "late", "enqueue"}

\* What is held, prepared and waiting where the process is.
PhaseInv ==
    /\ opening \subseteq DOMAIN held /\ clearing \subseteq Entry
    /\ pending \subseteq Event /\ queue \subseteq Event
    /\ reported \subseteq [cond : Conditions, since : Nat]
    /\ wdAt \in {"down", "idle", "mail"} => opening = {}
    /\ wdAt # "mail" => queue = {}
    /\ wdAt = "down" => pending = {}

\* What opens in a poll is younger than all that waits or was reported before.
DatesInv ==
    /\ \A c \in opening : held[c].since = clock
    /\ \A m \in Openings : m.since <= clock /\ (Syncing => m.since < clock)
    /\ \A e \in reported : e.since <= clock /\ (Syncing => e.since < clock)

\* No opening waits twice, nor once it was reported.
OnceInv ==
    /\ \A m, n \in Openings : OpeningOf(m) = OpeningOf(n) => m = n
    /\ \A m \in Openings : OpeningOf(m) \notin reported
    /\ \A m \in Openings : m \in pending => m \notin queue

\* An opening that was reported, or whose e-mail names an alert, has an alert; no
\* other open alert is of this opening, and it is marked once it was reported.
KnownInv ==
    /\ \A m \in Openings, c \in DOMAIN held :
          m.alert # 0 /\ m.cond = c /\ m.since = held[c].since => held[c].alert # 0
    /\ \A m \in Openings : \A i \in OpenAlertsOf(m.cond) :
          m.alert # 0 /\ m.since = alerts[i].since => i = m.alert
    /\ \A c \in DOMAIN held : [cond |-> c, since |-> held[c].since] \in reported => held[c].alert # 0
    /\ \A i \in StillOpen : [cond |-> alerts[i].cond, since |-> alerts[i].since] \in reported => alerts[i].told

\* The opening of a held condition is of this poll, settled, or waiting.
Awaited(c) ==
    \/ c \in opening
    \/ [cond |-> c, since |-> held[c].since] \in decided
    \/ held[c].alert # 0 /\ alerts[held[c].alert].told
    \/ \E m \in Openings : m.cond = c /\ m.since = held[c].since

AwaitedInv == (wdAt # "down" /\ started # "half") => \A c \in DOMAIN held : Awaited(c)

MailInv == PhaseInv /\ DatesInv /\ OnceInv /\ KnownInv /\ AwaitedInv

\* What a step does that brings the table up to date: alerts are closed or
\* added, the latter closed or for a held condition without an open one, and a
\* held condition may come to know its alert.
Synced ==
    /\ UNCHANGED <<clock, opening, clearing, pending, queue, started, disowned, decided, reported>>
    /\ Syncing /\ Syncing'
    /\ DOMAIN held' = DOMAIN held
    /\ \A c \in DOMAIN held :
          /\ held'[c].since = held[c].since
          /\ held[c].alert # 0 => held'[c].alert = held[c].alert
    /\ \A i \in DOMAIN alerts :
          /\ i \in DOMAIN alerts'
          /\ alerts'[i].cond = alerts[i].cond /\ alerts'[i].since = alerts[i].since
          /\ alerts'[i].told = alerts[i].told
          /\ alerts'[i].cleared = 0 => alerts[i].cleared = 0
    /\ \A i \in DOMAIN alerts' \ DOMAIN alerts : alerts'[i].told = FALSE
    /\ \A i \in DOMAIN alerts' \ DOMAIN alerts :
          \/ alerts'[i].cleared # 0
          \/ /\ alerts'[i].cond \in DOMAIN held /\ alerts'[i].since = held[alerts'[i].cond].since
             /\ held[alerts'[i].cond].alert = 0

\* What is inserted for a held condition is such an alert.
LEMMA InsertedSynced ==
    ASSUME LedgerInv, EpisodeInv, NEW c \in DOMAIN held, alerts' = Inserted(c)
    PROVE  /\ \A i \in DOMAIN alerts : i \in DOMAIN alerts' /\ alerts'[i] = alerts[i]
           /\ \A i \in DOMAIN alerts' \ DOMAIN alerts :
                 /\ alerts'[i].cond = c /\ alerts'[i].since = held[c].since /\ held[c].alert = 0
                 /\ alerts'[i].told = FALSE
<1>1. CASE OpenAlertsOf(c) # {}
  BY <1>1 DEF Inserted
<1>2. CASE OpenAlertsOf(c) = {}
  <2>1. held[c].alert = 0
    BY <1>2 DEF EpisodeInv, HeldAlertsOpen, OpenAlertsOf
  <2>2. alerts' = Append(alerts, [cond |-> c, since |-> held[c].since, cleared |-> 0, told |-> FALSE])
    BY <1>2 DEF Inserted
  <2> QED BY <2>1, <2>2, AppendKeeps DEF LedgerInv
<1> QED BY <1>1, <1>2

\* The steps of _syncDb are such steps.
LEMMA SyncSteps ==
    ASSUME LedgerInv, EpisodeInv,
           \/ \E c \in Conditions : OpenAlert(c)
           \/ \E i \in DOMAIN alerts : CloseAlert(i)
           \/ \E u \in unrecorded : RecordClosed(u)
           \/ AllOpen \/ AllClosed \/ AllRecorded \/ SyncFails \/ AnswerLost
    PROVE  Synced
<1>0. /\ AlertTypes /\ HeldTypes /\ OneOpen /\ HeldAlertsOpen
      /\ \A j \in DOMAIN alerts : alerts[j] \in AlertRow
      /\ \A d \in DOMAIN held : held[d] \in [since : Polls, alert : Nat]
  BY SequenceFacts DEF LedgerInv, EpisodeInv, AlertTypes, HeldTypes
<1>1. ASSUME NEW c \in Conditions, OpenAlert(c) PROVE Synced
  <2>1. /\ UNCHANGED <<clock, wdAt, opening, clearing, pending, queue, started, disowned, decided, reported>>
        /\ wdAt = "open" /\ c \in DOMAIN held /\ alerts' = Inserted(c)
    BY <1>0, <1>1 DEF OpenAlert, syncOnly, wdMail, HeldTypes
  <2>2. PICK a : held' = [held EXCEPT ![c].alert = a]
                 /\ a = IF OpenAlertsOf(c) # {} THEN CHOOSE i \in OpenAlertsOf(c) : TRUE ELSE Len(alerts) + 1
    BY <1>1 DEF OpenAlert
  <2>3. held[c].alert # 0 => a = held[c].alert
    <3> SUFFICES ASSUME held[c].alert # 0 PROVE a = held[c].alert
      OBVIOUS
    <3>1. held[c].alert \in OpenAlertsOf(c)
      BY <1>0, <2>1 DEF HeldAlertsOpen, OpenAlertsOf
    <3>2. a \in OpenAlertsOf(c)
      BY <2>2, <3>1
    <3> QED BY <1>0, <3>1, <3>2 DEF OneOpen, OpenAlertsOf
  <2>4. /\ DOMAIN held' = DOMAIN held
        /\ \A d \in DOMAIN held : /\ held'[d].since = held[d].since
                                  /\ held[d].alert # 0 => held'[d].alert = held[d].alert
    BY <1>0, <2>1, <2>2, <2>3
  <2>5. /\ \A i \in DOMAIN alerts : i \in DOMAIN alerts' /\ alerts'[i] = alerts[i]
        /\ \A i \in DOMAIN alerts' \ DOMAIN alerts :
              /\ alerts'[i].cond = c /\ alerts'[i].since = held[c].since /\ held[c].alert = 0
              /\ alerts'[i].told = FALSE
    BY <2>1, InsertedSynced
  <2> QED BY <2>1, <2>4, <2>5 DEF Synced, Syncing
<1>2. ASSUME NEW i \in DOMAIN alerts, CloseAlert(i) PROVE Synced
  <2>1. /\ UNCHANGED <<clock, wdAt, opening, clearing, pending, queue, started, disowned, decided, reported, held>>
        /\ wdAt = "close" /\ alerts[i].cleared = 0 /\ alerts' = [alerts EXCEPT ![i].cleared = clock]
    BY <1>2 DEF CloseAlert, syncOnly, wdMail, Stale, StillOpen
  <2>2. /\ DOMAIN alerts' = DOMAIN alerts
        /\ \A j \in DOMAIN alerts : j # i => alerts'[j] = alerts[j]
        /\ alerts'[i].cond = alerts[i].cond /\ alerts'[i].since = alerts[i].since
        /\ alerts'[i].told = alerts[i].told
    BY <1>0, <2>1 DEF AlertRow
  <2> QED BY <2>1, <2>2 DEF Synced, Syncing
<1>3. ASSUME NEW u \in unrecorded, alerts' = Append(alerts, ClosedRow(u)),
             UNCHANGED <<clock, opening, clearing, pending, queue, started, disowned, decided, reported, held>>,
             Syncing, Syncing'
      PROVE  Synced
  <2>1. ClosedRow(u).cleared # 0 /\ ClosedRow(u).told = FALSE
    BY ClosedRowTyped DEF ClosedRow
  <2> QED BY <1>0, <1>3, <2>1, AppendKeeps DEF Synced
<1>4. ASSUME NEW u \in unrecorded, RecordClosed(u) PROVE Synced
  BY <1>3, <1>4 DEF RecordClosed, syncOnly, wdMail, Syncing
<1>5. CASE AllOpen \/ AllClosed \/ AllRecorded \/ SyncFails
  <2>1. /\ UNCHANGED <<clock, opening, clearing, pending, queue, started, disowned, decided, reported, held, alerts>>
        /\ Syncing /\ Syncing'
    BY <1>5 DEF AllOpen, AllClosed, AllRecorded, SyncFails, syncOnly, wdMail, Syncing
  <2> QED BY <2>1 DEF Synced
<1>6. CASE AnswerLost
  <2>1. /\ UNCHANGED <<clock, opening, clearing, pending, queue, started, disowned, decided, reported, held>>
        /\ Syncing /\ Syncing' /\ toOpen \subseteq DOMAIN held
    BY <1>0, <1>6 DEF AnswerLost, syncOnly, wdMail, Syncing, HeldTypes
  <2>2. ASSUME NEW c \in toOpen, alerts' = Inserted(c) PROVE Synced
    BY <2>1, <2>2, InsertedSynced DEF Synced
  <2> QED BY <1>3, <1>6, <2>1, <2>2 DEF AnswerLost
<1> QED BY <1>1, <1>2, <1>4, <1>5, <1>6

\* A condition that is held stays awaited while it is, when what waits and what
\* was decided is kept.
LEMMA StaysAwaited ==
    ASSUME HeldAlertsOpen, NEW c \in DOMAIN held, Awaited(c),
           held'[c].since = held[c].since, held[c].alert # 0 => held'[c].alert = held[c].alert,
           \A i \in DOMAIN alerts : alerts[i].told => alerts'[i].told,
           opening \subseteq opening', decided \subseteq decided',
           \A m \in Openings : \/ OpeningOf(m) \in decided'
                               \/ \E n \in Openings' : n.cond = m.cond /\ n.since = m.since
    PROVE  Awaited(c)'
<1>1. CASE c \in opening
  BY <1>1 DEF Awaited
<1>2. CASE [cond |-> c, since |-> held[c].since] \in decided
  BY <1>2 DEF Awaited
<1>3. CASE held[c].alert # 0 /\ alerts[held[c].alert].told
  BY <1>3 DEF Awaited, HeldAlertsOpen
<1>4. ASSUME NEW m \in Openings, m.cond = c, m.since = held[c].since PROVE Awaited(c)'
  <2>1. CASE OpeningOf(m) \in decided'
    BY <1>4, <2>1 DEF Awaited, OpeningOf
  <2>2. ASSUME NEW n \in Openings', n.cond = m.cond, n.since = m.since PROVE Awaited(c)'
    BY <1>4, <2>2 DEF Awaited
  <2> QED BY <1>4, <2>1, <2>2
<1> QED BY <1>1, <1>2, <1>3, <1>4 DEF Awaited

\* Bringing the table up to date disturbs no e-mail.
LEMMA MailSync ==
    ASSUME LedgerInv, EpisodeInv, MailInv, Synced
    PROVE  MailInv'
<1>0. /\ PhaseInv /\ DatesInv /\ OnceInv /\ KnownInv /\ AwaitedInv
      /\ HeldAlertsOpen /\ OneOpen
      /\ Openings' = Openings
  BY DEF MailInv, EpisodeInv, Synced, Openings
<1>1. PhaseInv'
  BY <1>0 DEF PhaseInv, Synced, Syncing
<1>2. DatesInv'
  BY <1>0 DEF DatesInv, Synced, PhaseInv
<1>3. OnceInv'
  BY <1>0 DEF OnceInv, Synced
<1>4. KnownInv'
  <2>1. ASSUME NEW m \in Openings, NEW c \in DOMAIN held, m.alert # 0, m.cond = c, m.since = held'[c].since
        PROVE  held'[c].alert # 0
    BY <1>0, <2>1 DEF KnownInv, Synced
  <2>2. ASSUME NEW m \in Openings, NEW i \in DOMAIN alerts', alerts'[i].cond = m.cond, alerts'[i].cleared = 0,
               m.alert # 0, m.since = alerts'[i].since
        PROVE  i = m.alert
    <3>1. CASE i \in DOMAIN alerts
      <4>1. i \in OpenAlertsOf(m.cond) /\ m.since = alerts[i].since
        BY <2>2, <3>1 DEF Synced, OpenAlertsOf
      <4> QED BY <1>0, <2>2, <4>1 DEF KnownInv
    <3>2. CASE i \notin DOMAIN alerts
      <4>1. m.cond \in DOMAIN held /\ m.since = held[m.cond].since /\ held[m.cond].alert = 0
        BY <2>2, <3>2 DEF Synced
      <4> QED BY <1>0, <2>2, <4>1 DEF KnownInv
    <3> QED BY <3>1, <3>2
  <2>3. ASSUME NEW c \in DOMAIN held, [cond |-> c, since |-> held'[c].since] \in reported
        PROVE  held'[c].alert # 0
    BY <1>0, <2>3 DEF KnownInv, Synced
  <2>4. ASSUME NEW i \in DOMAIN alerts', alerts'[i].cleared = 0,
               [cond |-> alerts'[i].cond, since |-> alerts'[i].since] \in reported
        PROVE  alerts'[i].told
    <3>1. CASE i \in DOMAIN alerts
      <4>1. i \in StillOpen /\ [cond |-> alerts[i].cond, since |-> alerts[i].since] \in reported
        BY <2>4, <3>1 DEF Synced, StillOpen
      <4>2. alerts[i].told
        BY <1>0, <4>1 DEF KnownInv
      <4> QED BY <3>1, <4>2 DEF Synced
    <3>2. CASE i \notin DOMAIN alerts
      BY <1>0, <2>4, <3>2 DEF KnownInv, Synced
    <3> QED BY <3>1, <3>2
  <2>5. reported' = reported /\ DOMAIN held' = DOMAIN held
    BY DEF Synced
  <2> QED BY <1>0, <2>1, <2>2, <2>3, <2>4, <2>5 DEF KnownInv, OpenAlertsOf, StillOpen
<1>5. AwaitedInv'
  <2> SUFFICES ASSUME started # "half", NEW c \in DOMAIN held PROVE Awaited(c)'
    BY DEF AwaitedInv, Synced
  <2>1. Awaited(c)
    BY <1>0 DEF AwaitedInv, Synced, Syncing
  <2> QED BY <1>0, <2>1, StaysAwaited DEF Synced
<1> QED BY <1>1, <1>2, <1>3, <1>4, <1>5 DEF MailInv

\* A watchdog that starts takes up the open alerts, and the e-mails of those that
\* are not marked.
LEMMA MailBegin ==
    ASSUME LedgerInv, EpisodeInv, MailInv, WdStart \/ WdStartHalf \/ WdStartBlind
    PROVE  MailInv'
<1>0. /\ PhaseInv /\ DatesInv /\ OnceInv /\ KnownInv /\ HeldAlertsOpen /\ OneOpen /\ TimesInv
      /\ wdAt = "down" /\ wdAt' = "idle" /\ queue = {} /\ pending = {} /\ opening = {}
      /\ UNCHANGED <<clock, opening, clearing, queue, alerts, decided, reported>>
      /\ \/ held' = Seeded /\ pending' = Unsettled /\ started' = "full"
         \/ held' = Seeded /\ pending' = {} /\ started' = "half"
         \/ held' = None /\ pending' = {} /\ DOMAIN held' = {}
      /\ DOMAIN alerts \subseteq Nat \ {0} /\ \A i \in DOMAIN alerts : alerts[i] \in AlertRow
      /\ clock \in Nat
  BY SequenceFacts
     DEF MailInv, EpisodeInv, PhaseInv, WdStart, WdStartHalf, WdStartBlind, WdBegins, None, LedgerInv, AlertTypes,
         PollTypes, Polls
<1>1. ASSUME NEW m \in Openings'
      PROVE  \E i \in StillOpen : ~alerts[i].told /\ m = Opened(alerts[i].cond, alerts[i].since, i)
  BY <1>0, <1>1 DEF Openings, Unsettled
<1>2. ASSUME NEW c \in DOMAIN held'
      PROVE  \E i \in OpenAlertsOf(c) : held'[c] = [since |-> alerts[i].since, alert |-> i]
  BY <1>0, <1>2, SeededFrom
<1>3. PhaseInv'
  <2>1. \A m \in Unsettled : m \in Event
    BY <1>0 DEF Unsettled, StillOpen, Opened, Event, AlertRow, Polls
  <2> QED BY <1>0, <2>1 DEF PhaseInv
<1>4. DatesInv'
  <2>1. \A m \in Openings' : m.since <= clock
    BY <1>0, <1>1 DEF Opened, TimesInv, StillOpen
  <2> QED BY <1>0, <2>1 DEF DatesInv, Syncing
<1>5. OnceInv'
  <2>1. ASSUME NEW m \in Openings', NEW n \in Openings', OpeningOf(m) = OpeningOf(n) PROVE m = n
    <3>1. PICK i \in StillOpen : m = Opened(alerts[i].cond, alerts[i].since, i)
      BY <1>1
    <3>2. PICK j \in StillOpen : n = Opened(alerts[j].cond, alerts[j].since, j)
      BY <1>1
    <3>3. alerts[i].cond = alerts[j].cond
      BY <2>1, <3>1, <3>2 DEF OpeningOf, Opened
    <3> QED BY <1>0, <3>1, <3>2, <3>3 DEF OneOpen, StillOpen
  <2>2. ASSUME NEW m \in Openings' PROVE OpeningOf(m) \notin reported
    <3>1. PICK i \in StillOpen : ~alerts[i].told /\ m = Opened(alerts[i].cond, alerts[i].since, i)
      BY <1>1
    <3>2. OpeningOf(m) = [cond |-> alerts[i].cond, since |-> alerts[i].since]
      BY <3>1 DEF OpeningOf, Opened
    <3> QED BY <1>0, <3>1, <3>2 DEF KnownInv
  <2> QED BY <1>0, <2>1, <2>2 DEF OnceInv, OpeningOf
<1>6. KnownInv'
  <2>1. \A c \in DOMAIN held' : held'[c].alert # 0
    BY <1>0, <1>2 DEF OpenAlertsOf
  <2>2. ASSUME NEW m \in Openings', NEW i \in OpenAlertsOf(m.cond) PROVE i = m.alert
    <3>1. PICK j \in StillOpen : m = Opened(alerts[j].cond, alerts[j].since, j)
      BY <1>1
    <3>2. m.cond = alerts[j].cond /\ m.alert = j
      BY <3>1 DEF Opened
    <3> QED BY <1>0, <2>2, <3>2 DEF OneOpen, StillOpen, OpenAlertsOf
  <2>3. \A c : OpenAlertsOf(c)' = OpenAlertsOf(c)
    BY <1>0 DEF OpenAlertsOf
  <2> QED BY <1>0, <2>1, <2>2, <2>3 DEF KnownInv, StillOpen
<1>7. AwaitedInv'
  <2> SUFFICES ASSUME held' = Seeded, pending' = Unsettled, NEW c \in DOMAIN held' PROVE Awaited(c)'
    BY <1>0 DEF AwaitedInv
  <2>1. PICK i \in OpenAlertsOf(c) : held'[c] = [since |-> alerts[i].since, alert |-> i]
    BY <1>2
  <2>2. i # 0 /\ held'[c].alert = i /\ held'[c].since = alerts[i].since /\ alerts[i].cond = c /\ i \in StillOpen
    BY <1>0, <2>1 DEF OpenAlertsOf, StillOpen
  <2>3. CASE alerts[i].told
    BY <1>0, <2>2, <2>3 DEF Awaited
  <2>4. CASE ~alerts[i].told
    <3>1. Opened(alerts[i].cond, alerts[i].since, i) \in Openings'
      BY <2>2, <2>4 DEF Unsettled, Openings, Opened
    <3>2. PICK m : m = Opened(alerts[i].cond, alerts[i].since, i)
      OBVIOUS
    <3>3. m \in Openings' /\ m.cond = c /\ m.since = held'[c].since
      BY <2>2, <3>1, <3>2 DEF Opened
    <3> QED BY <3>3 DEF Awaited
  <2> QED BY <2>3, <2>4
<1> QED BY <1>3, <1>4, <1>5, <1>6, <1>7 DEF MailInv

\* A poll moves the clock on and opens conditions that were not held.
LEMMA MailPoll ==
    ASSUME LedgerInv, EpisodeInv, MailInv, NEW p \in WdProbes, Poll(p)
    PROVE  MailInv'
<1> DEFINE opened  == Detected(p) \ DOMAIN held
           cleared == DOMAIN held \ (Detected(p) \cup Unknown(p))
<1>0. /\ PhaseInv /\ DatesInv /\ OnceInv /\ KnownInv /\ AwaitedInv /\ HeldAlertsOpen /\ TimesInv
      /\ clock \in Nat /\ WdPolls \in Nat
      /\ \A c \in DOMAIN held : c \in Conditions /\ held[c] \in [since : Polls, alert : Nat]
  BY WdAssumption DEF MailInv, EpisodeInv, LedgerInv, HeldTypes, PollTypes, Polls
<1>1. /\ wdAt = "idle" /\ clock' = clock + 1 /\ opening = {} /\ opening' = opened
      /\ UNCHANGED <<pending, queue, alerts, decided, reported, started>> /\ queue = {}
      /\ held' = [c \in (DOMAIN held \ cleared) \cup opened |->
                      IF c \in opened THEN [since |-> clock + 1, alert |-> 0] ELSE held[c]]
      /\ clearing' = {[cond |-> c, since |-> held[c].since, alert |-> held[c].alert] : c \in cleared}
      /\ wdAt' \in {"open", "enqueue"}
  BY <1>0 DEF Poll, PhaseInv, wdMail
<1>2. opened \subseteq Conditions /\ opened \cap DOMAIN held = {} /\ cleared \subseteq DOMAIN held
  BY DEF Detected
<1> HIDE DEF opened, cleared
<1>3. ASSUME NEW c \in DOMAIN held'
      PROVE  \/ c \in opened /\ held'[c] = [since |-> clock + 1, alert |-> 0]
             \/ c \in DOMAIN held /\ c \notin opened /\ held'[c] = held[c]
  BY <1>1, <1>2, <1>3
<1>4. /\ Openings' = Openings
      /\ \A m \in Openings : m \in Event /\ m.since \in Nat /\ m.since <= clock
      /\ \A e \in reported : e.since \in Nat /\ e.since <= clock
  BY <1>0, <1>1 DEF Openings, PhaseInv, DatesInv, Event
<1>5. PhaseInv'
  <2>1. \A e \in clearing' : e \in Entry
    BY <1>0, <1>1, <1>2 DEF Entry, Polls
  <2> QED BY <1>0, <1>1, <2>1 DEF PhaseInv
<1>6. DatesInv'
  <2>1. \A c \in opened : held'[c].since = clock + 1
    BY <1>1
  <2>2. \A m \in Openings : m.since < clock + 1 /\ m.since <= clock + 1
    BY <1>0, <1>4
  <2>3. \A e \in reported : e.since < clock + 1 /\ e.since <= clock + 1
    BY <1>0, <1>4
  <2> QED BY <1>1, <1>4, <2>1, <2>2, <2>3 DEF DatesInv
<1>7. OnceInv'
  BY <1>0, <1>1, <1>4 DEF OnceInv
<1>8. KnownInv'
  <2>1. ASSUME NEW m \in Openings, NEW c \in DOMAIN held', m.alert # 0, m.cond = c, m.since = held'[c].since
        PROVE  held'[c].alert # 0
    <3>1. c \notin opened
      BY <1>0, <1>1, <1>4, <2>1
    <3> QED BY <1>0, <1>3, <2>1, <3>1 DEF KnownInv
  <2>2. ASSUME NEW c \in DOMAIN held', [cond |-> c, since |-> held'[c].since] \in reported
        PROVE  held'[c].alert # 0
    <3>1. c \notin opened
      BY <1>0, <1>1, <1>4, <2>2
    <3> QED BY <1>0, <1>3, <2>2, <3>1 DEF KnownInv
  <2>3. \A c : OpenAlertsOf(c)' = OpenAlertsOf(c)
    BY <1>1 DEF OpenAlertsOf
  <2> QED BY <1>0, <1>1, <1>4, <2>1, <2>2, <2>3 DEF KnownInv, StillOpen
<1>9. AwaitedInv'
  <2> SUFFICES ASSUME started # "half", NEW c \in DOMAIN held' PROVE Awaited(c)'
    BY <1>1 DEF AwaitedInv
  <2>1. CASE c \in opened
    BY <1>1, <2>1 DEF Awaited
  <2>2. CASE c \in DOMAIN held /\ held'[c] = held[c]
    <3>1. Awaited(c)
      BY <1>0, <1>1, <2>2 DEF AwaitedInv
    <3> QED BY <1>0, <1>1, <1>4, <2>2, <3>1, StaysAwaited
  <2> QED BY <1>3, <2>1, <2>2
<1> QED BY <1>5, <1>6, <1>7, <1>8, <1>9 DEF MailInv

\* What opened in the poll becomes an e-mail of it.
LEMMA MailEnqueue ==
    ASSUME LedgerInv, EpisodeInv, MailInv, Enqueue
    PROVE  MailInv'
<1> DEFINE new == {Opened(c, held[c].since, held[c].alert) : c \in opening}
           gone == {[kind |-> "cleared", cond |-> e.cond, since |-> e.since, alert |-> e.alert, tries |-> 0] :
                        e \in clearing}
<1>0. /\ PhaseInv /\ DatesInv /\ OnceInv /\ KnownInv /\ AwaitedInv /\ HeldAlertsOpen /\ OneOpen
      /\ clock \in Nat
      /\ \A c \in DOMAIN held : c \in Conditions /\ held[c] \in [since : Polls, alert : Nat]
  BY DEF MailInv, EpisodeInv, LedgerInv, HeldTypes, PollTypes, Polls
<1>1. /\ wdAt = "enqueue" /\ wdAt' = "mail" /\ queue = {} /\ queue' = pending \cup new \cup gone
      /\ pending' = {} /\ opening' = {} /\ clearing' = {}
      /\ UNCHANGED <<clock, held, alerts, decided, reported, started>>
  BY <1>0 DEF Enqueue, PhaseInv
<1>2. /\ \A m \in new : \E c \in opening : m = Opened(c, held[c].since, held[c].alert)
      /\ \A c \in opening : Opened(c, held[c].since, held[c].alert) \in new
      /\ \A m \in gone : \E e \in clearing :
            m = [kind |-> "cleared", cond |-> e.cond, since |-> e.since, alert |-> e.alert, tries |-> 0]
  OBVIOUS
<1> HIDE DEF new, gone
<1>3. Openings' = Openings \cup new
  BY <1>1, <1>2 DEF Openings, Opened
<1>4. ASSUME NEW m \in new
      PROVE  \E c \in opening : /\ c \in DOMAIN held /\ m.cond = c /\ m.since = held[c].since
                                /\ m.alert = held[c].alert /\ m.since = clock
                                /\ m = Opened(c, held[c].since, held[c].alert)
  BY <1>0, <1>2, <1>4 DEF Opened, PhaseInv, DatesInv
<1>5. /\ \A m \in Openings : m.since \in Nat /\ m.since < clock
      /\ \A e \in reported : e.since \in Nat /\ e.since < clock
  BY <1>0, <1>1 DEF Openings, PhaseInv, DatesInv, Syncing, Event
<1>6. PhaseInv'
  <2>1. \A m \in new : m \in Event
    BY <1>0, <1>2 DEF Opened, Event, PhaseInv, Polls
  <2>2. \A m \in gone : m \in Event
    BY <1>0, <1>2 DEF Event, PhaseInv, Entry
  <2> QED BY <1>0, <1>1, <2>1, <2>2 DEF PhaseInv
<1>7. DatesInv'
  BY <1>0, <1>1, <1>3, <1>4, <1>5 DEF DatesInv, Syncing
<1>8. OnceInv'
  <2>1. ASSUME NEW m \in Openings', NEW n \in Openings', OpeningOf(m) = OpeningOf(n) PROVE m = n
    <3>0. m.cond = n.cond /\ m.since = n.since
      BY <2>1 DEF OpeningOf
    <3>1. CASE m \in Openings /\ n \in Openings
      BY <1>0, <2>1, <3>1 DEF OnceInv
    <3>2. CASE m \in new /\ n \in new
      BY <1>4, <3>0, <3>2
    <3>3. CASE (m \in new /\ n \in Openings) \/ (n \in new /\ m \in Openings)
      BY <1>0, <1>4, <1>5, <3>0, <3>3
    <3> QED BY <1>3, <3>1, <3>2, <3>3
  <2>2. ASSUME NEW m \in new PROVE OpeningOf(m) \notin reported
    <3>1. m.since = clock
      BY <1>4
    <3> QED BY <1>0, <1>5, <3>1 DEF OpeningOf
  <2> QED BY <1>0, <1>1, <1>3, <2>1, <2>2 DEF OnceInv, OpeningOf
<1>9. KnownInv'
  <2>1. ASSUME NEW m \in new, NEW i \in OpenAlertsOf(m.cond), m.alert # 0 PROVE i = m.alert
    <3>1. PICK c \in opening : c \in DOMAIN held /\ m.cond = c /\ m.alert = held[c].alert
      BY <1>4
    <3> QED BY <1>0, <2>1, <3>1 DEF HeldAlertsOpen, OneOpen, OpenAlertsOf
  <2>2. \A m \in new : \A c \in DOMAIN held : m.alert # 0 /\ m.cond = c => held[c].alert # 0
    BY <1>4
  <2>3. \A c : OpenAlertsOf(c)' = OpenAlertsOf(c)
    BY <1>1 DEF OpenAlertsOf
  <2> QED BY <1>0, <1>1, <1>3, <2>1, <2>2, <2>3 DEF KnownInv, StillOpen
<1>10. AwaitedInv'
  <2> SUFFICES ASSUME started # "half", NEW c \in DOMAIN held PROVE Awaited(c)'
    BY <1>1 DEF AwaitedInv
  <2>1. Awaited(c)
    BY <1>0, <1>1 DEF AwaitedInv
  <2>2. CASE c \in opening
    <3>1. PICK m : m = Opened(c, held[c].since, held[c].alert)
      OBVIOUS
    <3>2. m \in Openings' /\ m.cond = c /\ m.since = held[c].since
      BY <1>2, <1>3, <2>2, <3>1 DEF Opened
    <3> QED BY <1>1, <3>2 DEF Awaited
  <2>3. CASE c \notin opening
    BY <1>1, <1>3, <2>1, <2>3 DEF Awaited
  <2> QED BY <2>2, <2>3
<1> QED BY <1>6, <1>7, <1>8, <1>9, <1>10 DEF MailInv

\* The same e-mail, to be tried again.
Again(m) == [m EXCEPT !.tries = @ + 1]

\* What the outcome of an e-mail changes: it is settled, and may be recorded as
\* such with its alert, or it waits to be tried again.
MailStep(m) ==
    /\ m \in queue /\ UNCHANGED <<clock, wdAt, held, opening, clearing, started>> /\ TableKept
    /\ queue' = queue \ {m} /\ decided \subseteq decided'
    /\ \/ pending' = pending \cup {Again(m)} /\ reported' = reported
       \/ /\ pending' = pending /\ (m.kind = "opened" => OpeningOf(m) \in decided')
          /\ \/ reported' = reported
             \/ /\ reported' = reported \cup {OpeningOf(m)} /\ m.kind = "opened" /\ m.alert # 0
                /\ m.alert \in DOMAIN alerts => alerts'[m.alert].told

\* Every outcome of an e-mail is such a step.
LEMMA MailSteps ==
    ASSUME LedgerInv, NEW m \in queue, SkipMail(m) \/ SendMail(m) \/ SendFails(m)
    PROVE  MailStep(m)
<1>0. AlertTypes /\ \A j \in DOMAIN alerts : alerts[j] \in AlertRow
  BY SequenceFacts DEF LedgerInv, AlertTypes
<1>1. CASE SendFails(m)
  <2>1. /\ UNCHANGED <<clock, wdAt, held, opening, clearing, started, alerts, reported>>
        /\ queue' = queue \ {m}
    BY <1>1 DEF SendFails, wdMind
  <2>2. TableKept
    BY <2>1 DEF TableKept
  <2>3. CASE m.tries + 1 < WdAttempts
    BY <1>1, <2>1, <2>2, <2>3 DEF SendFails, MailStep, Again
  <2>4. CASE ~(m.tries + 1 < WdAttempts)
    BY <1>1, <2>1, <2>2, <2>4 DEF SendFails, MailStep
  <2> QED BY <2>3, <2>4
<1>2. CASE SkipMail(m) \/ SendMail(m)
  <2>1. /\ UNCHANGED <<clock, wdAt, held, opening, clearing, started, pending>> /\ queue' = queue \ {m}
        /\ decided' = IF m.kind = "opened" THEN decided \cup {OpeningOf(m)} ELSE decided
        /\ Logged(m) \/ UNCHANGED <<alerts, reported>>
    BY <1>2 DEF SkipMail, SendMail, Settled, wdMind
  <2>2. TableKept
    BY <1>0, <2>1, LogKeepsTable
  <2>3. decided \subseteq decided' /\ (m.kind = "opened" => OpeningOf(m) \in decided')
    BY <2>1
  <2>4. CASE UNCHANGED <<alerts, reported>>
    BY <2>1, <2>2, <2>3, <2>4 DEF MailStep
  <2>5. CASE Logged(m) /\ ~UNCHANGED <<alerts, reported>>
    <3>1. /\ alerts' = [alerts EXCEPT ![m.alert].told = TRUE] /\ reported' = reported \cup {OpeningOf(m)}
          /\ m.kind = "opened" /\ m.alert # 0
      BY <2>5 DEF Logged
    <3>2. m.alert \in DOMAIN alerts => alerts'[m.alert].told
      BY <1>0, <3>1 DEF AlertRow
    <3> QED BY <2>1, <2>2, <2>3, <3>1, <3>2 DEF MailStep
  <2> QED BY <2>1, <2>4, <2>5
<1> QED BY <1>1, <1>2

\* No outcome of an e-mail lets an opening be forgotten, or reported again.
LEMMA MailGoes ==
    ASSUME LedgerInv, EpisodeInv, MailInv, wdAt = "mail", NEW m \in queue, MailStep(m)
    PROVE  MailInv'
<1>0. /\ PhaseInv /\ DatesInv /\ OnceInv /\ KnownInv /\ AwaitedInv /\ HeldAlertsOpen /\ OneOpen
      /\ m \in Event /\ clock \in Nat
  BY DEF MailInv, EpisodeInv, PhaseInv, LedgerInv, PollTypes, Polls
<1>1. /\ Again(m) \in Event /\ Again(m).kind = m.kind /\ Again(m).cond = m.cond /\ Again(m).since = m.since
      /\ Again(m).alert = m.alert
  BY <1>0 DEF Again, Event
<1>2. OpeningOf(Again(m)) = OpeningOf(m)
  BY <1>1 DEF OpeningOf
<1>3. /\ UNCHANGED <<clock, wdAt, held, opening, clearing, started>> /\ ~Syncing
      /\ wdAt' = "mail" /\ ~Syncing'
  BY DEF MailStep, Syncing
<1>4. m.kind = "opened" => m \in Openings
  BY DEF Openings
<1>5. ASSUME NEW n \in Openings'
      PROVE  \/ n \in Openings /\ n # m
             \/ n = Again(m) /\ m \in Openings /\ reported' = reported
  <2>1. CASE n \in (pending \cup queue) \ {m}
    BY <1>5, <2>1 DEF Openings
  <2>2. CASE n = Again(m) /\ reported' = reported
    BY <1>1, <1>4, <1>5, <2>2 DEF Openings
  <2>3. CASE n = m /\ n \in pending
    <3>1. m \in Openings /\ m \in pending
      BY <1>5, <2>3 DEF Openings
    <3> QED BY <1>0, <3>1 DEF OnceInv, MailStep
  <2> QED BY <1>5, <2>1, <2>2, <2>3 DEF MailStep, Openings
<1>6. ASSUME NEW n \in Openings'
      PROVE  /\ \E o \in Openings : /\ n.cond = o.cond /\ n.since = o.since /\ n.alert = o.alert
                                    /\ OpeningOf(n) = OpeningOf(o)
             /\ n.since <= clock
  <2>1. CASE n \in Openings
    BY <1>0, <2>1 DEF DatesInv
  <2>2. CASE n = Again(m) /\ m \in Openings
    BY <1>0, <1>1, <1>2, <2>2 DEF DatesInv
  <2> QED BY <1>5, <2>1, <2>2
<1>7. \A e \in reported' : e \in reported \/ (e = OpeningOf(m) /\ m \in Openings /\ reported' # reported)
  BY <1>4 DEF MailStep
<1>8. PhaseInv'
  <2>1. pending' \subseteq Event /\ queue' \subseteq Event
    BY <1>0, <1>1 DEF PhaseInv, MailStep
  <2>2. OpeningOf(m) \in [cond : Conditions, since : Nat]
    BY <1>0 DEF OpeningOf, Event
  <2>3. reported' \subseteq [cond : Conditions, since : Nat]
    BY <1>0, <1>7, <2>2 DEF PhaseInv
  <2> QED BY <1>0, <1>3, <2>1, <2>3 DEF PhaseInv
<1>9. DatesInv'
  <2>1. \A e \in reported' : e.since <= clock
    BY <1>0, <1>7 DEF DatesInv, OpeningOf
  <2> QED BY <1>0, <1>3, <1>6, <2>1 DEF DatesInv, PhaseInv
<1>10. OnceInv'
  <2>1. ASSUME NEW n \in Openings' PROVE OpeningOf(n) \notin reported'
    <3>1. CASE n \in Openings /\ n # m
      <4>1. OpeningOf(n) \notin reported /\ (m \in Openings => OpeningOf(n) # OpeningOf(m))
        BY <1>0, <3>1 DEF OnceInv
      <4> QED BY <1>7, <4>1
    <3>2. CASE n = Again(m) /\ m \in Openings /\ reported' = reported
      BY <1>0, <1>2, <3>2 DEF OnceInv
    <3> QED BY <1>5, <2>1, <3>1, <3>2
  <2>2. ASSUME NEW n \in Openings', NEW o \in Openings', OpeningOf(n) = OpeningOf(o) PROVE n = o
    <3>1. CASE n \in Openings /\ n # m /\ o \in Openings /\ o # m
      BY <1>0, <2>2, <3>1 DEF OnceInv
    <3>2. CASE n \in Openings /\ n # m /\ o = Again(m) /\ m \in Openings
      BY <1>0, <1>2, <2>2, <3>2 DEF OnceInv
    <3>3. CASE o \in Openings /\ o # m /\ n = Again(m) /\ m \in Openings
      BY <1>0, <1>2, <2>2, <3>3 DEF OnceInv
    <3>4. CASE n = Again(m) /\ o = Again(m)
      BY <3>4
    <3> QED BY <1>5, <2>2, <3>1, <3>2, <3>3, <3>4
  <2>3. ASSUME NEW n \in Openings', n \in pending' PROVE n \notin queue'
    <3>1. CASE n \in pending
      <4>1. n \in Openings
        BY <2>3, <3>1 DEF Openings
      <4> QED BY <1>0, <3>1, <4>1 DEF OnceInv, MailStep
    <3>2. CASE n = Again(m)
      <4>1. m \in Openings /\ m # Again(m)
        BY <1>0, <1>1, <1>4, <2>3, <3>2 DEF Openings, Again, Event
      <4>2. ASSUME n \in queue PROVE FALSE
        <5>1. n \in Openings
          BY <2>3, <4>2 DEF Openings
        <5> QED BY <1>0, <1>2, <3>2, <4>1, <5>1 DEF OnceInv
      <4> QED BY <4>2 DEF MailStep
    <3> QED BY <2>3, <3>1, <3>2 DEF MailStep
  <2> QED BY <2>1, <2>2, <2>3 DEF OnceInv, OpeningOf
<1>11. KnownInv'
  <2>1. ASSUME NEW n \in Openings', NEW c \in DOMAIN held, n.alert # 0, n.cond = c, n.since = held[c].since
        PROVE  held[c].alert # 0
    <3>1. PICK o \in Openings : n.cond = o.cond /\ n.since = o.since /\ n.alert = o.alert
      BY <1>6
    <3> QED BY <1>0, <2>1, <3>1 DEF KnownInv
  <2>2. ASSUME NEW n \in Openings', NEW i \in OpenAlertsOf(n.cond), n.alert # 0, n.since = alerts[i].since
        PROVE  i = n.alert
    <3>1. PICK o \in Openings : n.cond = o.cond /\ n.since = o.since /\ n.alert = o.alert
      BY <1>6
    <3> QED BY <1>0, <2>2, <3>1 DEF KnownInv
  <2>3. ASSUME NEW c \in DOMAIN held, [cond |-> c, since |-> held[c].since] \in reported'
        PROVE  held[c].alert # 0
    <3>1. CASE [cond |-> c, since |-> held[c].since] \in reported
      BY <1>0, <3>1 DEF KnownInv
    <3>2. CASE [cond |-> c, since |-> held[c].since] = OpeningOf(m) /\ m \in Openings /\ reported' # reported
      <4>1. m.cond = c /\ m.since = held[c].since /\ m.alert # 0
        BY <3>2 DEF OpeningOf, MailStep
      <4> QED BY <1>0, <3>2, <4>1 DEF KnownInv
    <3> QED BY <1>7, <2>3, <3>1, <3>2
  <2>4. ASSUME NEW i \in StillOpen, [cond |-> alerts[i].cond, since |-> alerts[i].since] \in reported'
        PROVE  alerts'[i].told
    <3>1. i \in DOMAIN alerts /\ i \in OpenAlertsOf(alerts[i].cond)
      BY DEF StillOpen, OpenAlertsOf
    <3>2. CASE [cond |-> alerts[i].cond, since |-> alerts[i].since] \in reported
      BY <1>0, <3>1, <3>2 DEF KnownInv, MailStep, TableKept
    <3>3. CASE [cond |-> alerts[i].cond, since |-> alerts[i].since] = OpeningOf(m) /\ m \in Openings
               /\ reported' # reported
      <4>1. /\ m.cond = alerts[i].cond /\ m.since = alerts[i].since /\ m.alert # 0
            /\ m.alert \in DOMAIN alerts => alerts'[m.alert].told
        BY <3>3 DEF OpeningOf, MailStep
      <4>2. i = m.alert
        BY <1>0, <3>1, <3>3, <4>1 DEF KnownInv
      <4> QED BY <3>1, <4>1, <4>2
    <3> QED BY <1>7, <2>4, <3>2, <3>3
  <2>5. /\ \A c : OpenAlertsOf(c)' = OpenAlertsOf(c)
        /\ StillOpen' = StillOpen
        /\ \A i \in DOMAIN alerts : alerts'[i].cond = alerts[i].cond /\ alerts'[i].since = alerts[i].since
        /\ StillOpen \subseteq DOMAIN alerts /\ \A c : OpenAlertsOf(c) \subseteq DOMAIN alerts
    BY DEF OpenAlertsOf, StillOpen, MailStep, TableKept
  <2>6. \A n \in Openings' : \A i \in OpenAlertsOf(n.cond)' : n.alert # 0 /\ n.since = alerts'[i].since => i = n.alert
    BY <2>2, <2>5
  <2>7. \A i \in StillOpen' : [cond |-> alerts'[i].cond, since |-> alerts'[i].since] \in reported' => alerts'[i].told
    BY <2>4, <2>5
  <2> QED BY <1>3, <2>1, <2>3, <2>6, <2>7 DEF KnownInv
<1>12. AwaitedInv'
  <2> SUFFICES ASSUME started # "half", NEW c \in DOMAIN held PROVE Awaited(c)'
    BY <1>3 DEF AwaitedInv
  <2>1. Awaited(c)
    BY <1>0 DEF AwaitedInv
  <2>2. ASSUME NEW n \in Openings
        PROVE  \/ OpeningOf(n) \in decided'
               \/ \E o \in Openings' : o.cond = n.cond /\ o.since = n.since
    <3>1. CASE n # m
      BY <3>1 DEF Openings, MailStep
    <3>2. CASE n = m /\ Again(m) \in pending'
      <4>1. Again(m) \in Openings'
        BY <1>1, <2>2, <3>2 DEF Openings
      <4> QED BY <1>1, <3>2, <4>1
    <3>3. CASE n = m /\ (m.kind = "opened" => OpeningOf(m) \in decided')
      BY <2>2, <3>3 DEF Openings
    <3> QED BY <3>1, <3>2, <3>3 DEF MailStep
  <2>3. held' = held /\ opening' = opening /\ decided \subseteq decided'
        /\ \A i \in DOMAIN alerts : alerts[i].told => alerts'[i].told
    BY DEF MailStep, TableKept
  <2> QED BY <1>0, <2>1, <2>2, <2>3, StaysAwaited
<1> QED BY <1>8, <1>9, <1>10, <1>11, <1>12 DEF MailInv

\* A watchdog that dies takes its e-mails with it.
LEMMA MailCrash ==
    ASSUME MailInv, WdCrash
    PROVE  MailInv'
<1>1. /\ wdAt' = "down" /\ DOMAIN held' = {} /\ opening' = {} /\ clearing' = {} /\ pending' = {} /\ queue' = {}
      /\ UNCHANGED <<clock, alerts, decided, reported>> /\ Openings' = {}
  BY DEF WdCrash, None, Openings
<1>2. PhaseInv /\ DatesInv /\ KnownInv
  BY DEF MailInv
<1>3. PhaseInv'
  BY <1>1, <1>2 DEF PhaseInv
<1>4. DatesInv'
  BY <1>1, <1>2 DEF DatesInv, Syncing
<1>5. OnceInv' /\ AwaitedInv'
  BY <1>1 DEF OnceInv, AwaitedInv
<1>6. KnownInv'
  BY <1>1, <1>2 DEF KnownInv, StillOpen
<1> QED BY <1>3, <1>4, <1>5, <1>6 DEF MailInv

\* The end of a poll, and a step of nobody, change no e-mail.
LEMMA MailRests ==
    ASSUME MailInv, PollEnds \/ UNCHANGED WatchdogVars
    PROVE  MailInv'
<1>1. /\ UNCHANGED <<clock, held, opening, clearing, pending, queue, alerts, started, decided, reported>>
      /\ UNCHANGED wdAt \/ (wdAt = "mail" /\ queue = {} /\ wdAt' = "idle")
  BY DEF PollEnds, WatchdogVars, wdMind, wdMail
<1>2. /\ PhaseInv /\ DatesInv /\ OnceInv /\ KnownInv /\ AwaitedInv /\ Openings' = Openings
      /\ \A c \in DOMAIN held : Awaited(c)' = Awaited(c)
  BY <1>1 DEF MailInv, Openings, Awaited
<1>3. PhaseInv'
  BY <1>1, <1>2 DEF PhaseInv
<1>4. DatesInv' /\ OnceInv'
  BY <1>1, <1>2 DEF DatesInv, OnceInv, Syncing
<1>5. KnownInv'
  BY <1>1, <1>2 DEF KnownInv, StillOpen, OpenAlertsOf
<1>6. AwaitedInv'
  BY <1>1, <1>2 DEF AwaitedInv
<1> QED BY <1>3, <1>4, <1>5, <1>6 DEF MailInv

\* Every step keeps the e-mails.
LEMMA MailStays == LedgerInv /\ EpisodeInv /\ MailInv /\ [WatchdogNext]_WatchdogVars => MailInv'
<1> SUFFICES ASSUME LedgerInv, EpisodeInv, MailInv, [WatchdogNext]_WatchdogVars PROVE MailInv'
  OBVIOUS
<1>1. ASSUME NEW m \in queue, SkipMail(m) \/ SendMail(m) \/ SendFails(m) PROVE MailInv'
  <2>1. wdAt = "mail"
    BY <1>1 DEF SkipMail, SendMail, SendFails
  <2> QED BY <1>1, <2>1, MailSteps, MailGoes
<1>2. ASSUME NEW p \in WdProbes, Poll(p) PROVE MailInv'
  BY <1>2, MailPoll
<1>3. CASE WdStart \/ WdStartHalf \/ WdStartBlind
  BY <1>3, MailBegin
<1>4. CASE \/ \E c \in Conditions : OpenAlert(c)
           \/ \E i \in DOMAIN alerts : CloseAlert(i)
           \/ \E u \in unrecorded : RecordClosed(u)
           \/ AllOpen \/ AllClosed \/ AllRecorded \/ SyncFails \/ AnswerLost
  BY <1>4, SyncSteps, MailSync
<1> QED BY <1>1, <1>2, <1>3, <1>4, MailEnqueue, MailCrash, MailRests DEF WatchdogNext

\* At the start nothing is held and nothing waits.
LEMMA MailInit == WatchdogInit => MailInv
<1> SUFFICES ASSUME WatchdogInit PROVE MailInv
  OBVIOUS
<1>1. /\ wdAt = "down" /\ DOMAIN held = {} /\ opening = {} /\ clearing = {} /\ pending = {} /\ queue = {}
      /\ DOMAIN alerts = {} /\ reported = {} /\ Openings = {}
  BY DEF WatchdogInit, None, Openings
<1> QED BY <1>1 DEF MailInv, PhaseInv, DatesInv, OnceInv, KnownInv, AwaitedInv, StillOpen

\* Between two polls, the e-mail of every opening that is held was decided, is
\* recorded with its alert, or waits: over any number of retries, failures,
\* crashes and restarts but one whose second query fails (src/watchdog/index.js).
THEOREM OpeningsAreMailed == WatchdogSpec => []OpeningsMailed
<1>1. MailInv => OpeningsMailed
  <2> SUFFICES ASSUME MailInv, wdAt = "idle", started # "half", NEW c \in DOMAIN held
               PROVE  \/ [cond |-> c, since |-> held[c].since] \in decided
                      \/ held[c].alert # 0 /\ alerts[held[c].alert].told
                      \/ \E m \in pending : m.kind = "opened" /\ m.cond = c /\ m.since = held[c].since
    BY DEF OpeningsMailed
  <2>1. Awaited(c) /\ opening = {} /\ queue = {}
    BY DEF MailInv, AwaitedInv, PhaseInv
  <2> QED BY <2>1 DEF Awaited, Openings
<1> QED BY <1>1, LedgerInvInit, EpisodeInit, MailInit, LedgerStep, EpisodeStep, MailStays, PTL DEF WatchdogSpec

---------------------------------------------------------------------------
(* Which alerts may be e-mailed a second time.                             *)

\* What the process does not hold of the open alerts, it has disowned; so has it
\* every alert that is marked, or named by a waiting e-mail, and whose condition
\* opened in this poll; and every alert that two waiting e-mails name.
ForeignInv ==
    wdAt # "down" => \A i \in StillOpen : alerts[i].cond \in DOMAIN held \/ i \in disowned

ReopenedInv ==
    \A c \in opening : \A i \in OpenAlertsOf(c) :
        alerts[i].told \/ (\E m \in Openings : m.alert = i) => i \in disowned

WaitingInv ==
    /\ \A m \in Openings : m.alert # 0 =>
          m.alert \in DOMAIN alerts /\ (alerts[m.alert].told => m.alert \in disowned)
    /\ \A m, n \in Openings : m.alert = n.alert /\ m.alert # 0 /\ m # n => m.alert \in disowned

DisownedInv == ForeignInv /\ ReopenedInv /\ WaitingInv

\* A watchdog that starts holds what is open, or has disowned it.
LEMMA DisownedBegin ==
    ASSUME LedgerInv, MailInv, WdStart \/ WdStartHalf \/ WdStartBlind
    PROVE  DisownedInv'
<1>1. /\ opening' = {} /\ queue' = {} /\ alerts' = alerts /\ pending' \in {Unsettled, {}}
      /\ (held' = Seeded \/ disowned' = StillOpen)
  BY DEF WdStart, WdStartHalf, WdStartBlind, WdBegins, MailInv, PhaseInv
<1>2. ForeignInv'
  <2>1. \A i \in StillOpen : alerts[i].cond \in DOMAIN Seeded
    BY DEF Seeded
  <2> QED BY <1>1, <2>1 DEF ForeignInv, StillOpen
<1>3. \A m \in Openings' : \E i \in StillOpen :
          /\ ~alerts[i].told
          /\ m = [kind |-> "opened", cond |-> alerts[i].cond, since |-> alerts[i].since, alert |-> i, tries |-> 0]
  <2>1. \A m \in Unsettled : \E i \in StillOpen :
          /\ ~alerts[i].told
          /\ m = [kind |-> "opened", cond |-> alerts[i].cond, since |-> alerts[i].since, alert |-> i, tries |-> 0]
    BY DEF Unsettled, Opened
  <2> QED BY <1>1, <2>1 DEF Openings
<1>4. WaitingInv'
  <2>1. \A m \in Openings' : m.alert \in DOMAIN alerts /\ ~alerts[m.alert].told
    BY <1>3 DEF StillOpen
  <2>2. \A m, n \in Openings' : m.alert = n.alert => m = n
    BY <1>3
  <2> QED BY <1>1, <2>1, <2>2 DEF WaitingInv
<1> QED BY <1>1, <1>2, <1>4 DEF DisownedInv, ReopenedInv

\* A poll disowns the open alerts of what it sees clear.
LEMMA DisownedPoll ==
    ASSUME LedgerInv, MailInv, DisownedInv, NEW p \in WdProbes, Poll(p)
    PROVE  DisownedInv'
<1> DEFINE opened  == Detected(p) \ DOMAIN held
           cleared == DOMAIN held \ (Detected(p) \cup Unknown(p))
<1>1. /\ wdAt = "idle" /\ opening' = opened /\ UNCHANGED <<pending, queue, alerts>>
      /\ DOMAIN held' = (DOMAIN held \ cleared) \cup opened
      /\ disowned' = disowned \cup {i \in StillOpen : alerts[i].cond \in cleared}
  BY DEF Poll, wdMail
<1>2. Openings' = Openings
  BY <1>1 DEF Openings
<1>3. ForeignInv'
  BY <1>1 DEF DisownedInv, ForeignInv, StillOpen
<1>4. ReopenedInv'
  BY <1>1, <1>2 DEF DisownedInv, ForeignInv, ReopenedInv, OpenAlertsOf, StillOpen
<1>5. WaitingInv'
  BY <1>1, <1>2 DEF DisownedInv, WaitingInv
<1> QED BY <1>3, <1>4, <1>5 DEF DisownedInv

\* Bringing the table up to date marks no alert.
LEMMA DisownedSync ==
    ASSUME DisownedInv, LedgerInv', Synced
    PROVE  DisownedInv'
<1>1. Openings' = Openings /\ opening' = opening /\ disowned' = disowned /\ DOMAIN held' = DOMAIN held
  BY DEF Synced, Openings
<1>2. ForeignInv'
  <2> SUFFICES ASSUME NEW i \in DOMAIN alerts', alerts'[i].cleared = 0
               PROVE  alerts'[i].cond \in DOMAIN held \/ i \in disowned
    BY <1>1 DEF ForeignInv, StillOpen
  <2>1. CASE i \in DOMAIN alerts
    <3>1. i \in StillOpen /\ alerts'[i].cond = alerts[i].cond /\ wdAt # "down"
      BY <2>1 DEF Synced, Syncing, StillOpen
    <3> QED BY <3>1 DEF DisownedInv, ForeignInv
  <2>2. CASE i \notin DOMAIN alerts
    BY <2>2 DEF Synced
  <2> QED BY <2>1, <2>2
<1>3. WaitingInv'
  BY <1>1 DEF DisownedInv, WaitingInv, Synced
<1>4. ReopenedInv'
  <2> SUFFICES ASSUME NEW c \in opening, NEW i \in DOMAIN alerts', alerts'[i].cond = c, alerts'[i].cleared = 0,
                      alerts'[i].told \/ (\E m \in Openings : m.alert = i)
               PROVE  i \in disowned
    BY <1>1 DEF ReopenedInv, OpenAlertsOf
  <2>1. CASE i \in DOMAIN alerts
    <3>1. i \in OpenAlertsOf(c) /\ alerts'[i].told = alerts[i].told
      BY <2>1 DEF Synced, OpenAlertsOf
    <3> QED BY <3>1 DEF DisownedInv, ReopenedInv
  <2>2. CASE i \notin DOMAIN alerts
    <3>1. ~alerts'[i].told
      BY <2>2 DEF Synced
    <3>2. ASSUME NEW m \in Openings, m.alert = i PROVE i \in disowned
      <4>1. CASE i # 0
        BY <2>2, <3>2, <4>1 DEF DisownedInv, WaitingInv
      <4>2. i # 0
        BY SequenceFacts DEF LedgerInv, AlertTypes
      <4> QED BY <4>1, <4>2
    <3> QED BY <3>1, <3>2
  <2> QED BY <2>1, <2>2
<1> QED BY <1>2, <1>3, <1>4 DEF DisownedInv

\* The openings of this poll are queued with the alerts they are known by.
LEMMA DisownedEnqueue ==
    ASSUME LedgerInv, EpisodeInv, MailInv, DisownedInv, Enqueue
    PROVE  DisownedInv'
<1> DEFINE new == {Opened(c, held[c].since, held[c].alert) : c \in opening}
           gone == {[kind |-> "cleared", cond |-> e.cond, since |-> e.since, alert |-> e.alert, tries |-> 0] :
                        e \in clearing}
<1>1. /\ wdAt = "enqueue" /\ queue = {} /\ queue' = pending \cup new \cup gone
      /\ pending' = {} /\ opening' = {} /\ UNCHANGED <<held, alerts, disowned>>
  BY DEF Enqueue, MailInv, PhaseInv
<1>2. \A m \in new : \E c \in opening :
          m = [kind |-> "opened", cond |-> c, since |-> held[c].since, alert |-> held[c].alert, tries |-> 0]
  BY DEF Opened
<1>3. Openings' \subseteq Openings \cup new
  <2>1. \A m \in gone : m.kind # "opened"
    OBVIOUS
  <2> QED BY <1>1, <2>1 DEF Openings
<1> HIDE DEF new, gone
<1>4. ForeignInv' /\ ReopenedInv'
  BY <1>1 DEF DisownedInv, ForeignInv, ReopenedInv, StillOpen
<1>5. \A c \in opening : held[c].alert # 0 => held[c].alert \in OpenAlertsOf(c)
  BY DEF EpisodeInv, HeldAlertsOpen, OpenAlertsOf, MailInv, PhaseInv
<1>6. ASSUME NEW m \in Openings', m.alert # 0
      PROVE  m.alert \in DOMAIN alerts /\ (alerts[m.alert].told => m.alert \in disowned)
  <2>1. CASE m \in Openings
    BY <1>6, <2>1 DEF DisownedInv, WaitingInv
  <2>2. ASSUME NEW c \in opening, m.alert = held[c].alert
        PROVE  m.alert \in DOMAIN alerts /\ (alerts[m.alert].told => m.alert \in disowned)
    BY <1>5, <1>6, <2>2 DEF DisownedInv, ReopenedInv, OpenAlertsOf
  <2> QED BY <1>2, <1>3, <2>1, <2>2
<1>7. ASSUME NEW m \in new, NEW n \in Openings, m.alert = n.alert, m.alert # 0
      PROVE  m.alert \in disowned
  <2>1. PICK c \in opening : m.alert = held[c].alert
    BY <1>2
  <2> QED BY <1>5, <1>7, <2>1 DEF DisownedInv, ReopenedInv
<1>8. ASSUME NEW m \in new, NEW n \in new, m.alert = n.alert, m.alert # 0
      PROVE  m = n
  <2>1. PICK c \in opening :
          m = [kind |-> "opened", cond |-> c, since |-> held[c].since, alert |-> held[c].alert, tries |-> 0]
    BY <1>2
  <2>2. PICK d \in opening :
          n = [kind |-> "opened", cond |-> d, since |-> held[d].since, alert |-> held[d].alert, tries |-> 0]
    BY <1>2
  <2>3. m.alert = held[c].alert /\ n.alert = held[d].alert
    BY <2>1, <2>2
  <2>4. held[c].alert \in OpenAlertsOf(c) /\ held[c].alert \in OpenAlertsOf(d)
    BY <1>5, <1>8, <2>3
  <2>5. c = d
    BY <2>4 DEF OpenAlertsOf
  <2> QED BY <2>1, <2>2, <2>5
<1>9. ASSUME NEW m \in Openings', NEW n \in Openings', m.alert = n.alert, m.alert # 0, m # n
      PROVE  m.alert \in disowned
  <2>1. (m \in Openings \/ m \in new) /\ (n \in Openings \/ n \in new)
    BY <1>3
  <2>2. CASE m \in Openings /\ n \in Openings
    BY <1>9, <2>2 DEF DisownedInv, WaitingInv
  <2>3. CASE m \in new /\ n \in Openings
    BY <1>7, <1>9, <2>3
  <2>4. CASE n \in new /\ m \in Openings
    BY <1>7, <1>9, <2>4
  <2>5. CASE m \in new /\ n \in new
    BY <1>8, <1>9, <2>5
  <2> QED BY <2>1, <2>2, <2>3, <2>4, <2>5
<1>10. WaitingInv'
  BY <1>1, <1>6, <1>9 DEF WaitingInv
<1> QED BY <1>4, <1>10 DEF DisownedInv

\* The outcome of an e-mail marks its own alert, and only when it is settled.
LEMMA DisownedGoes ==
    ASSUME LedgerInv, MailInv, DisownedInv, NEW m \in queue, SkipMail(m) \/ SendMail(m) \/ SendFails(m)
    PROVE  DisownedInv'
<1>1. /\ wdAt = "mail" /\ opening = {} /\ UNCHANGED <<wdAt, held, opening, disowned>> /\ queue' = queue \ {m}
  BY DEF SkipMail, SendMail, SendFails, Settled, wdMind, MailInv, PhaseInv
<1>2. MailStep(m)
  BY MailSteps
<1>3. TableKept
  BY <1>2 DEF MailStep
<1>4. \/ alerts' = alerts /\ pending' \in {pending, pending \cup {Again(m)}}
      \/ pending' = pending /\ m.kind = "opened" /\ m.alert # 0
         /\ alerts' = [alerts EXCEPT ![m.alert].told = TRUE]
  BY DEF SkipMail, SendMail, SendFails, Settled, Logged, Again
<1>5. \A i \in DOMAIN alerts : i # m.alert => alerts'[i].told = alerts[i].told
  BY <1>4
<1>6. ForeignInv' /\ ReopenedInv'
  BY <1>1, <1>3 DEF DisownedInv, ForeignInv, ReopenedInv, StillOpen, TableKept
<1>7. m.kind = "opened" => m \in Openings
  BY DEF Openings
<1>8. ASSUME NEW n \in Openings'
      PROVE  \/ n \in Openings /\ n # m
             \/ n = Again(m) /\ n.alert = m.alert /\ m \in Openings /\ alerts' = alerts
  <2>1. n.kind = "opened" /\ n \in pending' \cup queue'
    BY <1>8 DEF Openings
  <2>2. CASE n \in pending \cup (queue \ {m})
    BY <1>7, <2>1, <2>2 DEF Openings, MailInv, OnceInv
  <2>3. CASE n = Again(m) /\ alerts' = alerts
    <3>1. m \in Event
      BY DEF MailInv, PhaseInv
    <3>2. Again(m).kind = m.kind /\ Again(m).alert = m.alert
      BY <3>1 DEF Again, Event
    <3> QED BY <1>7, <2>1, <2>3, <3>2
  <2> QED BY <1>1, <1>4, <2>1, <2>2, <2>3
<1>9. ASSUME NEW n \in Openings', n.alert # 0
      PROVE  n.alert \in DOMAIN alerts' /\ (alerts'[n.alert].told => n.alert \in disowned)
  <2>1. CASE n = Again(m) /\ n.alert = m.alert /\ m \in Openings /\ alerts' = alerts
    BY <1>9, <2>1 DEF DisownedInv, WaitingInv
  <2>2. CASE n \in Openings /\ n # m
    <3>1. n.alert \in DOMAIN alerts /\ (alerts[n.alert].told => n.alert \in disowned)
      BY <1>9, <2>2 DEF DisownedInv, WaitingInv
    <3>2. CASE n.alert # m.alert
      BY <1>3, <1>5, <3>1, <3>2 DEF TableKept
    <3>3. CASE n.alert = m.alert /\ m \in Openings
      BY <1>3, <1>9, <2>2, <3>1, <3>3 DEF TableKept, DisownedInv, WaitingInv
    <3>4. CASE n.alert = m.alert /\ m \notin Openings
      BY <1>4, <1>7, <3>1, <3>4
    <3> QED BY <3>2, <3>3, <3>4
  <2> QED BY <1>8, <2>1, <2>2
<1>10. ASSUME NEW n \in Openings', NEW o \in Openings', n.alert = o.alert, n.alert # 0, n # o
       PROVE  n.alert \in disowned
  <2>1. CASE n \in Openings /\ o \in Openings
    BY <1>10, <2>1 DEF DisownedInv, WaitingInv
  <2>2. CASE n = Again(m) /\ n.alert = m.alert /\ m \in Openings /\ o \in Openings /\ o # m
    BY <1>10, <2>2 DEF DisownedInv, WaitingInv
  <2>3. CASE o = Again(m) /\ o.alert = m.alert /\ m \in Openings /\ n \in Openings /\ n # m
    BY <1>10, <2>3 DEF DisownedInv, WaitingInv
  <2> QED BY <1>8, <1>10, <2>1, <2>2, <2>3
<1>11. WaitingInv'
  BY <1>1, <1>9, <1>10 DEF WaitingInv
<1> QED BY <1>6, <1>11 DEF DisownedInv

\* A watchdog that dies, the end of a poll, and a step of nobody.
LEMMA DisownedRests ==
    ASSUME DisownedInv, WdCrash \/ PollEnds \/ UNCHANGED WatchdogVars
    PROVE  DisownedInv'
<1>1. CASE WdCrash
  <2>1. wdAt' = "down" /\ opening' = {} /\ Openings' = {}
    BY <1>1 DEF WdCrash, Openings
  <2> QED BY <2>1 DEF DisownedInv, ForeignInv, ReopenedInv, WaitingInv
<1>2. CASE PollEnds \/ UNCHANGED WatchdogVars
  <2>1. /\ UNCHANGED <<held, opening, pending, queue, alerts, disowned>>
        /\ UNCHANGED wdAt \/ wdAt = "mail"
    BY <1>2 DEF PollEnds, WatchdogVars, wdMind, wdMail
  <2>2. Openings' = Openings
    BY <2>1 DEF Openings
  <2> QED BY <2>1, <2>2 DEF DisownedInv, ForeignInv, ReopenedInv, WaitingInv, StillOpen, OpenAlertsOf
<1> QED BY <1>1, <1>2

\* Every step keeps what may be e-mailed again to the disowned alerts.
LEMMA DisownedStays ==
    LedgerInv /\ EpisodeInv /\ MailInv /\ DisownedInv /\ [WatchdogNext]_WatchdogVars => DisownedInv'
<1> SUFFICES ASSUME LedgerInv, EpisodeInv, MailInv, DisownedInv, [WatchdogNext]_WatchdogVars
             PROVE  DisownedInv'
  OBVIOUS
<1>1. CASE \/ \E c \in Conditions : OpenAlert(c)
           \/ \E i \in DOMAIN alerts : CloseAlert(i)
           \/ \E u \in unrecorded : RecordClosed(u)
           \/ AllOpen \/ AllClosed \/ AllRecorded \/ SyncFails \/ AnswerLost
  BY <1>1, SyncSteps, DisownedSync, LedgerStep
<1>2. CASE WdStart \/ WdStartHalf \/ WdStartBlind
  BY <1>2, DisownedBegin
<1>3. CASE \E p \in WdProbes : Poll(p)
  BY <1>3, DisownedPoll
<1>4. CASE \E m \in queue : SkipMail(m) \/ SendMail(m) \/ SendFails(m)
  BY <1>4, DisownedGoes
<1> QED BY <1>1, <1>2, <1>3, <1>4, DisownedEnqueue, DisownedRests DEF WatchdogNext

\* An opening whose e-mail was settled and recorded is not e-mailed again, and no
\* alert it was recorded with, by a retry or by a watchdog that was started again
\* (src/watchdog/index.js, init), but for the alerts the process has disowned.
THEOREM NoneIsSentTwice == WatchdogSpec => NotTwice
<1>1. WatchdogInit => DisownedInv
  BY DEF WatchdogInit, DisownedInv, ForeignInv, ReopenedInv, WaitingInv, Openings
<1>2. MailInv /\ DisownedInv /\ [WatchdogNext]_WatchdogVars
      => [\A m \in queue : SendMail(m) /\ m.kind = "opened" =>
             /\ OpeningOf(m) \notin reported
             /\ m.alert # 0 /\ alerts[m.alert].told => m.alert \in disowned]_WatchdogVars
  BY DEF MailInv, OnceInv, Openings, DisownedInv, WaitingInv
<1> QED BY <1>1, <1>2, LedgerInvInit, EpisodeInit, MailInit, LedgerStep, EpisodeStep, MailStays, DisownedStays, PTL
        DEF WatchdogSpec, NotTwice

---------------------------------------------------------------------------
(* Types.                                                                  *)

\* What the invariants above leave out of the types.
RestTypes ==
    /\ probe \in Probe /\ wdAt \in {"down", "idle", "open", "close", "late", "enqueue", "mail"}
    /\ sentAt \subseteq [at : Nat, kind : {"opened", "cleared"}, cond : Conditions]
    /\ smtp \in BOOLEAN /\ wdLeft \in 0 .. WdMaxFaults
    /\ started \in {"full", "half", "blind"} /\ disowned \subseteq Nat
    /\ decided \subseteq [cond : Conditions, since : Nat] /\ reported \subseteq decided

LEMMA RestStep ==
    ASSUME LedgerInv, MailInv, RestTypes, [WatchdogNext]_WatchdogVars
    PROVE  RestTypes'
<1> USE DEF RestTypes
<1>l. ASSUME NEW f, WdSpend(f) PROVE wdLeft' \in 0 .. WdMaxFaults
  BY <1>l, WdAssumption DEF WdSpend
<1>o. StillOpen \subseteq Nat
  BY SequenceFacts DEF LedgerInv, AlertTypes, StillOpen
<1>1. CASE WdStart \/ WdStartHalf \/ WdStartBlind
  BY <1>1, <1>l, <1>o DEF WdStart, WdStartHalf, WdStartBlind, WdBegins
<1>2. ASSUME NEW p \in WdProbes, Poll(p) PROVE RestTypes'
  BY <1>2, <1>o, WdAssumption DEF Poll, wdMail
<1>3. CASE \/ \E c \in Conditions : OpenAlert(c)
           \/ \E i \in DOMAIN alerts : CloseAlert(i)
           \/ \E u \in unrecorded : RecordClosed(u)
           \/ AllOpen \/ AllClosed \/ AllRecorded
  BY <1>3 DEF OpenAlert, CloseAlert, RecordClosed, AllOpen, AllClosed, AllRecorded, syncOnly, wdMail
<1>4. CASE SyncFails \/ AnswerLost
  BY <1>4, <1>l DEF SyncFails, AnswerLost, syncOnly, wdMail
<1>5. CASE Enqueue \/ PollEnds
  BY <1>5 DEF Enqueue, PollEnds, wdMail
<1>6. ASSUME NEW m \in queue, SkipMail(m) \/ SendMail(m) \/ SendFails(m) PROVE RestTypes'
  <2>1. m \in Event BY <1>6 DEF MailInv, PhaseInv
  <2>2. OpeningOf(m) \in [cond : Conditions, since : Nat] BY <2>1 DEF OpeningOf, Event
  <2>3. [at |-> clock, kind |-> m.kind, cond |-> m.cond] \in [at : Nat, kind : {"opened", "cleared"}, cond : Conditions]
    BY <2>1, WdAssumption DEF Event, LedgerInv, PollTypes, Polls
  <2>4. ASSUME Settled(m) PROVE /\ UNCHANGED <<probe, wdAt, smtp, started, disowned>>
                                /\ wdLeft' \in 0 .. WdMaxFaults /\ decided' \subseteq [cond : Conditions, since : Nat] /\ reported' \subseteq decided'
    <3>1. decided' = IF m.kind = "opened" THEN decided \cup {OpeningOf(m)} ELSE decided BY <2>4 DEF Settled
    <3>2. reported' = reported \/ (m.kind = "opened" /\ reported' = reported \cup {OpeningOf(m)})
      BY <2>4 DEF Settled, Logged
    <3>3. UNCHANGED <<probe, wdAt, smtp, started, disowned>> /\ wdLeft' \in 0 .. WdMaxFaults
      BY <2>4, <1>l DEF Settled
    <3> QED BY <3>1, <3>2, <3>3, <2>2
  <2>5. CASE SkipMail(m) BY <2>4, <2>5 DEF SkipMail
  <2>6. CASE SendMail(m) BY <2>3, <2>4, <2>6 DEF SendMail
  <2>7. CASE SendFails(m)
    <3>1. decided' \in {decided, decided \cup {OpeningOf(m)}} BY <2>7 DEF SendFails
    <3> QED BY <2>7, <3>1, <2>2, <1>l DEF SendFails
  <2> QED BY <1>6, <2>5, <2>6, <2>7
<1>7. CASE WdCrash BY <1>7, <1>l DEF WdCrash
<1>8. CASE UNCHANGED WatchdogVars BY <1>8 DEF WatchdogVars, wdMail
<1> QED BY <1>1, <1>2, <1>3, <1>4, <1>5, <1>6, <1>7, <1>8 DEF WatchdogNext

\* The watchdog and the alerts it writes keep their types.
THEOREM WatchdogTyped == WatchdogSpec => []WatchdogTypeOK
<1>1. WatchdogInit => RestTypes
  BY WdAssumption DEF WatchdogInit, RestTypes, Probe, NoProbe
<1>2. LedgerInv /\ EpisodeInv /\ MailInv /\ RestTypes => WatchdogTypeOK
  <2> SUFFICES ASSUME LedgerInv, EpisodeInv, MailInv, RestTypes PROVE WatchdogTypeOK
    OBVIOUS
  <2>1. Polls \subseteq Nat /\ AlertRow \subseteq Alert BY WdAssumption DEF Polls, AlertRow, Alert
  <2>2. alerts \in Seq(Alert) BY <2>1 DEF LedgerInv, AlertTypes
  <2>3. unrecorded \subseteq [cond : Conditions, since : Nat, cleared : Nat]
        /\ seen \subseteq [cond : Conditions, since : Nat]
    <3>1. 1 .. WdPolls \subseteq Nat BY WdAssumption
    <3>2. [cond : Conditions, since : Polls, cleared : 1 .. WdPolls] \subseteq [cond : Conditions, since : Nat, cleared : Nat]
          /\ [cond : Conditions, since : Polls] \subseteq [cond : Conditions, since : Nat]
      BY <2>1, <3>1
    <3> QED BY <3>2 DEF LedgerInv, UnrecordedTypes, EpisodeInv, SeenTypes
  <2>4. \A c \in DOMAIN held : held[c] \in [since : Nat, alert : Nat] BY <2>1 DEF LedgerInv, HeldTypes
  <2> QED BY <2>2, <2>3, <2>4 DEF LedgerInv, HeldTypes, PollTypes, Polls, MailInv, PhaseInv, RestTypes, WatchdogTypeOK
<1> QED BY <1>1, <1>2, RestStep, LedgerInvInit, EpisodeInit, MailInit, LedgerStep, EpisodeStep, MailStays, PTL DEF WatchdogSpec
=============================================================================
