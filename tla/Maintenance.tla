---------------------------- MODULE Maintenance ----------------------------
(***************************************************************************)
(* The daily maintenance job: four steps in order, each on its own, and a  *)
(* record of how they went; the rollup of source_runs in batches; and the  *)
(* fairness checks over the rolling window.                                *)
(*                                                                         *)
(*   src/src/workers/maintenance.worker.js                                 *)
(*   src/src/collectors/run-retention.js, src/src/pipeline/bias-window.js  *)
(*                                                                         *)
(* Two jobs run at once in two worker processes, or when a stalled job is  *)
(* handed out again. An action is one statement, or what one transaction   *)
(* does between two waits for a lock. A row of source_runs is kept as its  *)
(* day and source and the count it dropped, which older rows never had.    *)
(***************************************************************************)
EXTENDS FiniteSetsExt, Integers, Sequences

CONSTANTS
    MtJobs,             \* daily jobs of the queue `maintenance`
    MtRows,             \* rows of source_runs
    MtDayOf,            \* row |-> its day and source
    MtDropped,          \* row |-> what it dropped, or NotRecorded
    MtBatch,            \* rows of a batch
    MtChecks,           \* the fairness checks, a sequence
    MtYoung,            \* bound: rows that get past the window while the jobs run
    MtMaxFaults         \* bound: failed statements and crashes

NotRecorded == -1

ASSUME MaintenanceAssumption ==
    /\ IsFiniteSet(MtRows) /\ MtBatch \in Nat \ {0} /\ MtYoung \in Nat /\ MtMaxFaults \in Nat
    /\ \A r \in MtRows : MtDropped[r] \in Nat \cup {NotRecorded}

VARIABLES
    raw, old,           \* source_runs: its rows, and those past the raw window
    daily,              \* source_run_daily: [runs, dropped]
    step,               \* job |-> where it is
    failures,           \* job |-> the steps that failed
    rollup,             \* job |-> its rollup transaction: rows locked, days written
    missed,             \* job |-> what its last batch could have taken and did not
    window,             \* job |-> its row of bias_window_runs, and what belongs to it
    maintenanceState,   \* maintenance_state: the last run; what the last successful run had done
    mtFaults

rollupVars == <<raw, old, daily, rollup, missed>>
MaintenanceVars == <<rollupVars, step, failures, window, maintenanceState, mtFaults>>

DailySteps == <<"compaction", "source_runs", "admission_rule_hits", "bias_window">>
StepNames == {DailySteps[i] : i \in 1 .. Len(DailySteps)}
MtDays == {MtDayOf[r] : r \in MtRows}

NoRollup == [open |-> FALSE, picked |-> {}, written |-> {}]
NoWindow == [status |-> "none", assessed |-> <<>>, alerted |-> {}]

\* The rows that have a dropped count, and the items they dropped.
Counted(rows) == {r \in rows : MtDropped[r] # NotRecorded}
DroppedItems(rows) == UNION {{r} \X (1 .. MtDropped[r]) : r \in Counted(rows)}

\* SUM of the dropped counts, which knows no rows without a count.
DroppedBy(rows) == IF Counted(rows) = {} THEN NotRecorded ELSE Cardinality(DroppedItems(rows))

\* The type invariant of the daily job.
MaintenanceTypeOK ==
    /\ raw \subseteq MtRows /\ old \subseteq MtRows
    /\ \A d \in MtDays : daily[d].runs \in 0 .. Cardinality(MtRows) /\ daily[d].dropped \in Nat \cup {NotRecorded}
    /\ step \in [MtJobs -> StepNames \cup {"queued", "record", "recorded", "completed", "failed"}]
    /\ failures \in [MtJobs -> SUBSET StepNames]
    /\ rollup \in [MtJobs -> [open : BOOLEAN, picked : SUBSET MtRows, written : SUBSET MtDays]]
    /\ missed \in [MtJobs -> SUBSET MtRows]
    /\ \A j \in MtJobs : window[j].status \in {"none", "running", "completed", "failed"}
    /\ maintenanceState.last \in {"never", "ok", "failed"}
    /\ \A r \in maintenanceState.lastOk : r.missed \subseteq MtRows
    /\ mtFaults \in 0 .. MtMaxFaults

MaintenanceInit ==
    /\ raw = MtRows /\ old \in {o \in SUBSET MtRows : Cardinality(MtRows \ o) <= MtYoung}
    /\ daily = [d \in MtDays |-> [runs |-> 0, dropped |-> NotRecorded]]
    /\ step = [j \in MtJobs |-> "queued"] /\ failures = [j \in MtJobs |-> {}]
    /\ rollup = [j \in MtJobs |-> NoRollup] /\ missed = [j \in MtJobs |-> {}]
    /\ window = [j \in MtJobs |-> NoWindow]
    /\ maintenanceState = [last |-> "never", lastOk |-> {}] /\ mtFaults = 0

MtSpend == mtFaults < MtMaxFaults /\ mtFaults' = mtFaults + 1

---------------------------------------------------------------------------
(* processMaintenanceJob.                                                  *)

After(s) ==
    IF s = "bias_window" THEN "record"
    ELSE DailySteps[1 + CHOOSE i \in 1 .. Len(DailySteps) : DailySteps[i] = s]

Begin(j) ==
    /\ step[j] = "queued" /\ step' = [step EXCEPT ![j] = DailySteps[1]]
    /\ failures' = [failures EXCEPT ![j] = {}]
    /\ window' = [window EXCEPT ![j] = NoWindow]
    /\ UNCHANGED <<rollupVars, maintenanceState, mtFaults>>

StepEnds(j) == step' = [step EXCEPT ![j] = After(step[j])]

\* Compaction and the expiry of the rule counts.
OtherStep(j) ==
    /\ step[j] \in {"compaction", "admission_rule_hits"} /\ StepEnds(j)
    /\ UNCHANGED <<rollupVars, failures, window, maintenanceState, mtFaults>>

\* A step that throws is written down and the next one runs. The transaction
\* of a rollup is rolled back; a window run is marked failed, if that works.
StepFails(j) ==
    /\ step[j] \in StepNames /\ MtSpend
    /\ failures' = [failures EXCEPT ![j] = @ \cup {step[j]}] /\ StepEnds(j)
    /\ rollup' = [rollup EXCEPT ![j] = NoRollup] /\ missed' = [missed EXCEPT ![j] = {}]
    /\ \E s \in {"failed", window[j].status} :
         window' = IF window[j].status = "running" THEN [window EXCEPT ![j].status = s] ELSE window
    /\ UNCHANGED <<raw, old, daily, maintenanceState>>

\* What a run had left behind, and its window.
Report(j) == [missed |-> missed[j], window |-> window[j]]

\* recordMaintenanceRun.
RecordRun(j) ==
    /\ step[j] = "record" /\ step' = [step EXCEPT ![j] = "recorded"]
    /\ maintenanceState' = IF failures[j] = {} THEN [last |-> "ok", lastOk |-> {Report(j)}]
                           ELSE [maintenanceState EXCEPT !.last = "failed"]
    /\ UNCHANGED <<rollupVars, failures, window, mtFaults>>

\* The job ends: any failed step fails it.
JobDone(j) ==
    /\ step[j] = "recorded"
    /\ step' = [step EXCEPT ![j] = IF failures[j] = {} THEN "completed" ELSE "failed"]
    /\ UNCHANGED <<rollupVars, failures, window, maintenanceState, mtFaults>>

\* The record is not guarded: when it throws, the job fails unrecorded.
RecordFails(j) ==
    /\ step[j] = "record" /\ MtSpend /\ step' = [step EXCEPT ![j] = "failed"]
    /\ UNCHANGED <<rollupVars, failures, window, maintenanceState>>

\* The process dies; its open transaction is rolled back and its window run
\* stays `running`. The stalled job is handed out again, or given up.
MtCrash(j) ==
    /\ step[j] \notin {"queued", "completed", "failed"} /\ MtSpend
    /\ \E s \in {"queued", "failed"} : step' = [step EXCEPT ![j] = s]
    /\ rollup' = [rollup EXCEPT ![j] = NoRollup] /\ missed' = [missed EXCEPT ![j] = {}]
    /\ UNCHANGED <<raw, old, daily, failures, window, maintenanceState>>

---------------------------------------------------------------------------
(* rollupSourceRuns.                                                       *)

LockedByOthers(j) == UNION {rollup[k].picked : k \in MtJobs \ {j}}

\* Mutant: a batch is picked without locks.
PickableUnlocked(j) == raw \cap old

\* FOR UPDATE SKIP LOCKED.
Pickable(j) == (raw \cap old) \ LockedByOthers(j)

\* A batch of rows that no other transaction holds. When there is none, the
\* step is over.
PickRows(j) ==
    /\ step[j] = "source_runs" /\ ~rollup[j].open
    /\ \E p \in SUBSET Pickable(j) :
         /\ Cardinality(p) = Min({Cardinality(Pickable(j)), MtBatch})
         /\ missed' = [missed EXCEPT ![j] = Pickable(j) \ p]
         /\ IF p = {} THEN StepEnds(j) /\ UNCHANGED rollup
            ELSE rollup' = [rollup EXCEPT ![j] = [open |-> TRUE, picked |-> p, written |-> {}]] /\ UNCHANGED step
    /\ UNCHANGED <<raw, old, daily, failures, window, maintenanceState, mtFaults>>

DaysOf(rows) == {MtDayOf[r] : r \in rows}

\* The rows of a day are added to its row, which waits for a transaction that
\* wrote it and locks it until the end.
WriteDay(j) ==
    /\ \E d \in DaysOf(rollup[j].picked) \ rollup[j].written :
         /\ \A k \in MtJobs \ {j} : d \notin rollup[k].written
         /\ rollup' = [rollup EXCEPT ![j].written = @ \cup {d}]
    /\ UNCHANGED <<raw, old, daily, missed, step, failures, window, maintenanceState, mtFaults>>

\* ON CONFLICT: counts are added, and a day stays without a dropped count
\* only when neither side has one.
AddedTo(row, rows) ==
    LET counted == {row.dropped, DroppedBy(rows)} \ {NotRecorded}
        orZero(n) == IF n = NotRecorded THEN 0 ELSE n
    IN  [runs |-> row.runs + Cardinality(rows),
         dropped |-> IF counted = {} THEN NotRecorded ELSE orZero(row.dropped) + orZero(DroppedBy(rows))]

\* The rows are deleted and the transaction commits; a short batch is the last.
CommitRollup(j) ==
    LET picked == rollup[j].picked
    IN  /\ rollup[j].open /\ rollup[j].written = DaysOf(picked)
        /\ daily' = [d \in MtDays |-> IF d \in rollup[j].written
                                      THEN AddedTo(daily[d], {r \in picked : MtDayOf[r] = d}) ELSE daily[d]]
        /\ raw' = raw \ picked
        /\ rollup' = [rollup EXCEPT ![j] = NoRollup]
        /\ IF Cardinality(picked) < MtBatch THEN StepEnds(j) ELSE UNCHANGED step
        /\ UNCHANGED <<old, missed, failures, window, maintenanceState, mtFaults>>

\* Two transactions that wait for each other's days: one of them is aborted.
DaysDeadlock(j) ==
    /\ \E k \in MtJobs \ {j} :
         /\ rollup[j].open /\ rollup[k].open
         /\ DaysOf(rollup[j].picked) \ rollup[j].written # {} /\ DaysOf(rollup[k].picked) \ rollup[k].written # {}
         /\ DaysOf(rollup[j].picked) \ rollup[j].written \subseteq rollup[k].written
         /\ DaysOf(rollup[k].picked) \ rollup[k].written \subseteq rollup[j].written
    /\ failures' = [failures EXCEPT ![j] = @ \cup {"source_runs"}] /\ StepEnds(j)
    /\ rollup' = [rollup EXCEPT ![j] = NoRollup] /\ missed' = [missed EXCEPT ![j] = {}]
    /\ UNCHANGED <<raw, old, daily, window, maintenanceState, mtFaults>>

\* Thirty days go by.
RowAges ==
    /\ \E r \in raw \ old : old' = old \cup {r}
    /\ UNCHANGED <<raw, daily, rollup, missed, step, failures, window, maintenanceState, mtFaults>>

---------------------------------------------------------------------------
(* runBiasWindow.                                                          *)

OpenWindow(j) ==
    /\ step[j] = "bias_window" /\ window[j].status = "none"
    /\ window' = [window EXCEPT ![j] = [NoWindow EXCEPT !.status = "running"]]
    /\ UNCHANGED <<rollupVars, step, failures, maintenanceState, mtFaults>>

Checked(w) == Len(w.assessed)
Violations(w) == {i \in 1 .. Checked(w) : w.assessed[i]}

\* A check's assessment; the alert of a violation is a statement of its own.
Assess(j) ==
    /\ step[j] = "bias_window" /\ window[j].status = "running" /\ Checked(window[j]) < Len(MtChecks)
    /\ Violations(window[j]) = window[j].alerted
    /\ \E v \in BOOLEAN : window' = [window EXCEPT ![j].assessed = Append(@, v)]
    /\ UNCHANGED <<rollupVars, step, failures, maintenanceState, mtFaults>>

RaiseAlert(j) ==
    /\ step[j] = "bias_window" /\ window[j].status = "running"
    /\ \E i \in Violations(window[j]) \ window[j].alerted :
         window' = [window EXCEPT ![j].alerted = @ \cup {i}]
    /\ UNCHANGED <<rollupVars, step, failures, maintenanceState, mtFaults>>

CompleteWindow(j) ==
    /\ step[j] = "bias_window" /\ window[j].status = "running" /\ Checked(window[j]) = Len(MtChecks)
    /\ Violations(window[j]) = window[j].alerted
    /\ window' = [window EXCEPT ![j].status = "completed"] /\ StepEnds(j)
    /\ UNCHANGED <<rollupVars, failures, maintenanceState, mtFaults>>

MaintenanceNext ==
    \/ \E j \in MtJobs :
         \/ Begin(j) \/ OtherStep(j) \/ StepFails(j) \/ RecordRun(j) \/ RecordFails(j) \/ JobDone(j) \/ MtCrash(j)
         \/ PickRows(j) \/ WriteDay(j) \/ CommitRollup(j) \/ DaysDeadlock(j)
         \/ OpenWindow(j) \/ Assess(j) \/ RaiseAlert(j) \/ CompleteWindow(j)
    \/ RowAges

MaintenanceSpec == MaintenanceInit /\ [][MaintenanceNext]_MaintenanceVars

---------------------------------------------------------------------------
(* Properties.                                                             *)

\* However two rollups, their locks, deadlocks and crashes cross, every row of
\* source_runs is either there or counted once in its day, and a day has a
\* dropped count exactly when one of its rows had (rollupSourceRuns).
RunsConserved ==
    \A d \in MtDays :
        LET gone == {r \in MtRows \ raw : MtDayOf[r] = d}
        IN  daily[d] = [runs |-> Cardinality(gone), dropped |-> DroppedBy(gone)]

\* A rollup that did not fail left behind only rows another job had locked, and
\* a job that completed has a completed window whose violations were alerted.
OkIsEarned ==
    \A j \in MtJobs :
        /\ step[j] \in {"admission_rule_hits", "bias_window", "record", "recorded", "completed"} /\ "source_runs" \notin failures[j]
              => missed[j] \cap raw = {}
        /\ step[j] = "completed" => window[j].status = "completed" /\ window[j].alerted = Violations(window[j])

\* What the health endpoint says of the daily task is true: the operational
\* record of the runs is conserved, and a success is recorded only of a run
\* whose rollup and window did their work, also if its process died before the
\* queue knew and the job is run again (processMaintenanceJob).
MaintenanceKept ==
    /\ RunsConserved /\ OkIsEarned
    /\ \A r \in maintenanceState.lastOk :
         r.missed \cap raw = {} /\ r.window.status = "completed" /\ r.window.alerted = Violations(r.window)
=============================================================================
