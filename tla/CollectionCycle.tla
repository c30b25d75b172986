--------------------------- MODULE CollectionCycle --------------------------
(***************************************************************************)
(* Collection jobs of pulse-of-ai: who may add posts to a processing_jobs  *)
(* row, and when its job-level bias checks run.                            *)
(*                                                                         *)
(*   src/collectors/runner.js      collection runs (cycle, refresh, manual)*)
(*   src/collectors/cycle.js       shared cron cycles, reserved slots,     *)
(*                                 the closer                              *)
(*   src/workers/ingest.worker.js  scoring of stored posts                 *)
(*   src/collectors/sweep.js       the unscored-post sweep                 *)
(*   src/collectors/stale-jobs.js  the stale-job sweeper                   *)
(*   src/routes/refresh.js         POST /api/refresh                       *)
(*   src/workers/collect.worker.js, src/workers/start.js                   *)
(*                                                                         *)
(* Every database statement or transaction, and every queue call, is one   *)
(* step; anything else may happen between two of them.                     *)
(***************************************************************************)
EXTENDS Naturals, FiniteSets

CONSTANTS
    CycleRuns,      \* collect.{rss,api,bulk} workers: one source, in a cron cycle
    RefreshRuns,    \* collect.refresh workers: every source, job row from the route
    ManualRuns,     \* `npm run collect` processes: scoring inline, own job row
    Posts, NoPost,  \* what the sources can still deliver
    Closers,        \* worker processes' cycle timers
    Requests,       \* concurrent POST /api/refresh handlers
    MaxJobs,        \* bound: rows of processing_jobs
    MaxAttempts,    \* BullMQ attempts of a scoring job (5 in the code)
    Faults,         \* which kinds of fault may happen
    MaxFaults       \* bound: how many happen in all

Runs == CycleRuns \cup RefreshRuns \cup ManualRuns
OneShotRuns == RefreshRuns \cup ManualRuns
Jobs == 1 .. MaxJobs
NoJob == 0

\* scorePost runs three stages, written alike ('discourse' as 'relevance'); the
\* bias checks and the sweep look at 'sentiment' alone.
Stages == {"sentiment", "relevance"}

FaultKinds == {"score",        \* a scoring attempt fails
               "straggle",     \* ... while its other stage is still writing
               "queue",        \* an enqueue fails
               "embed",        \* the embed enqueue fails
               "throw",        \* a collection run throws
               "bias",         \* runBiasChecks throws
               "removal",      \* retention removes a post's text
               "runCrash", "workerCrash", "closerCrash"}

ASSUME JobsAssumption == MaxJobs \in Nat \ {0}
ASSUME AttemptsAssumption == MaxAttempts \in Nat \ {0}
ASSUME FaultsAssumption == Faults \subseteq FaultKinds /\ MaxFaults \in Nat
ASSUME PostsAssumption == IsFiniteSet(Posts) /\ NoPost \notin Posts
ASSUME RunsAssumption ==
    /\ IsFiniteSet(Runs)
    /\ CycleRuns \cap OneShotRuns = {}
    /\ RefreshRuns \cap ManualRuns = {}

\* Age of a job row against the closer's bounds, in phases: 0 inside the
\* collection window, 1 past it and the grace minute, 2 past the hard cap
\* max(15 min, 4 windows), 3 past twice the cap. (In the grace minute itself a
\* cycle is neither joined nor closed: a row in phase 1 nobody looks at.)
DueAge == 1
CapAge == 2
DeadCloserAge == 3
Ages == 0 .. DeadCloserAge

Statuses == {"none", "running", "awaiting_retries", "closing", "completed", "failed"}
Triggers == {"cron", "api", "manual"}
Open == {"running", "awaiting_retries"}
Terminal == {"completed", "failed"}

VARIABLES
    \* processing_jobs
    rows,       \* rows inserted so far; row ids follow started_at
    status, trigger, inflight,
    age,        \* phase of NOW() - started_at
    quiet,      \* no last_progress_at for the staleness bound
    forced,     \* history: claimed by the hard cap with slots still held
    checked,    \* posts the job's bias checks have read
    checks,     \* how often they ran (counted up to 2)
    \* raw_posts, *_results, decision_audit_log
    stored, removed, results, audit,
    writing,    \* per post: stages found unscored whose transaction is to come
    late,       \* stage writes still under way after their attempt ended
    outlived,   \* history: posts with such a write
    \* processes and queues
    runPc, runJob, runPost,
    refreshQ,               \* queue collect.refresh
    taskPc, taskJob, target, tries,   \* the post's job on queue ingest
    hook,                   \* 'failed' event of a reserved job, not yet handled
    closerPc, claimed,
    reqPc, reqJob, debounce,
    left                    \* how many faults may still happen

jobVars == <<rows, status, trigger, inflight, age, quiet, forced, checked, checks>>
scoreVars == <<writing, late, outlived>>
postVars == <<stored, removed, results, audit, scoreVars>>
runVars == <<runPc, runJob, runPost, refreshQ>>
taskVars == <<taskPc, taskJob, target, tries, hook>>
closerVars == <<closerPc, claimed>>
reqVars == <<reqPc, reqJob, debounce>>
vars == <<jobVars, postVars, runVars, taskVars, closerVars, reqVars, left>>

RunPcs == {"idle", "between", "source", "join", "reserve", "enqueue", "unreserve",
           "score", "ending", "counting", "looking", "checking", "completing", "failing", "leaving"}
TaskPcs == {"none", "queued", "scoreOwn", "release", "releaseRemoved", "releaseClosed",
            "choose", "scoreTarget", "leave", "leaveFailed", "leaveRemoved", "embed"}
CloserPcs == {"idle", "counting", "checking", "completing", "failing"}
ReqPcs == {"idle", "check", "insert", "enqueue", "fail"}

JobsOK ==
    /\ rows \in 0 .. MaxJobs
    /\ status \in [Jobs -> Statuses]
    /\ trigger \in [Jobs -> Triggers]
    /\ inflight \in [Jobs -> Nat]
    /\ age \in [Jobs -> Ages]
    /\ quiet \in [Jobs -> BOOLEAN]
    /\ forced \in [Jobs -> BOOLEAN]
    /\ checked \in [Jobs -> SUBSET Posts]
    /\ checks \in [Jobs -> 0 .. 2]

PostsOK ==
    /\ stored \subseteq Posts
    /\ removed \subseteq Posts
    /\ results \in [Posts -> SUBSET Stages]
    /\ audit \subseteq Posts \X Stages \X Jobs
    /\ writing \in [Posts -> SUBSET Stages]
    /\ late \subseteq Posts \X Stages \X Jobs
    /\ outlived \subseteq Posts

RunsOK ==
    /\ runPc \in [Runs -> RunPcs]
    /\ runJob \in [Runs -> Jobs \cup {NoJob}]
    /\ runPost \in [Runs -> Posts \cup {NoPost}]
    /\ refreshQ \subseteq Jobs

TasksOK ==
    /\ taskPc \in [Posts -> TaskPcs]
    /\ taskJob \in [Posts -> Jobs \cup {NoJob}]
    /\ target \in [Posts -> Jobs \cup {NoJob}]
    /\ tries \in [Posts -> 0 .. MaxAttempts - 1]
    /\ hook \in [Posts -> Jobs \cup {NoJob}]

ClosersOK ==
    /\ closerPc \in [Closers -> CloserPcs]
    /\ claimed \in [Closers -> SUBSET Jobs]

RequestsOK ==
    /\ reqPc \in [Requests -> ReqPcs]
    /\ reqJob \in [Requests -> Jobs \cup {NoJob}]
    /\ debounce \in BOOLEAN

TypeOK ==
    /\ JobsOK /\ PostsOK /\ RunsOK /\ TasksOK /\ ClosersOK /\ RequestsOK
    /\ left \in 0 .. MaxFaults

Init ==
    /\ rows = 0
    /\ status = [j \in Jobs |-> "none"]
    /\ trigger = [j \in Jobs |-> "cron"]
    /\ inflight = [j \in Jobs |-> 0]
    /\ age = [j \in Jobs |-> 0]
    /\ quiet = [j \in Jobs |-> FALSE]
    /\ forced = [j \in Jobs |-> FALSE]
    /\ checked = [j \in Jobs |-> {}]
    /\ checks = [j \in Jobs |-> 0]
    /\ stored = {} /\ removed = {} /\ audit = {} /\ late = {} /\ outlived = {}
    /\ writing = [p \in Posts |-> {}]
    /\ results = [p \in Posts |-> {}]
    /\ runPc = [r \in Runs |-> "idle"]
    /\ runJob = [r \in Runs |-> NoJob]
    /\ runPost = [r \in Runs |-> NoPost]
    /\ refreshQ = {}
    /\ taskPc = [p \in Posts |-> "none"]
    /\ taskJob = [p \in Posts |-> NoJob]
    /\ target = [p \in Posts |-> NoJob]
    /\ tries = [p \in Posts |-> 0]
    /\ hook = [p \in Posts |-> NoJob]
    /\ closerPc = [c \in Closers |-> "idle"]
    /\ claimed = [c \in Closers |-> {}]
    /\ reqPc = [q \in Requests |-> "idle"]
    /\ reqJob = [q \in Requests |-> NoJob]
    /\ debounce = FALSE
    /\ left = MaxFaults

\* A fault of kind k happens.
Spend(k) == k \in Faults /\ left > 0 /\ left' = left - 1

-----------------------------------------------------------------------------
(***************************************************************************)
(* processing_jobs rows (cycle.js)                                         *)
(***************************************************************************)
\* INSERT of a row: status 'running', `n` runs in flight.
InsertJob(t, n) ==
    /\ rows < MaxJobs
    /\ rows' = rows + 1
    /\ status' = [status EXCEPT ![rows + 1] = "running"]
    /\ trigger' = [trigger EXCEPT ![rows + 1] = t]
    /\ inflight' = [inflight EXCEPT ![rows + 1] = n]

\* One-shot rows leave the last row of the bounded table to a cron cycle.
InsertOneShot(t) == rows + 1 < MaxJobs /\ InsertJob(t, 0)

Acquire(j) == inflight' = [inflight EXCEPT ![j] = @ + 1]

\* GREATEST(inflight_runs - 1, 0): releaseRetry, and leaveCycle's decrement.
Release(j) == inflight' = [inflight EXCEPT ![j] = IF @ > 0 THEN @ - 1 ELSE 0]

OpenCycles == {j \in Jobs : trigger[j] = "cron" /\ status[j] = "running" /\ age[j] = 0}

\* Mutant: a run is in the cycle without being counted.
JoinUncounted(j) ==
    IF OpenCycles # {}
    THEN /\ j \in OpenCycles /\ \A k \in OpenCycles : k <= j
         /\ UNCHANGED <<rows, status, trigger, inflight>>
    ELSE j = rows + 1 /\ InsertJob("cron", 1)

\* currentCycleJob: j is the newest cron job still in its window, joined, or a
\* new one. Its statements, and the advisory lock that lets them be one step
\* here, are the subject of CycleJoin.
CurrentCycleJob(j) ==
    IF OpenCycles # {}
    THEN /\ j \in OpenCycles /\ \A k \in OpenCycles : k <= j
         /\ Acquire(j)
         /\ UNCHANGED <<rows, status, trigger>>
    ELSE j = rows + 1 /\ InsertJob("cron", 1)

\* retryJobFor(own): its own job while running (a cron one is joined), else the
\* current cycle.
RetryJobFor(own, j) ==
    IF own # NoJob /\ status[own] = "running"
    THEN /\ j = own
         /\ IF trigger[own] = "cron" THEN Acquire(own) ELSE UNCHANGED inflight
         /\ UNCHANGED <<rows, status, trigger>>
    ELSE CurrentCycleJob(j)

\* Mutant: only a post decided in full under j counts.
AnyFullyProcessed(j) == \E p \in Posts : \A s \in Stages : <<p, s, j>> \in audit

\* jobPostsProcessed > 0: some stage of some post was audited under j.
AnyProcessed(j) == \E row \in audit : row[3] = j

\* The posts the bias checks of j read: those with a sentiment decision under j.
Sample(j) == {p \in Posts : <<p, "sentiment", j>> \in audit}

RunBiasChecks(j) ==
    /\ checked' = [checked EXCEPT ![j] = @ \cup Sample(j)]
    /\ checks' = [checks EXCEPT ![j] = IF @ < 2 THEN @ + 1 ELSE 2]

SetStatus(j, s) == status' = [status EXCEPT ![j] = s]

-----------------------------------------------------------------------------
(***************************************************************************)
(* Scoring (pipeline/ingest.js scorePost): the stages run side by side.    *)
(* Each looks for its result row first; a stage without one then writes an *)
(* audit row under the job and the result, in a transaction of its own.    *)
(***************************************************************************)
Unscored(p) == Stages \ results[p]

\* Mutant: the stage does not look for an existing row.
ReadStageAgain(p, s) ==
    /\ p \notin removed
    /\ s \in Stages \ writing[p]
    /\ writing' = [writing EXCEPT ![p] = @ \cup {s}]

\* The text is there, the result row is not.
ReadStage(p, s) ==
    /\ p \notin removed
    /\ s \in Unscored(p) \ writing[p]
    /\ writing' = [writing EXCEPT ![p] = @ \cup {s}]

\* The transaction does not look again, and no key of the tables keeps it from
\* a second audit row and a second result.
SaveStage(p, s, j) ==
    /\ s \in writing[p]
    /\ writing' = [writing EXCEPT ![p] = @ \ {s}]
    /\ results' = [results EXCEPT ![p] = @ \cup {s}]
    /\ audit' = audit \cup {<<p, s, j>>}

\* The attempt on p under j is over, the writes of L are not.
Outlive(p, j, L) ==
    /\ writing' = [writing EXCEPT ![p] = {}]
    /\ late' = late \cup {<<p, s, j>> : s \in L}
    /\ outlived' = IF L = {} THEN outlived ELSE outlived \cup {p}

\* Promise.all rejects with the first stage that fails; the stages in L are
\* past their look and go on writing.
ScoringFails(p, j, L) ==
    /\ \E f \in Unscored(p) \cup writing[p] : L \subseteq writing[p] \ {f}
    /\ IF L = {} THEN Spend("score") ELSE Spend("straggle")
    /\ Outlive(p, j, L)

\* A stage finds the text removed.
ScoringRefused(p, j) ==
    /\ p \in removed /\ writing[p] # Stages
    /\ IF writing[p] = {} THEN UNCHANGED left ELSE Spend("straggle")
    /\ Outlive(p, j, writing[p])

Attempted(p) == Unscored(p) = {} /\ writing[p] = {}

\* A straggler commits.
LateSave(p, s, j) ==
    /\ <<p, s, j>> \in late
    /\ late' = late \ {<<p, s, j>>}
    /\ results' = [results EXCEPT ![p] = @ \cup {s}]
    /\ audit' = audit \cup {<<p, s, j>>}
    /\ UNCHANGED <<jobVars, stored, removed, writing, outlived, runVars, taskVars, closerVars,
                   reqVars, left>>

\* Text retention removes a post's text; loadScorablePost then refuses it.
RemoveText(p) ==
    /\ p \in stored \ removed
    /\ Spend("removal")
    /\ removed' = removed \cup {p}
    /\ UNCHANGED <<jobVars, stored, results, audit, scoreVars, runVars, taskVars, closerVars, reqVars>>

-----------------------------------------------------------------------------
(***************************************************************************)
(* Collection runs (runner.js runCollection)                               *)
(***************************************************************************)
RunGoes(r, pc) == runPc' = [runPc EXCEPT ![r] = pc]

RunStops(r) ==
    /\ runPc' = [runPc EXCEPT ![r] = "idle"]
    /\ runJob' = [runJob EXCEPT ![r] = NoJob]
    /\ runPost' = [runPost EXCEPT ![r] = NoPost]

\* A source's scheduled run, or a manual collection, starts.
StartRun(r) ==
    /\ r \in CycleRuns \cup ManualRuns
    /\ runPc[r] = "idle"
    /\ stored # Posts
    /\ RunGoes(r, IF r \in CycleRuns THEN "source" ELSE "between")
    /\ UNCHANGED <<jobVars, postVars, runJob, runPost, refreshQ, taskVars, closerVars, reqVars, left>>

\* processRefreshJob: a row no longer 'running' is not re-run.
StartRefresh(r, j) ==
    /\ r \in RefreshRuns
    /\ runPc[r] = "idle"
    /\ j \in refreshQ
    /\ refreshQ' = refreshQ \ {j}
    /\ IF status[j] = "running"
       THEN RunGoes(r, "between") /\ runJob' = [runJob EXCEPT ![r] = j]
       ELSE UNCHANGED <<runPc, runJob>>
    /\ UNCHANGED <<jobVars, postVars, runPost, taskVars, closerVars, reqVars, left>>

\* touch: the heartbeat of a one-shot job, and whether it is still running.
Beat(r) == quiet' = IF runJob[r] \in Jobs /\ r \in OneShotRuns /\ status[runJob[r]] = "running"
                    THEN [quiet EXCEPT ![runJob[r]] = FALSE]
                    ELSE quiet

Swept(r) == r \in OneShotRuns /\ runJob[r] \in Jobs /\ status[runJob[r]] # "running"

\* The next source: none starts once the job was closed as stale.
BeginSource(r) ==
    /\ runPc[r] = "between"
    /\ RunGoes(r, IF Swept(r) THEN "ending" ELSE "source")
    /\ Beat(r)
    /\ UNCHANGED <<rows, status, trigger, inflight, age, forced, checked, checks,
                   postVars, runJob, runPost, refreshQ, taskVars, closerVars, reqVars, left>>

\* A source is done; a cycle run has only the one.
EndSource(r) ==
    /\ runPc[r] = "source"
    /\ \/ RunGoes(r, "ending")
       \/ r \in OneShotRuns /\ RunGoes(r, "between")
    /\ Beat(r)
    /\ UNCHANGED <<rows, status, trigger, inflight, age, forced, checked, checks,
                   postVars, runJob, runPost, refreshQ, taskVars, closerVars, reqVars, left>>

QueuePc(r) == IF r \in ManualRuns THEN "score" ELSE "reserve"

\* storeRawPost of a new post; the run's job is found or made next.
StorePost(r, p) ==
    /\ runPc[r] = "source"
    /\ p \in Posts \ stored
    /\ stored' = stored \cup {p}
    /\ runPost' = [runPost EXCEPT ![r] = p]
    /\ RunGoes(r, IF runJob[r] = NoJob THEN "join" ELSE QueuePc(r))
    /\ UNCHANGED <<jobVars, removed, results, audit, scoreVars, runJob, refreshQ,
                   taskVars, closerVars, reqVars, left>>

\* ensureJob
EnsureJob(r, j) ==
    /\ runPc[r] = "join"
    /\ IF r \in CycleRuns THEN CurrentCycleJob(j)
                          ELSE j = rows + 1 /\ InsertOneShot("manual")
    /\ runJob' = [runJob EXCEPT ![r] = j]
    /\ RunGoes(r, QueuePc(r))
    /\ UNCHANGED <<age, quiet, forced, checked, checks, postVars, runPost, refreshQ,
                   taskVars, closerVars, reqVars, left>>

\* Inline scoring (manual runs): the stages, then the next post.
ReadInline(r, s) ==
    /\ runPc[r] = "score"
    /\ ReadStage(runPost[r], s)
    /\ UNCHANGED <<jobVars, stored, removed, results, audit, late, outlived, runVars, taskVars,
                   closerVars, reqVars, left>>

ScoreInline(r, s) ==
    /\ runPc[r] = "score"
    /\ SaveStage(runPost[r], s, runJob[r])
    /\ UNCHANGED <<jobVars, stored, removed, late, outlived, runVars, taskVars, closerVars, reqVars, left>>

ScoredInline(r) ==
    /\ runPc[r] = "score"
    /\ Attempted(runPost[r])
    /\ RunGoes(r, "source")
    /\ runPost' = [runPost EXCEPT ![r] = NoPost]
    /\ UNCHANGED <<jobVars, postVars, runJob, refreshQ, taskVars, closerVars, reqVars, left>>

\* Inline scoring fails (a fault, or the text is gone): queue a
\* retry.
FailInline(r) ==
    /\ runPc[r] = "score"
    /\ \/ \E L \in SUBSET Stages : ScoringFails(runPost[r], runJob[r], L)
       \/ ~Attempted(runPost[r]) /\ ScoringRefused(runPost[r], runJob[r])
    /\ RunGoes(r, "reserve")
    /\ UNCHANGED <<jobVars, stored, removed, results, audit, runJob, runPost, refreshQ,
                   taskVars, closerVars, reqVars>>

\* Mutant: the scoring job is queued without its slot.
QueueUnreserved(r) ==
    /\ runPc[r] = "reserve"
    /\ RunGoes(r, "enqueue")
    /\ UNCHANGED <<jobVars, postVars, runJob, runPost, refreshQ, taskVars, closerVars, reqVars, left>>

\* reserveRetry: the slot is taken before the scoring job is queued.
ReserveRetry(r) ==
    /\ runPc[r] = "reserve"
    /\ Acquire(runJob[r])
    /\ RunGoes(r, "enqueue")
    /\ UNCHANGED <<rows, status, trigger, age, quiet, forced, checked, checks,
                   postVars, runJob, runPost, refreshQ, taskVars, closerVars, reqVars, left>>

\* enqueueIngest / enqueueIngestRetry: one reserved job score-<id> or retry-<id>.
EnqueueIngest(r) ==
    /\ runPc[r] = "enqueue"
    /\ LET p == runPost[r] IN
       /\ taskPc' = [taskPc EXCEPT ![p] = "queued"]
       /\ taskJob' = [taskJob EXCEPT ![p] = runJob[r]]
       /\ tries' = [tries EXCEPT ![p] = 0]
    /\ RunGoes(r, "source")
    /\ runPost' = [runPost EXCEPT ![r] = NoPost]
    /\ UNCHANGED <<jobVars, postVars, runJob, refreshQ, target, hook, closerVars, reqVars, left>>

EnqueueFails(r) ==
    /\ runPc[r] = "enqueue"
    /\ Spend("queue")
    /\ RunGoes(r, "unreserve")
    /\ UNCHANGED <<jobVars, postVars, runJob, runPost, refreshQ, taskVars, closerVars, reqVars>>

\* Mutant: a failed enqueue keeps its slot.
KeepSlot(r) ==
    /\ runPc[r] = "unreserve"
    /\ RunGoes(r, "source")
    /\ runPost' = [runPost EXCEPT ![r] = NoPost]
    /\ UNCHANGED <<jobVars, postVars, runJob, refreshQ, taskVars, closerVars, reqVars, left>>

\* The slot of a scoring job that could not be queued is given back.
Unreserve(r) ==
    /\ runPc[r] = "unreserve"
    /\ Release(runJob[r])
    /\ RunGoes(r, "source")
    /\ runPost' = [runPost EXCEPT ![r] = NoPost]
    /\ UNCHANGED <<rows, status, trigger, age, quiet, forced, checked, checks,
                   postVars, runJob, refreshQ, taskVars, closerVars, reqVars, left>>

\* Mutant: the last outstanding slot is not waited for.
AwaitsMany(j) == j # NoJob /\ inflight[j] > 1 /\ status[j] = "running"

\* The one-shot job has scoring outstanding when its collection ends.
AwaitsRetries(j) == j # NoJob /\ inflight[j] > 0 /\ status[j] = "running"

\* The collection ended. A one-shot job with slots outstanding is left to the
\* closer; a cycle run leaves its cycle; a manual run that stored nothing has
\* no row.
EndRun(r) ==
    LET j == runJob[r] IN
    /\ runPc[r] = "ending"
    /\ \/ /\ r \in CycleRuns /\ j # NoJob
          /\ RunGoes(r, "leaving")
          /\ UNCHANGED <<status, runJob, runPost>>
       \/ /\ r \in CycleRuns \cup ManualRuns /\ j = NoJob
          /\ RunStops(r)
          /\ UNCHANGED status
       \/ /\ r \in OneShotRuns /\ AwaitsRetries(j)
          /\ SetStatus(j, "awaiting_retries")
          /\ RunStops(r)
       \/ /\ r \in OneShotRuns /\ j # NoJob /\ ~AwaitsRetries(j)
          /\ RunGoes(r, "counting")
          /\ UNCHANGED <<status, runJob, runPost>>
    /\ UNCHANGED <<rows, trigger, inflight, age, quiet, forced, checked, checks,
                   postVars, refreshQ, taskVars, closerVars, reqVars, left>>

\* The runner finalizes a one-shot job itself: checks if posts were scored
\* under it ...
CountPosts(r) ==
    /\ runPc[r] = "counting"
    /\ RunGoes(r, IF AnyProcessed(runJob[r]) THEN "looking" ELSE "completing")
    /\ UNCHANGED <<jobVars, postVars, runJob, runPost, refreshQ, taskVars, closerVars, reqVars, left>>

\* ... and, the next statement, it is still running ...
LookAtJob(r) ==
    /\ runPc[r] = "looking"
    /\ RunGoes(r, IF status[runJob[r]] = "running" THEN "checking" ELSE "completing")
    /\ UNCHANGED <<jobVars, postVars, runJob, runPost, refreshQ, taskVars, closerVars, reqVars, left>>

CheckJob(r) ==
    /\ runPc[r] = "checking"
    /\ RunBiasChecks(runJob[r])
    /\ RunGoes(r, "completing")
    /\ UNCHANGED <<rows, status, trigger, inflight, age, quiet, forced,
                   postVars, runJob, runPost, refreshQ, taskVars, closerVars, reqVars, left>>

\* Mutant: the runner completes the row whatever its status is.
CompleteAnyway(r) ==
    /\ runPc[r] = "completing"
    /\ SetStatus(runJob[r], "completed")
    /\ RunStops(r)
    /\ UNCHANGED <<rows, trigger, inflight, age, quiet, forced, checked, checks,
                   postVars, refreshQ, taskVars, closerVars, reqVars, left>>

\* ... then 'completed', unless the sweeper closed it meanwhile.
CompleteJob(r) ==
    /\ runPc[r] = "completing"
    /\ IF status[runJob[r]] = "running" THEN SetStatus(runJob[r], "completed")
                                        ELSE UNCHANGED status
    /\ RunStops(r)
    /\ UNCHANGED <<rows, trigger, inflight, age, quiet, forced, checked, checks,
                   postVars, refreshQ, taskVars, closerVars, reqVars, left>>

\* Anything the run awaits may throw; the catch and finally blocks run. A
\* throw between the reservation and the enqueue is the 'queue' fault.
RunThrows(r) ==
    /\ runPc[r] \in RunPcs \ {"idle", "enqueue", "unreserve", "score", "failing", "leaving"}
    /\ IF runPc[r] = "checking" THEN Spend("bias") ELSE Spend("throw")
    /\ IF runJob[r] = NoJob
       THEN RunStops(r)
       ELSE /\ RunGoes(r, IF r \in OneShotRuns THEN "failing" ELSE "leaving")
            /\ runPost' = [runPost EXCEPT ![r] = NoPost]
            /\ UNCHANGED runJob
    /\ UNCHANGED <<jobVars, postVars, refreshQ, taskVars, closerVars, reqVars>>

FailJob(r) ==
    /\ runPc[r] = "failing"
    /\ IF status[runJob[r]] = "running" THEN SetStatus(runJob[r], "failed")
                                        ELSE UNCHANGED status
    /\ RunStops(r)
    /\ UNCHANGED <<rows, trigger, inflight, age, quiet, forced, checked, checks,
                   postVars, refreshQ, taskVars, closerVars, reqVars, left>>

\* leaveCycle, in the finally block.
LeaveCycle(r) ==
    /\ runPc[r] = "leaving"
    /\ Release(runJob[r])
    /\ RunStops(r)
    /\ UNCHANGED <<rows, status, trigger, age, quiet, forced, checked, checks,
                   postVars, refreshQ, taskVars, closerVars, reqVars, left>>

\* The process dies. BullMQ hands a stalled refresh job out again; a stalled
\* collect job is a new run.
CrashRun(r) ==
    /\ runPc[r] # "idle"
    /\ Spend("runCrash")
    /\ RunStops(r)
    /\ refreshQ' = IF r \in RefreshRuns THEN refreshQ \cup {runJob[r]} ELSE refreshQ
    /\ IF runPc[r] = "score" THEN Outlive(runPost[r], runJob[r], {}) ELSE UNCHANGED scoreVars
    /\ UNCHANGED <<jobVars, stored, removed, results, audit, taskVars, closerVars, reqVars>>

-----------------------------------------------------------------------------
(***************************************************************************)
(* Scoring jobs of the ingest queue (ingest.worker.js). A post has one at  *)
(* a time: score-/retry-<id>, reserved, then sweep-<id>-<hour> with no job.*)
(***************************************************************************)
TaskGoes(p, pc) == taskPc' = [taskPc EXCEPT ![p] = pc]

\* The job is over: completed, or moved to the failed set.
TaskEnds(p) ==
    /\ TaskGoes(p, "none")
    /\ taskJob' = [taskJob EXCEPT ![p] = NoJob]
    /\ tries' = [tries EXCEPT ![p] = 0]

\* The worker takes the job. A reserved one scores under its own job while
\* that is open.
TakeTask(p) ==
    /\ taskPc[p] = "queued"
    /\ TaskGoes(p, IF taskJob[p] = NoJob THEN "choose"
                   ELSE IF status[taskJob[p]] \in Open THEN "scoreOwn" ELSE "releaseClosed")
    /\ UNCHANGED <<jobVars, postVars, runVars, taskJob, target, tries, hook, closerVars, reqVars, left>>

\* Closed anyway (hard cap, stale sweep): the slot goes, the current cycle
\* takes the post.
ReleaseClosed(p) ==
    /\ taskPc[p] = "releaseClosed"
    /\ Release(taskJob[p])
    /\ TaskGoes(p, "choose")
    /\ UNCHANGED <<rows, status, trigger, age, quiet, forced, checked, checks, postVars, runVars,
                   taskJob, target, tries, hook, closerVars, reqVars, left>>

ChooseCycle(p, j) ==
    /\ taskPc[p] = "choose"
    /\ RetryJobFor(taskJob[p], j)
    /\ target' = [target EXCEPT ![p] = j]
    /\ TaskGoes(p, "scoreTarget")
    /\ UNCHANGED <<age, quiet, forced, checked, checks, postVars, runVars,
                   taskJob, tries, hook, closerVars, reqVars, left>>

Scoring(p) == taskPc[p] \in {"scoreOwn", "scoreTarget"}
ScoreJob(p) == IF taskPc[p] = "scoreOwn" THEN taskJob[p] ELSE target[p]

ReadForScore(p, s) ==
    /\ Scoring(p)
    /\ ReadStage(p, s)
    /\ UNCHANGED <<jobVars, stored, removed, results, audit, late, outlived, runVars, taskVars,
                   closerVars, reqVars, left>>

ScoreStage(p, s) ==
    /\ Scoring(p)
    /\ SaveStage(p, s, ScoreJob(p))
    /\ UNCHANGED <<jobVars, stored, removed, late, outlived, runVars, taskVars, closerVars, reqVars, left>>

Scored(p) ==
    /\ Scoring(p) /\ Attempted(p)
    /\ TaskGoes(p, IF taskPc[p] = "scoreOwn" THEN "release" ELSE "leave")
    /\ UNCHANGED <<jobVars, postVars, runVars, taskJob, target, tries, hook, closerVars, reqVars, left>>

\* A removed text is a recorded no-op, not a failure.
TextRemoved(p) ==
    /\ Scoring(p) /\ ScoringRefused(p, ScoreJob(p))
    /\ TaskGoes(p, IF taskPc[p] = "scoreOwn" THEN "releaseRemoved" ELSE "leaveRemoved")
    /\ UNCHANGED <<jobVars, stored, removed, results, audit, runVars, taskJob, target, tries, hook,
                   closerVars, reqVars>>

\* Mutant: one attempt too many.
OneMoreAttempt(p) ==
    IF tries[p] + 1 <= MaxAttempts
    THEN /\ TaskGoes(p, "queued")
         /\ tries' = [tries EXCEPT ![p] = @ + 1]
         /\ UNCHANGED <<taskJob, hook>>
    ELSE /\ TaskEnds(p)
         /\ hook' = [hook EXCEPT ![p] = IF taskJob[p] = NoJob THEN @ ELSE taskJob[p]]

\* Mutant: no handler of the 'failed' event.
FailUnheard(p) ==
    IF tries[p] + 1 < MaxAttempts
    THEN /\ TaskGoes(p, "queued")
         /\ tries' = [tries EXCEPT ![p] = @ + 1]
         /\ UNCHANGED <<taskJob, hook>>
    ELSE TaskEnds(p) /\ UNCHANGED hook

\* BullMQ: the next attempt, or - after the last - the failed set and the
\* 'failed' event of a reserved job.
AttemptFailed(p) ==
    IF tries[p] + 1 < MaxAttempts
    THEN /\ TaskGoes(p, "queued")
         /\ tries' = [tries EXCEPT ![p] = @ + 1]
         /\ UNCHANGED <<taskJob, hook>>
    ELSE /\ TaskEnds(p)
         /\ hook' = [hook EXCEPT ![p] = IF taskJob[p] = NoJob THEN @ ELSE taskJob[p]]

\* A failed attempt under the post's own job keeps the slot.
FailOwn(p) ==
    /\ taskPc[p] = "scoreOwn"
    /\ \E L \in SUBSET Stages : ScoringFails(p, taskJob[p], L)
    /\ AttemptFailed(p)
    /\ UNCHANGED <<jobVars, stored, removed, results, audit, runVars, target, closerVars, reqVars>>

FailTarget(p) ==
    /\ taskPc[p] = "scoreTarget"
    /\ \E L \in SUBSET Stages : ScoringFails(p, target[p], L)
    /\ TaskGoes(p, "leaveFailed")
    /\ UNCHANGED <<jobVars, stored, removed, results, audit, runVars, taskJob, target, tries, hook,
                   closerVars, reqVars>>

\* The reserved slot is released once the post is scored (or its text gone).
ReleaseSlot(p) ==
    /\ taskPc[p] \in {"release", "releaseRemoved"}
    /\ Release(taskJob[p])
    /\ IF taskPc[p] = "release" THEN TaskGoes(p, "embed") /\ UNCHANGED <<taskJob, tries>>
                                ELSE TaskEnds(p)
    /\ UNCHANGED <<rows, status, trigger, age, quiet, forced, checked, checks, postVars, runVars,
                   target, hook, closerVars, reqVars, left>>

\* finally: leave the joined cycle, whatever scoring did.
LeaveTarget(p) ==
    /\ taskPc[p] \in {"leave", "leaveFailed", "leaveRemoved"}
    /\ IF trigger[target[p]] = "cron" THEN Release(target[p]) ELSE UNCHANGED inflight
    /\ target' = [target EXCEPT ![p] = NoJob]
    /\ CASE taskPc[p] = "leaveFailed" -> AttemptFailed(p)
         [] taskPc[p] = "leaveRemoved" -> TaskEnds(p) /\ UNCHANGED hook
         [] OTHER -> TaskGoes(p, "embed") /\ UNCHANGED <<taskJob, tries, hook>>
    /\ UNCHANGED <<rows, status, trigger, age, quiet, forced, checked, checks, postVars, runVars,
                   closerVars, reqVars, left>>

\* embedIfGated: below the gate, or queued.
EmbedIfGated(p) ==
    /\ taskPc[p] = "embed"
    /\ TaskEnds(p)
    /\ UNCHANGED <<jobVars, postVars, runVars, target, hook, closerVars, reqVars, left>>

\* embedQueue.add throws: the whole scoring job is attempted again.
EmbedFails(p) ==
    /\ taskPc[p] = "embed"
    /\ Spend("embed")
    /\ AttemptFailed(p)
    /\ UNCHANGED <<jobVars, postVars, runVars, target, closerVars, reqVars>>

\* onIngestJobFailed
ReleaseFailed(p) ==
    /\ hook[p] # NoJob
    /\ Release(hook[p])
    /\ hook' = [hook EXCEPT ![p] = NoJob]
    /\ UNCHANGED <<rows, status, trigger, age, quiet, forced, checked, checks, postVars, runVars,
                   taskPc, taskJob, target, tries, closerVars, reqVars, left>>

\* The worker dies; BullMQ finds the job stalled and queues it again.
CrashWorker(p) ==
    /\ taskPc[p] \notin {"none", "queued"}
    /\ Spend("workerCrash")
    /\ TaskGoes(p, "queued")
    /\ target' = [target EXCEPT ![p] = NoJob]
    /\ Outlive(p, NoJob, {})
    /\ UNCHANGED <<jobVars, stored, removed, results, audit, runVars, taskJob, tries, hook, closerVars,
                   reqVars>>

\* Mutant: any result counts as scored.
SweepUntouched(p) ==
    /\ p \in stored \ removed
    /\ results[p] = {}
    /\ taskPc[p] = "none"
    /\ \A r \in Runs : runPost[r] # p
    /\ TaskGoes(p, "queued")
    /\ taskJob' = [taskJob EXCEPT ![p] = NoJob]
    /\ tries' = [tries EXCEPT ![p] = 0]
    /\ UNCHANGED <<jobVars, postVars, runVars, target, hook, closerVars, reqVars, left>>

\* sweepUnscored: a settled post (its run is done with it) without a sentiment
\* result and without a pending scoring job is queued again, with no job.
SweepUnscored(p) ==
    /\ p \in stored \ removed
    /\ "sentiment" \notin results[p]
    /\ taskPc[p] = "none"
    /\ \A r \in Runs : runPost[r] # p
    /\ TaskGoes(p, "queued")
    /\ taskJob' = [taskJob EXCEPT ![p] = NoJob]
    /\ tries' = [tries EXCEPT ![p] = 0]
    /\ UNCHANGED <<jobVars, postVars, runVars, target, hook, closerVars, reqVars, left>>

-----------------------------------------------------------------------------
(***************************************************************************)
(* The closer (cycle.js closeCycles, every 30 s in each worker process)    *)
(***************************************************************************)
\* Mutants: slots are not waited for, are waited for without end, and any
\* running row is closed.
DueAtOnce(j) ==
    \/ /\ trigger[j] = "cron"
       /\ \/ status[j] = "running" /\ age[j] >= DueAge
          \/ status[j] = "closing" /\ age[j] >= DeadCloserAge
    \/ status[j] = "awaiting_retries" /\ (inflight[j] = 0 \/ age[j] >= CapAge)

DueUncapped(j) ==
    \/ /\ trigger[j] = "cron"
       /\ \/ status[j] = "running" /\ age[j] >= DueAge /\ inflight[j] = 0
          \/ status[j] = "closing" /\ age[j] >= DeadCloserAge
    \/ status[j] = "awaiting_retries" /\ inflight[j] = 0

DueAnyTrigger(j) ==
    \/ status[j] = "running" /\ age[j] >= DueAge /\ (inflight[j] = 0 \/ age[j] >= CapAge)
    \/ trigger[j] = "cron" /\ status[j] = "closing" /\ age[j] >= DeadCloserAge
    \/ status[j] = "awaiting_retries" /\ (inflight[j] = 0 \/ age[j] >= CapAge)

Due(j) ==
    \/ /\ trigger[j] = "cron"
       /\ \/ status[j] = "running" /\ age[j] >= DueAge /\ (inflight[j] = 0 \/ age[j] >= CapAge)
          \/ status[j] = "closing" /\ age[j] >= DeadCloserAge
    \/ status[j] = "awaiting_retries" /\ (inflight[j] = 0 \/ age[j] >= CapAge)

DueJobs == {j \in Jobs : Due(j)}

\* The claimed jobs are closed oldest first.
Current(c) == CHOOSE j \in claimed[c] : \A k \in claimed[c] : j <= k

CloserGoes(c, pc) == closerPc' = [closerPc EXCEPT ![c] = pc]

\* claimDueCycles, one transaction (FOR UPDATE SKIP LOCKED).
ClaimDueCycles(c) ==
    /\ closerPc[c] = "idle"
    /\ DueJobs # {}
    /\ claimed' = [claimed EXCEPT ![c] = DueJobs]
    /\ status' = [j \in Jobs |-> IF j \in DueJobs THEN "closing" ELSE status[j]]
    /\ forced' = [j \in Jobs |-> forced[j] \/ (j \in DueJobs /\ inflight[j] > 0 /\ age[j] >= CapAge)]
    /\ CloserGoes(c, "counting")
    /\ UNCHANGED <<rows, trigger, inflight, age, quiet, checked, checks,
                   postVars, runVars, taskVars, reqVars, left>>

CloserCounts(c) ==
    /\ closerPc[c] = "counting"
    /\ CloserGoes(c, IF AnyProcessed(Current(c)) THEN "checking" ELSE "completing")
    /\ UNCHANGED <<jobVars, postVars, runVars, taskVars, claimed, reqVars, left>>

CloserChecks(c) ==
    /\ closerPc[c] = "checking"
    /\ RunBiasChecks(Current(c))
    /\ CloserGoes(c, "completing")
    /\ UNCHANGED <<rows, status, trigger, inflight, age, quiet, forced,
                   postVars, runVars, taskVars, claimed, reqVars, left>>

CloserCheckFails(c) ==
    /\ closerPc[c] = "checking"
    /\ Spend("bias")
    /\ CloserGoes(c, "failing")
    /\ UNCHANGED <<jobVars, postVars, runVars, taskVars, claimed, reqVars>>

\* The row is completed (or failed) whatever its status is by now.
CloserFinishes(c) ==
    /\ closerPc[c] \in {"completing", "failing"}
    /\ SetStatus(Current(c), IF closerPc[c] = "failing" THEN "failed" ELSE "completed")
    /\ claimed' = [claimed EXCEPT ![c] = @ \ {Current(c)}]
    /\ CloserGoes(c, IF claimed[c] = {Current(c)} THEN "idle" ELSE "counting")
    /\ UNCHANGED <<rows, trigger, inflight, age, quiet, forced, checked, checks,
                   postVars, runVars, taskVars, reqVars, left>>

CrashCloser(c) ==
    /\ closerPc[c] # "idle"
    /\ Spend("closerCrash")
    /\ CloserGoes(c, "idle")
    /\ claimed' = [claimed EXCEPT ![c] = {}]
    /\ UNCHANGED <<jobVars, postVars, runVars, taskVars, reqVars>>

\* sweepStaleJobs (maintenance): one-shot rows without progress are failed.
StaleJobs(ts) == {j \in Jobs : status[j] = "running" /\ trigger[j] \in ts /\ quiet[j]}

FailStale(ts) ==
    status' = [j \in Jobs |-> IF j \in StaleJobs(ts) THEN "failed" ELSE status[j]]

SweepStaleJobs ==
    /\ StaleJobs({"api", "manual"}) # {}
    /\ FailStale({"api", "manual"})
    /\ UNCHANGED <<rows, trigger, inflight, age, quiet, forced, checked, checks,
                   postVars, runVars, taskVars, closerVars, reqVars, left>>

-----------------------------------------------------------------------------
(***************************************************************************)
(* POST /api/refresh (routes/refresh.js)                                   *)
(***************************************************************************)
ReqGoes(q, pc) == reqPc' = [reqPc EXCEPT ![q] = pc]

RefreshRunning == \E j \in Jobs : trigger[j] = "api" /\ status[j] = "running"

\* A stale refresh row is failed first.
PostRefresh(q) ==
    /\ reqPc[q] = "idle"
    /\ rows + 1 < MaxJobs
    /\ FailStale({"api"})
    /\ ReqGoes(q, "check")
    /\ UNCHANGED <<rows, trigger, inflight, age, quiet, forced, checked, checks,
                   postVars, runVars, taskVars, closerVars, reqJob, debounce, left>>

\* 409 while one runs, 429 within a minute of the last accepted one.
CheckRefresh(q) ==
    /\ reqPc[q] = "check"
    /\ ReqGoes(q, IF RefreshRunning \/ debounce THEN "idle" ELSE "insert")
    /\ UNCHANGED <<jobVars, postVars, runVars, taskVars, closerVars, reqJob, debounce, left>>

\* The partial unique index refuses a second running 'api' row: 409.
InsertRefresh(q) ==
    /\ reqPc[q] = "insert"
    /\ IF RefreshRunning \/ rows + 1 >= MaxJobs
       THEN /\ ReqGoes(q, "idle")
            /\ UNCHANGED <<rows, status, trigger, inflight, reqJob, debounce>>
       ELSE /\ InsertJob("api", 0)
            /\ reqJob' = [reqJob EXCEPT ![q] = rows + 1]
            /\ debounce' = TRUE
            /\ ReqGoes(q, "enqueue")
    /\ UNCHANGED <<age, quiet, forced, checked, checks, postVars, runVars, taskVars, closerVars, left>>

EnqueueRefresh(q) ==
    /\ reqPc[q] = "enqueue"
    /\ refreshQ' = refreshQ \cup {reqJob[q]}
    /\ ReqGoes(q, "idle")
    /\ reqJob' = [reqJob EXCEPT ![q] = NoJob]
    /\ UNCHANGED <<jobVars, postVars, runPc, runJob, runPost, taskVars, closerVars, debounce, left>>

EnqueueRefreshFails(q) ==
    /\ reqPc[q] = "enqueue"
    /\ Spend("queue")
    /\ ReqGoes(q, "fail")
    /\ UNCHANGED <<jobVars, postVars, runVars, taskVars, closerVars, reqJob, debounce>>

\* 503: the row is failed and the minute's budget given back.
FailRefresh(q) ==
    /\ reqPc[q] = "fail"
    /\ SetStatus(reqJob[q], "failed")
    /\ debounce' = FALSE
    /\ ReqGoes(q, "idle")
    /\ reqJob' = [reqJob EXCEPT ![q] = NoJob]
    /\ UNCHANGED <<rows, trigger, inflight, age, quiet, forced, checked, checks,
                   postVars, runVars, taskVars, closerVars, left>>

-----------------------------------------------------------------------------
(***************************************************************************)
(* Time                                                                    *)
(***************************************************************************)
\* A row reaches the next age bound, no sooner than the rows before it. The
\* last row of the bounded table stays in its window (bound).
Tick(j) ==
    /\ j < rows \/ (j = rows /\ j < MaxJobs)
    /\ status[j] \notin Terminal
    /\ age[j] < DeadCloserAge
    /\ \A i \in Jobs : i < j /\ status[i] \notin Terminal => age[i] > age[j]
                       \/ age[i] = DeadCloserAge
    /\ age' = [age EXCEPT ![j] = @ + 1]
    /\ UNCHANGED <<rows, status, trigger, inflight, quiet, forced, checked, checks,
                   postVars, runVars, taskVars, closerVars, reqVars, left>>

\* A one-shot job makes no progress for the staleness bound.
GoQuiet(j) ==
    /\ status[j] = "running" /\ trigger[j] # "cron" /\ ~quiet[j]
    /\ quiet' = [quiet EXCEPT ![j] = TRUE]
    /\ UNCHANGED <<rows, status, trigger, inflight, age, forced, checked, checks,
                   postVars, runVars, taskVars, closerVars, reqVars, left>>

MinutePasses ==
    /\ debounce
    /\ debounce' = FALSE
    /\ UNCHANGED <<jobVars, postVars, runVars, taskVars, closerVars, reqPc, reqJob, left>>

-----------------------------------------------------------------------------
RunNext(r) ==
    \/ StartRun(r) \/ BeginSource(r) \/ EndSource(r)
    \/ \E p \in Posts : StorePost(r, p)
    \/ \E j \in Jobs : StartRefresh(r, j) \/ EnsureJob(r, j)
    \/ \E s \in Stages : ReadInline(r, s) \/ ScoreInline(r, s)
    \/ ScoredInline(r) \/ FailInline(r)
    \/ ReserveRetry(r) \/ EnqueueIngest(r) \/ EnqueueFails(r) \/ Unreserve(r)
    \/ EndRun(r) \/ CountPosts(r) \/ LookAtJob(r) \/ CheckJob(r) \/ CompleteJob(r)
    \/ RunThrows(r) \/ FailJob(r) \/ LeaveCycle(r) \/ CrashRun(r)

TaskNext(p) ==
    \/ TakeTask(p) \/ ReleaseClosed(p)
    \/ \E j \in Jobs : ChooseCycle(p, j)
    \/ \E s \in Stages : ReadForScore(p, s) \/ ScoreStage(p, s)
    \/ Scored(p) \/ TextRemoved(p) \/ FailOwn(p) \/ FailTarget(p)
    \/ ReleaseSlot(p) \/ LeaveTarget(p) \/ EmbedIfGated(p) \/ EmbedFails(p)
    \/ ReleaseFailed(p) \/ CrashWorker(p) \/ SweepUnscored(p) \/ RemoveText(p)

CloserNext(c) ==
    \/ ClaimDueCycles(c) \/ CloserCounts(c) \/ CloserChecks(c)
    \/ CloserCheckFails(c) \/ CloserFinishes(c) \/ CrashCloser(c)

RequestNext(q) ==
    \/ PostRefresh(q) \/ CheckRefresh(q) \/ InsertRefresh(q)
    \/ EnqueueRefresh(q) \/ EnqueueRefreshFails(q) \/ FailRefresh(q)

Next ==
    \/ \E r \in Runs : RunNext(r)
    \/ \E p \in Posts : TaskNext(p)
    \/ \E p \in Posts, s \in Stages, j \in Jobs : LateSave(p, s, j)
    \/ \E c \in Closers : CloserNext(c)
    \/ SweepStaleJobs
    \/ \E q \in Requests : RequestNext(q)
    \/ \E j \in Jobs : Tick(j) \/ GoQuiet(j)
    \/ MinutePasses

Spec == Init /\ [][Next]_vars

\* What the code keeps doing: a started run goes on and its list of sources
\* ends; BullMQ hands out queued jobs and attempts; every timer ticks; time
\* passes. No new post, request or fault has to come. A one-shot row whose
\* process is gone makes no progress.
RunSteps(r) ==
    \/ BeginSource(r)
    \/ \E j \in Jobs : StartRefresh(r, j) \/ EnsureJob(r, j)
    \/ \E s \in Stages : ReadInline(r, s) \/ ScoreInline(r, s)
    \/ ScoredInline(r)
    \/ (runPc[r] = "score" /\ runPost[r] \in removed /\ FailInline(r))
    \/ ReserveRetry(r) \/ EnqueueIngest(r) \/ Unreserve(r)
    \/ EndRun(r) \/ CountPosts(r) \/ LookAtJob(r) \/ CheckJob(r) \/ CompleteJob(r)
    \/ FailJob(r) \/ LeaveCycle(r)

TaskSteps(p) ==
    \/ TakeTask(p) \/ ReleaseClosed(p) \/ \E j \in Jobs : ChooseCycle(p, j)
    \/ \E s \in Stages : ReadForScore(p, s) \/ ScoreStage(p, s)
    \/ Scored(p) \/ TextRemoved(p)
    \/ ReleaseSlot(p) \/ LeaveTarget(p) \/ EmbedIfGated(p)

Abandoned(j) == \A r \in Runs : runJob[r] # j

Fairness ==
    /\ \A r \in Runs : /\ WF_vars(RunSteps(r))
                       /\ SF_vars(EndSource(r) /\ runPc'[r] = "ending")
    /\ \A p \in Posts : /\ WF_vars(TaskSteps(p))
                        /\ WF_vars(ReleaseFailed(p))
                        /\ WF_vars(SweepUnscored(p))
    /\ WF_vars(\E row \in late : LateSave(row[1], row[2], row[3]))
    /\ \A c \in Closers : /\ WF_vars(ClaimDueCycles(c))
                          /\ WF_vars(CloserCounts(c) \/ CloserChecks(c) \/ CloserFinishes(c))
    /\ WF_vars(SweepStaleJobs)
    /\ \A q \in Requests : WF_vars(CheckRefresh(q) \/ InsertRefresh(q) \/ EnqueueRefresh(q)
                                   \/ FailRefresh(q))
    /\ \A j \in Jobs : /\ WF_vars(Tick(j))
                       /\ WF_vars(Abandoned(j) /\ GoQuiet(j))

FairSpec == Spec /\ Fairness

-----------------------------------------------------------------------------
(***************************************************************************)
(* Who holds a slot of job j: every run in a cycle, every reservation on   *)
(* its way into or in the queue, every scoring job that joined a cycle.    *)
(***************************************************************************)
RunHolds(r, j) == runJob[r] = j /\ r \in CycleRuns
Reserves(r, j) == runJob[r] = j /\ runPc[r] \in {"enqueue", "unreserve"}
TaskHolds(p, j) ==
    taskJob[p] = j /\ taskPc[p] \in {"queued", "scoreOwn", "release", "releaseRemoved", "releaseClosed"}
HookHolds(p, j) == hook[p] = j
TargetHolds(p, j) == target[p] = j /\ trigger[j] = "cron"

Holders(j) ==
    ({"run"} \X {r \in Runs : RunHolds(r, j)})
        \cup ({"reserve"} \X {r \in Runs : Reserves(r, j)})
        \cup ({"task"} \X {p \in Posts : TaskHolds(p, j)})
        \cup ({"hook"} \X {p \in Posts : HookHolds(p, j)})
        \cup ({"target"} \X {p \in Posts : TargetHolds(p, j)})

\* A reservation is released exactly once and never before its holder is done:
\* an open job's inflight_runs covers everything that may still add a post.
SlotsCoverHolders ==
    \A j \in Jobs : status[j] \in Open => Cardinality(Holders(j)) <= inflight[j]

\* No slot leaks either: without crashes an open job waits for nobody who is
\* gone, so its checks never need the hard cap.
NoSlotLeaks ==
    \A j \in Jobs : status[j] \in Open => Cardinality(Holders(j)) = inflight[j]

\* A completed job's bias checks read every post with a sentiment decision
\* under it, unless the hard cap closed it with slots still held.
ChecksSeeEveryPost ==
    \A j \in Jobs : status[j] = "completed" /\ ~forced[j] => checked[j] = Sample(j)

\* A job's checks run once (their assessment rows and alerts are not idempotent).
ChecksOnce == \A j \in Jobs : checks[j] <= 1

\* Dying runs and closers leak slots and never take another's, and a job's
\* checks still read every post of its sample (reserveRetry, closeCycles).
CrashSafe == SlotsCoverHolders /\ ChecksSeeEveryPost

\* A job that the runner, the stale-job sweeper or the closer may finish leaks
\* no slot, and its checks run once, over every post of its sample
\* (runCollection, sweepStaleJobs, closeCycles).
OneShotSafe == NoSlotLeaks /\ ChecksOnce /\ ChecksSeeEveryPost

\* A stage of a post is decided under one job, so no post counts in the
\* samples of two, although every attempt looks first and writes later, and
\* attempts fail, crash, are retried and swept: only a write that outlived its
\* attempt can add a second decision (saveSentiment, saveRelevance).
OneDecision ==
    \A a, b \in audit : a[1] = b[1] /\ a[2] = b[2] /\ a[3] # b[3] => a[1] \in outlived

\* A job claimed for closing with no slot held is never scored under again.
NoScoringOnceClosing ==
    [][\A row \in audit' \ audit :
          ~(status[row[3]] \in {"closing", "completed"} /\ ~forced[row[3]])]_vars

\* A finished job's row is permanent: no later step gives it another status.
FinishedIsFinal ==
    [][\A j \in Jobs : status[j] \in Terminal => status'[j] = status[j]]_vars

\* What a job's row shows its readers keeps the promise of JobLife, however
\* its run, the sweeper, the route, the closers and the scoring workers
\* interleave.
Life == INSTANCE JobLife WITH
    life <- [j \in Jobs |-> IF status[j] \in Open THEN "open" ELSE status[j]],
    capped <- forced,
    sample <- [j \in Jobs |-> Sample(j)],
    read <- checked

JobLifeKept == Life!Spec

\* Every job is finished in the end: by its run, the sweeper or the closer.
\* (The last row of the bounded table never ages.)
EveryJobFinishes ==
    \A j \in Jobs \ {MaxJobs} : status[j] # "none" ~> status[j] \in Terminal

\* Every stored post gets its sentiment decision, or its text is removed first,
\* whatever fails or crashes on the way.
EveryPostScored ==
    \A p \in Posts : p \in stored ~> p \in removed \/ "sentiment" \in results[p]

=============================================================================
