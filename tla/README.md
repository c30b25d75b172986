# Verification of pulse-of-ai

TLA+ models of pulse-of-ai's collection and scoring pipeline, model-checked with
TLC, with theorems checked by TLAPS. `PROJECT.json` maps every definition to the
source lines it translates, and lists the runs, the hazards and the theorems.
All paths below are relative to the repository root.

    tlc -workers 2 -config CycleScheduled.cfg MCCollectionCycle.tla
    tlc -workers 2 -config GateSafe.cfg SourceGate.tla
    tlc -workers 2 -config Components.cfg MCComponents.tla
    tlapm CycleSlotsProofs.tla               (and the other *Proofs modules)

## 1. The system

pulse-of-ai collects public posts about AI from registered sources, scores each
one (sentiment, discourse, relevance), runs statistical bias checks over the
posts of each *job*, and serves the results. It is a Node program: one web
process, one or more worker processes (BullMQ on Redis), PostgreSQL as the
only durable store, and a watchdog process.

| Component | State | Operations | Hard behaviour |
|---|---|---|---|
| Job lifecycle, cycles, slots (`collectors/cycle.js`, `stale-jobs.js`) | `processing_jobs`: status, trigger, `inflight_runs`, `started_at`, `last_progress_at` | join, leave, reserve, release, claim, close, sweep | runs of every worker join one cron cycle; the closer must not run the job's checks while a post can still be added; dead runs must not hold it for ever |
| Runner (`collectors/runner.js`, `workers/collect.worker.js`) | the run's job, source, routes, cursor, holds | gate, collect, store, reserve + queue, record outcome, finish | a throw at any await; the row changes under the run; refusals and switches read before use |
| Scoring worker (`workers/ingest.worker.js`, `pipeline/ingest.js`) | queue `ingest` (`score-`, `retry-`, `sweep-` jobs), `*_results`, `decision_audit_log` | score, retry, move to the current cycle, embed | several attempts under several jobs; parallel stages, one of which fails; text removed meanwhile |
| Unscored-post sweep (`collectors/sweep.js`) | none | re-queue | what a crash or an outage lost must come back, without duplicates |
| Refresh route (`routes/refresh.js`) | debounce time, api row | POST: fail stale, 409, 429, insert, enqueue | concurrent requests; the enqueue fails after the commit |
| Bias checks (`pipeline/bias.js`) | assessments, alerts | three checks over the job's sample | not idempotent, so they must run once and see every post |
| Refusals and source alerts (`collectors/state.js`, `refusal.js`, `source-health.js`, `source-alerts.js`) | refusal columns of `source_collection_state`, open alerts | record, escalate, cooldown, probe, decay, reset, reconcile | decided on rows read earlier; alert and row in separate transactions |
| Rate-limit holds (`collectors/rate-limit.js`) | per host and route: until, failures, kind | merge, back off, save, clear | two runs merge in any order |
| Gates, switches, scheduler (`collectors/governance.js`, `workers/collector.scheduler.js`, `scripts/source-admin.js`) | switches, approvals, gate events, repeatable jobs | enable, disable, approve, reschedule | a switch is thrown while a run is between two routes |
| Watchdog (`watchdog/`) | open episodes, pending e-mails, unrecorded episodes, alert rows | poll, open, clear, deliver, synchronise | database outages and restarts between an e-mail and its record |
| Retention, embeddings, compaction (`collectors/retention.js`, `pipeline/embeddings.js`, `scripts/compact.js`) | `raw_posts` text, vectors, monthly aggregates | blank, remove on request, embed, compact | removal against scoring, embedding and sampling; lock order |
| Maintenance, bias window (`workers/maintenance.worker.js`, `collectors/run-retention.js`, `pipeline/bias-window.js`) | the task's record, daily rollups, windows | steps, one failing; batches | two rollups on the same rows; a success that was not earned; a crash leaves a row 'running' |
| Frontend (`public/js/story.js`, `ui.js`, `data.js`) | snapshot and its mode, selection, panels, receipt drawer | poll, select, open a receipt | answers that arrive after the selection or the mode changed |
| Reddit budget and lease (`collectors/reddit/budget.js`, `maintenance.js`) | request budget row, lease | take, observe, claim, finish | several processes on one budget; an outlived lease |
| HTTP, robots, adapters, gold set, audit replay, web | caches, files, tables | I/O, parsing, offline tools, read-only queries | mostly data and I/O |

Interaction: the scheduler's repeatable jobs start runner calls; the runner stores
posts and puts one scoring job per post on `ingest`; scoring workers write under
the job the post came from, or move to the current cycle; timers in each worker
process call the closer, the sweep, the alert evaluation and the Reddit
maintenance; the maintenance queue calls retention and the stale-job sweeper.
Everything they share is in PostgreSQL rows and BullMQ queues, so the steps of the
models are single statements, transactions and queue calls.

What makes the parts correct:

* jobs: a slot for everything that may still add a post, released once; checks
  see every post and run once; a finished row is final; every job finishes; every
  post is scored or removed; every post counts in one job's sample;
* refusals: no run calls a refused source before its cooldown ends, one probe
  afterwards, no newer refusal is lost, an alert is open exactly while a refusal is;
* holds: the merge is a join, an active hold is never cleared by a run that did
  not see it;
* switches: no route starts after the run has seen the switch; the scheduler
  converges to the rows;
* watchdog: an e-mail per episode transition, rows converge to what was reported;
* retention: no vector or score of a removed text, nothing lost or counted twice
  by compaction, no deadlock between lock orders.

## 2. Plan

| Module | What it models | Proofs |
|---|---|---|
| CollectionCycle | runs, cycles, slots, scoring jobs, closers, sweeps, the refresh route (section 3) | CycleSlotsProofs |
| CycleJoin | how processes agree on one cycle, statement by statement under their locks (section 3) | ComponentsProofs |
| JobLife | what a job's row promises its readers, refined by CollectionCycle (section 3) | CycleSlotsProofs |
| SourceGate | the refusal row, its alert, the kill switches, and who uses them (section 4) | SourceGateProofs |
| RateHolds | rate-limit holds: learned, combined, loaded, saved, cleared (5) | RequestProofs |
| PoliteRequest | one request: hops, robots.txt, retries, redirects (6) | RequestProofs |
| RouteCursors | what a run remembers of its routes (7) | ReadSideProofs |
| RedditJobs | lease, shared budget and re-check of Reddit maintenance (8) | MaintenanceProofs |
| Scheduling | the scheduler's pass and the gate events (9) | MaintenanceProofs |
| Watchdog, AlertLedger | the watchdog, and what its table promises (10) | WatchdogProofs |
| TextRetention | removal of texts under row locks, against embedding and sampling (11) | TextRetentionProofs |
| StoryPage | the page in the browser and answers that come in late (12) | ReadSideProofs |
| Maintenance | the daily maintenance job, the rollup of runs, the bias window (13) | MaintenanceProofs |

The modules of sections 5 to 13 and CycleJoin share no state. They are
checked by one run: `MCComponents` extends the ten and adds a variable `focus`. In a behaviour only the component in focus moves;
the others stay in a first state. The reachable states are the sum, not the product, of
the components' own, and each property is about its own component's variables. The component in focus
is free to take any of its steps, so nothing is lost but the products. (TLC compares states by the VIEW InFocus, the variables of
the component in focus: the others have one value in the whole run.) ComponentsProofs shows that for all
constants: **ComponentsStandAlone**, a behaviour of the composition is one of each of its ten components, so that what is proved
of a component holds of the composition. From it and the components' own theorems follow **ComponentsKeepTheirTypes** and
**ComponentsKeepTheirPromises**, which are all that the run `components` checks on its instance. (A component that is
not in focus begins in one fixed state, written with the instance's values, and takes no step. For constants without these values
the composition has fewer behaviours; the components' own theorems do not depend on it.)

Not done: composition of RateHolds with the route loop (a run stops at a held host), and of Scheduling with SourceGate.

## 3. CollectionCycle

### State and steps

A row of `processing_jobs` is an index of `status`, `trigger`, `inflight` (the
reserved slots and runs, `inflight_runs`), `age` (against the closer's bounds) and
`quiet` (no progress for the staleness bound). `forced`, `checked` and `checks` are
history: was the row claimed by the hard cap with slots held, which posts its
checks read, how often they ran. A post is `stored`, perhaps `removed`, has
`results` per stage, and `audit` says under which job each stage was decided.
A stage looks for its result row in one statement and writes in a later transaction: `writing` are the stages between the
two, `late` the writes still under way after `Promise.all` has rejected, `outlived` (history) the posts that had one.

| Actor | Code | Actions |
|---|---|---|
| collection run (`runPc`) | `runCollection` and the workers that call it | StartRun, StartRefresh, BeginSource, EndSource, StorePost, EnsureJob, ReadInline, ScoreInline, ScoredInline, FailInline, ReserveRetry, EnqueueIngest, EnqueueFails, Unreserve, EndRun, CountPosts, LookAtJob, CheckJob, CompleteJob, RunThrows, FailJob, LeaveCycle, CrashRun |
| scoring job of a post (`taskPc`) | `processIngestJob`, BullMQ | TakeTask, ReleaseClosed, ChooseCycle, ReadForScore, ScoreStage, Scored, TextRemoved, FailOwn, FailTarget, ReleaseSlot, LeaveTarget, EmbedIfGated, EmbedFails, ReleaseFailed, CrashWorker, LateSave |
| closer (`closerPc`) | `closeCycles` | ClaimDueCycles, CloserCounts, CloserChecks, CloserCheckFails, CloserFinishes, CrashCloser |
| sweeps, retention | `sweepUnscored`, `sweepStaleJobs`, `removeTextBatch` | SweepUnscored, SweepStaleJobs, RemoveText |
| request (`reqPc`) | `POST /api/refresh` | PostRefresh, CheckRefresh, InsertRefresh, EnqueueRefresh, EnqueueRefreshFails, FailRefresh |
| time | `NOW()` | Tick, GoQuiet, MinutePasses |

Each step is one statement, transaction or queue call, or the synchronous code between two
of them; the value of a program counter is the call made next.

### Abstractions and bounds

* Of the three scoring stages two are kept: `discourse` is written as `relevance` is. The result tables have no unique key on the post
  (`002_audit_tables.sql:25-60`), so `ON CONFLICT DO NOTHING` never applies and a late write is one more row.
* Time is four ages per row: in the window, past window and grace, past the hard
  cap, past twice the cap. Rows age in the order of their insertion. In the grace minute a row is neither
  joined nor closed, so it has no age of its own.
* `GoQuiet` may call any one-shot row stale at any time: more than the clock allows,
  so what holds here holds for every staleness bound.
* A post has one scoring job at a time: `score-` and `retry-` share the post's only run
  and the sweep checks for pending jobs. The sweep's window of 24 h, limit
  and hour bucket are left out, so EveryPostScored says "is scored if it stays in the window".
* `standup` and `demo` jobs behave as `manual` ones.
* `MaxJobs` rows. One-shot rows leave the last one to a cron cycle and the last
  one never ages; so there is always a cycle to move to, as in the unbounded table.
  Properties of rows say so where it matters (EveryJobFinishes).
* `MaxAttempts` is 5 in the code; 2 shows a retry and a last failure.
* `MaxFaults` faults in all, of the kinds in `Faults`. Each fault is a
  single step the environment may take, so two show every pair of them.
* One cycle run can come back for every post and join twice; two posts, two
  rows and one closer give every order of join, claim, move, close. Two closers
  are used where they matter.

`CHECK_DEADLOCK FALSE` in every run: the bounded table and set of posts run out, and then
nothing has to happen.

### What the runs show

| Run | Result |
|---|---|
| cycle_scheduled | Two posts, two cycles, any two of: failed scoring, failed enqueue, throw, failed checks, removed text. Left out are crashes, `embed` (run released_twice) and `straggle` (a late write), for which the three properties do not hold. Types; **NoSlotLeaks** (an open job's slots are exactly those held); **ChecksSeeEveryPost** (a completed job's checks read its whole sample unless the hard cap forced it); **NoScoringOnceClosing**. |
| cycle_crash | The same two posts and cycles, with failed scoring, dying runs and dying closers, any two of them. A crash leaks a slot, so of the slots only **SlotsCoverHolders** (never fewer slots than holders) remains, and the checks still see everything: together **CrashSafe**. |
| cycle_oneshot | A refresh run, a manual run, two requests: **OneShotSafe** (NoSlotLeaks, ChecksSeeEveryPost and **ChecksOnce**, a job's checks run at most once) and **JobLifeKept**, although runner, sweeper, route and closer all write the row's status. |
| cycle_live | All ten kinds of fault, two of them: **EveryJobFinishes**, **EveryPostScored**, and **OneDecision**: a post none of whose writes outlived its attempt has each stage decided once, although a stage looks and writes in separate statements and the write does not look again. |
| released_twice | `released exactly once` (`cycle.js:128-129`) does not hold: if adding the embed job throws, the attempt is repeated after the slot was released (`ingest.worker.js:58`), and the next attempt releases another holder's slot. |
| checked_twice | `each exactly once across workers` (`cycle.js:206`) does not hold for a cycle claimed later than twice the cap: it is 'closing' and counts as abandoned at once. |
| stuck_closing | `finalized by closeCycles too` (`stale-jobs.js:15-17`) does not hold for a refresh job whose closer dies: only cron rows are claimed again. |

### Fairness

`FairSpec` assumes what the process keeps doing by itself: a run and a scoring
attempt take their next step (BullMQ hands out queued and stalled jobs), the closer and
both sweeps are timers, rows age, and the source list of a run ends (strong fairness of
EndSource: a run may meet a new post again and again, but its list is
finite). A one-shot row that no process works on becomes quiet. Nothing is
assumed of faults, new posts, new runs, requests, or retention.

### What is proved

CycleSlotsProofs proves, for any constants that satisfy the named assumptions, first:

* **TypeCorrect**: `Spec => []TypeOK`. The type invariant alone is not inductive:
  a step that writes at `runJob[r]` needs that to be a job and not NoJob. TypeInv
  adds, for each actor, what its program counter implies about its job and post
  (RunReady, TaskReady, CloserReady, RequestReady, and rows inserted so far); one lemma
  per actor, one step per action.

It then proves what the runs check of slots and of bias checks, for any number of runs, posts,
closers, requests, rows, attempts and faults. Its hypotheses name the kinds of fault under which the code breaks the
statement; all other faults may happen in any number and order:

| Theorem | States | Not with these faults, because |
|---|---|---|
| SlotsAreCovered | SlotsCoverHolders | `embed`, `workerCrash`: a scored post's job is attempted again after its slot was released, and releases another's (run released_twice) |
| SlotsAreExact | NoSlotLeaks | the same, and `runCrash`, which leaks the dead run's slot |
| ChecksReadTheWholeSample, CrashesAreSafe, NothingIsScoredOnceClosing | ChecksSeeEveryPost, CrashSafe, NoScoringOnceClosing | `embed`, `workerCrash`, and `straggle`: a stage of a failed attempt commits after the slot is gone |
| StagesAreDecidedOnce | OneDecision | none; posts that had a straggler are excepted by the property |
| FinishedRowsStay | FinishedIsFinal (a completed or failed row is permanent) | none, but while Exclusive holds: a second closer may claim a row whose closer is slow (run checked_twice) |
| JobsLiveAsPromised | JobLifeKept | `embed`, `workerCrash`, `straggle`, while Exclusive holds: those of what it combines |
| ChecksRunOnce | ChecksOnce | `runCrash`, `closerCrash` (the job's checks are handed out again), while Exclusive holds |
| OneShotIsSafe | OneShotSafe | all of these |

* The slots: a job's `inflight` is compared with the sum of the cardinalities of five sets, one per kind of holder
  (HoldersCount), and Balanced says that it is at least that sum, or equal to it if no run died. TypeInv does not suffice: SlotsInv
  adds for every actor whether the slot its program counter implies is still its own (a run between reserve and
  enqueue, a task between its take and its release, the hook after a last failure). One lemma per
  action shows by how much each side moves.
* The checks: SampleInv adds that a row that is claimed without the hard cap, or that its own run has begun to finalize, has
  nobody left that could decide a post under it (SealInv), and that its checks have read the whole sample from the moment it is about to be
  completed (CheckedInv). CrashSafe follows from both invariants.
* The refinement: JobLife is the abstract specification of a row. A job is opened once, claimed, and settled once; posts are decided
  under it while it is open, or has failed, or after the hard cap; it is completed only when its checks have read its
  sample or the cap ended the wait. **JobsLiveAsPromised** shows that CollectionCycle implements it under the mapping that takes `running` and
  `awaiting_retries` for open, `audit` for the samples and `checked` for what was read: LifeInv is SlotsInv, SampleInv and ClosingInv
  together, one lemma for each of decisions, checks, claims, and the steps that open or settle a row, and LifeMoves
  puts them together.
* Decisions: DecidedInv says that a result of a post is there as soon as its stage is decided, and that of a post without stragglers nobody but the one
  attempt under way writes: what it found unscored stays unscored until its own transaction (the sweep, the queue and the runner never work on one post at once).
* Finished rows and single checks: HandsInv and OnceInv say who has a row in hand (its run, the sweeper, a
  closer), and that no two have. *Exclusive* is the hypothesis that no two closers hold one row, stated of the behaviour
  (`Spec /\ []Exclusive => ...`) and not of the constants: there may be any number of closers. With one closer it holds
  trivially, as in the runs; when it holds otherwise is the next point.
* Any number of closers, every fault, no hypothesis: **SharedRowsAreOverdue**, two closers hold one row only if it is a cycle older than
  twice the hard cap (Overdue), because `claimDueCycles` takes nothing else from a living closer. So closers that finish a cycle before
  that age are exclusive (**PromptClosersExclude**); a finished row that is not overdue keeps its status
  (**RowsFinishedInTimeStay**); one that no closer has in hand any more keeps it for ever and is never claimed again, at whatever
  age (**ReleasedRowsStay**); and the checks run twice only for an overdue cycle, or for a one-shot run's job where runs may
  die (**ChecksRepeatOnlyLate**). HeldInv: what a closer holds is being closed, unless one that shared it has finished it; SpentInv: whose
  checks have run, nobody will check again before it is overdue.

The proof of the slots found a flaw of the model, not of the code: the failure hook of a scoring job was enabled once more after
an attempt that was repeated. AttemptFailed and OneMoreAttempt now separate the two cases as BullMQ does.
That a set of jobs has an oldest one is shown with the library's theorem on strict subsets of a finite set
(OldestJob), since an induction over numbers is not within the provers' reach.

### CycleJoin

CollectionCycle takes `currentCycleJob` and `claimDueCycles` as one step each. CycleJoin takes them apart: begin, advisory lock, SELECT,
guarded UPDATE (which waits for the row's lock and looks again), INSERT, commit or rollback; `retryJobFor` and `leaveCycle`;
and the claim, which skips locked rows and marks them in a second statement. `NOW()` is the begin of the transaction.

| Code | Actions |
|---|---|
| `currentCycleJob` | CjBegin, CjTakeLock, CjSelect, CjJoin, CjCommit, CjInsert, CjRollback |
| `joinCycle`, `retryJobFor`, `leaveCycle` | CjRetryJoin, CjLeave, CjDie |
| `claimDueCycles` | CjClaim, CjMark, CjUnclaim |

* **OneJoinableCycle**: two cycles never take runs in for the same window (**CyclesNeverSplit**). The mutant without the advisory lock breaks it.
* **CountedWhileWorking**: who was given a cycle works under a row that no closer has claimed, unless at the hard cap (**WorkersAreCounted**).
  The mutant whose UPDATE does not look at the status again breaks it.

Both and the types (**JoinTyped**) are proved in ComponentsProofs, for any processes, rows and times. CjLocks says who holds which lock in which
statement; CjWindows, that while a joiner holds the advisory lock nobody else can insert, and that a row's start is not later than
now; CjCounts, that a row's `inflight` is at least the number of those working under it, so that a claim
before the cap finds none.
Instance: two joiners, one closer, two rows, a window of one tick, grace of one, a cap of three, one fault.

Seen: `started_at` is the time the transaction began, before its wait for the lock. So a row may be
inserted that is already past its window, and a process that waited may join one that is; neither is
joined by a transaction that begins after its window, and CollectionCycle, where a joined row is in its window, leaves both out.
It also lets a cycle be claimed only when nobody is in a transaction that selected it, which the row lock and the second look make
the same.

### Model-checked only

All liveness: EveryJobFinishes and EveryPostScored hold under fairness, which is not within the proof
system's reach.

### Seen while modelling, without a run of its own

* A stage that is still writing when `Promise.all` rejects (`pipeline/ingest.js:265-272`)
  may commit after the slot is released and the checks have run (fault `straggle`). The next attempt may find no row and write too: a second audit row
  of one stage, although `sentiment.js:78` calls a second call "a no-op (ON CONFLICT DO NOTHING)": no table has a key on the post that could conflict.
* `sweepUnscored` tests the sentiment row alone (`sweep.js:44`), so a post whose other stages
  failed for good is not queued again.
* A refresh run that dies after its bias checks runs them again when BullMQ hands the job
  out anew.
* BullMQ fails a job that stalls too often with attempts left; `onIngestJobFailed`
  (`ingest.worker.js:104`) then keeps its slot, and the hard cap closes the job.

## 4. SourceGate

### State and steps

One source: its refusal columns (`denied`, `cooling`, `count`, `probation`, `last`), whether
its poll interval has passed (`due`), the open `source_refused` alert (the count in its
details, 0 for none) and the switches that are `off` (source and routes).

| Actor | Code | Actions |
|---|---|---|
| run of the source (`pc`) | `runCollection` | StartRun, ReadRouteSwitches, ReadRefusal, ResetByEnv, Claim, RecheckSwitch, RecheckRoute, BeginRoute, RouteOk, RouteRefused, RouteFails, EndRun, RunThrows |
| Reddit maintenance pass (`pc`) | `runRedditMaintenance` | the gates above, BeginJob, JobEnds |
| both, at their end | `state.js`, `source-alerts.js` | RecordRefusal, OpenAlert, EscalateAlert, EndCooldown, ResolveAlert, DecayRefusal |
| evaluator (`evPc`) | `evaluateSourceHealth` | EvalRow, EvalAlerts, EvalRoutes, EvalAct |
| operator | `source-admin.js`, the environment | SwitchOff, SwitchOn, AdminReset, SetEnvReset |
| time | `NOW()` | CooldownEnds, ProbationEnds, IntervalPasses |

What a worker read is in `seen` until it stops. `heard` and `said` count the runs that
met a refusal and the refusals recorded, `swallowed` those that a pass took for a failed request; `since` and `approved` are history.

### Abstractions and bounds

* A refusal's time is its number in the order of recording; `endCooldown` compares
  times within 1 ms, the model numbers. A reset date is the last refusal it covers.
* A cooldown or a probation ends at any moment after it began, so what holds here holds
  for every length of either; that the length doubles is left out, the `count` it is
  computed from is kept. `probation_until` is none, ahead or past, since the code
  tells a missing time from a past one.
* A run starts whatever the scheduler does; it is a run of any process.
* A maintenance pass may send any number of requests under one reading of its gates (two jobs of a bounded number in the code). Of the refusals it
  meets some end it and are recorded, others are swallowed (below); which is the environment's choice.
* A route's outcomes: everything collected, refused as a whole or in one feed, failed, held,
  or collected with an item not stored or queued. Items, cursors, holds' contents and the
  other three alert types are left out.
* `MaxRefusals` refusals, then the source relents: NeverLockedOut needs it, nothing
  else does. Two routes give a first route and one that is re-checked. One run and one
  pass overlap in gate_safe, and a run may come back any number of times.

### What the runs show

| Run | Result |
|---|---|
| gate_safe | A run and a pass, two routes, three refusals, one operator action (a switch, `source:reset` or an environment reset), one fault. **RefusalsRecorded** (each refusal met is recorded, held by the one that met it, or was swallowed by a pass), **FreshRefusalKept** (a refusal ends only by a run that probed that very refusal, by a reset that covers it, or by an environment reset decided before the refusal was recorded: StaleReset), **TakedownHonoured** (no route begins under a switch that was on when the run began the route before, or when it started). |
| gate_live | A run, an evaluator, two operator actions (switches, environment reset), one crash: **AlertFollows** (the alert is open in the end exactly while the source is refused and collecting, whatever is lost between row and alert), **NeverLockedOut** (a source that relents and stays switched on is collected again and its count decays). |
| lost_refusal | "A run whose routes were refused ... puts the source in the refused state" (`refusal.js:5-7`) does not hold: a database error that escapes the route loop after a refused route (`runner.js:469`) ends the run before `recordRefusal` (`runner.js:538`). |

### Fairness

`FairSpec`: runs are scheduled again and again and take their next step, the evaluator is
a 30 s timer, cooldowns, probations and poll intervals pass. Nothing is assumed of the operator
or of faults, and the source may refuse as often as its bound lets it.

### What is proved

SourceGateProofs proves, for any number of runs, passes, evaluators, routes, refusals and faults:

* **GateTyped**: `Spec => []TypeOK`, and **TakedownAlwaysHonoured**: `Spec => TakedownHonoured`.
  Both from TypeInv, which adds WorkerReady to the types: with its program counter come the routes
  a worker still has, which of the switches it knows of it has found on, and whether it
  has met a refusal. The takedown follows because the switches in `since` are still on (clearing one
  removes it), so each re-check that finds a switch off shows that it is not in `since`.
* **RefusalsAlwaysRecorded**: `Spec => []RefusalsRecorded` if "throw" is not among the faults.
  The workers that hold an unrecorded refusal are a finite set that grows and shrinks by one as
  `heard` and `said` grow. lost_refusal shows that the assumption is needed.
* **OnlyStaleResetsLose**: `Spec => FreshRefusalKept`, and the escalation falls in the same ways only or after a probation. The exception is
  StaleReset: an environment reset clears a refusal that is newer than the one its run had read and than any the operator has reset, since
  `runCollection` clears the row without a guard. ReadInv: nothing in the row is newer than the last recorded refusal, no reset covers
  more than has been recorded, and a run that is about to clear the row has read a refusal which its reset covers.

Liveness is model-checked only.

### Seen while modelling, without a run of its own

* An environment reset is decided on the refusal read before and clears the row without a guard
  (`runner.js:226-243`): a refusal recorded in between is cleared too. This is the exception in FreshRefusalKept.
* `maintenance.js:145-148` says that a refusal in a pass puts the source in the refused state "exactly as in a collection
  run, and no further job asks Reddit this tick". The re-check rethrows a refusal of status 401, 403 or 451 only (`recheck.js:61`);
  any other (a bot wall on 200, 429 or 503; the escalated 14th rate limit, whose status is 429, `http.js:374-384`; a token refused on 200,
  `api.js:130`) counts as a failed batch, the next batch is asked and nothing is recorded. RefusalsRecorded counts these in `swallowed`.
* `maintenance.js:11-14` says its jobs run only while Reddit "is not in its refused state"; its gate
  (`maintenance.js:86-87`) stops it in the cooldown only, so a pass asks a refused Reddit
  as soon as the cooldown has ended, beside the one probe run of `refusal.js:12`.
* Two overlapping refusals may escalate the alert in the other order than they were
  counted, so it can show the smaller count (`state.js:245-246` says it "never understates the refusal").
* A pass reads its switches once, not between its two jobs.

## 5. RateHolds

`stored` is `rate_limited_hosts` of each source's row: per host a *hold* (until, cause, the three
streaks, and when a limit last wrote them). A run has the union of all rows as its `view`, and
which hosts it `changed` and which are `gone` since it last saved.

| Code | Actions |
|---|---|
| `loadHolds`, `mergeHolds` | LoadHolds |
| `raw`, `request`, `withRetries` | Send, Refrain, Redirected, Answered (clearHold), Limited (rateLimitError, hold5xx, recordHold, holdAlso), RetryInRun, OtherEnd |
| `saveHolds` | SaveHolds (one transaction on the source's row), then ReadCopies and DropCopy for every cleared host in the other sources' rows |
| time | HoldTick |

* **HoldHonoured**: no run sends to a host before the time that the host had named to any run that saved it
  before this run loaded, whatever was merged, cleared or dropped since.
* **RefusedFairly**: a run that takes a limit for a refusal does so after as many limits as the
  threshold says since the host's last undisputed success: no limit is counted twice because two
  rows have it, and no streak comes back from a stale copy. Limits are counted by history variables (`given`, `base`).

Instance: two runs of two sources, one of which redirects to the other's host; three loads, three
ticks, thresholds of 3, a cap of 3 ticks, streaks of 3 at most, so that a streak, its escalation and the cap all occur. The code has no fairness to assume here; both properties are safety.

Proved (RequestProofs), for any sources, hosts, redirects, runs, answers, thresholds and bounds:

* `combineHold` is commutative and associative (**CombinedEitherWay**, **CombinedInAnyOrder**), so the order in which
  copies of a hold are merged does not matter. Both rest on StreaksOrdered: any two streaks are ordered one way
  or the other, or are the same.
* **HoldsKeepTheirTypes**: HoldsTyped has the records that occur, no hold further ahead than the cap, no streak longer than
  STREAK_MAX. These bounds are what JoinedRecord needs: that of any set of rows one outlasts the others and one has the latest
  streaks, so that the union of the rows, which the model takes with two CHOOSEs, is a record at least as far ahead as
  each. (GreatestOf finds the largest measure of a bounded set from the well-foundedness of the naturals; the set
  need not be finite.)
* **HoldsAreHonoured**. HonourInv: what a run was told, and what was named to saved runs when it loaded, its view still has
  or it is past (RunRemembers); what a saved run was told some row still has or it is past (NamedIsStored). The hazard is in
  the clearing: SavedRecord says that a save drops a record only where the row's own is over and the run has heard nothing
  later, DropCopy removes only what was over when it was read, and what was over stays so.
* **RefusalsAreFair**. FairInv: of a host that does not redirect no record, in a row or in a run, counts more limits than the host gave
  since its last undisputed success (CountedOnce). Needed with it: a run is at another host than its first only if the first redirects
  (WasRedirected), or `holdAlso` would copy a streak to a host that never redirects; and a run that is not under way has no
  records (IdleInv), or a success would be taken for undisputed while one is about to be saved.

`DoublingAssumption`, that the powers of two up to STREAK_MAX are naturals, is arithmetic which the provers do not have and TLC evaluates.

Left out: the migration of old holds (`legacyHolds`), host twins (`hostKeys`), the marks of terms-page hosts, `holdGate` and
the wording of reasons. Histories are shorter than the age at which a stored hold is dropped as stale.

## 6. PoliteRequest

One `request` of a collector per fetcher, with the robots cache shared by the process. A step ends
at each await on the network.

| Code | Actions |
|---|---|
| `request` loop | StartRequest, CheckHop, HopRefused, SendPage, PageAnswered, Redirects, Deadline |
| `withRetries` | AskAgain |
| `policyFor`, `fetchRobots`, `classifyRobots` | SendRobots, RobotsAnswered, RobotsRedirected, RobotsHeld |
| time | TenMinutes (`UNREACHABLE_TTL_MS`) |

* **RobotsObeyed**: a page is asked only of an origin that was checked, and that permitted it by the last word any
  run of the process has read from it and that is still good, again at every redirect.
* **PoliteCalls**: once the source has said no (refusal, bot wall at any status, limit; from page or
  robots.txt), nothing more is sent for that request; a request with a key, a cookie or a body goes to no other origin.

An answer is a record of what the code looks at: status class, bot wall (by header, by page), spent quota, waiting time,
decodable or not. `Responses` of the instance has eleven of them, one per way through
the classification that the properties can tell apart. Two fetchers, two origins, one redirect and one retry, rules good for two ticks against one
for a plain 403: one fetcher may find in the cache what the other read and let expire.

Proved (RequestProofs): both, and the types (**PoliteTyped**), for any origins, fetchers, answers, limits and lifetimes.
PoliteInv says that a request that was told no is over (NoIsFinal), that one with credentials
has not left its first origin (CredentialsStay), that the cache has the last word read (CacheIsLast),
and that a request which is past its robots check is at an origin that permitted it (OriginsChecked). For the types, HopsChecked says that a request past the
checks of its hop is within the redirects it may follow: a hop is counted before it is checked.

Left out: parsing of robots.txt and matching of rules, DNS and address checks, response sizes, and the
spacing of requests to a host.

## 7. RouteCursors

Routes of four kinds, after how they remember: *files* of a bulk delivery (`seenFiles`), *feeds*
(HTTP validators), a *search* (since-id), a *mailbox* (last uid). `saved` is the source's row, `live`
the objects that a run passes to its collectors by reference, `snapshot` their copy before the route under way.

| Code | Actions |
|---|---|
| `runCollection` | ClaimSource, SkipRoute, BeginRoute, FetchFails, StoreUnit, StoreFailed, EndRoute (rollback), RunDies, SaveOutcome |
| collectors (`base.js`, adapters, `http.js`) | ReadUnit, UnitBroken, SearchRead, FetchEnds |
| provider | Offer |

`AtOnce` says which kinds write into the live object while they read (`base.js:332,353`, `academic.js:302`,
`http.js:669-676`), and which only when the fetch has ended.

* **NothingSkipped**: what the source's row says has been read is stored, outside the admission rule,
  never obtained (beyond a search's page, an unparsable feed), or was remembered by a fetch that then
  failed; whatever failed to be stored, died, or overlapped.
* **SeenOnlyOnceStored** (run seen_files, violated): the last exception is a bug for bulk files.
  A file is marked in the live cursor (`base.js:353`) as soon as it is read; when the next file of the delivery is too large or
  cannot be parsed, the fetch throws, the runner goes on without restoring its snapshot
  (`runner.js:367-370`) and saves the cursor. The first file's records are then never stored, against
  `tests/integration/collect.storefail.test.js:1-5`: "a bulk dataset file is marked seen only once its records are stored".
  The same holds of the Scholar mailbox's uid (`academic.js:302`) and of a feed's validators when
  the body was received but could not be parsed (`http.js:669-675`); no document promises otherwise there.

Instance: two overlapping runs, one route of each kind, and a list of two routes; two units at most.
Proved (ReadSideProofs): the types (CursorsTyped) and **NothingEverSkipped**, for any
routes, runs and units. CursorInv says of the row, of the snapshots and of the live objects what each may
remember (SavedSettled, SnapshotSettled, LiveSettled): a live object may also have what its run is just reading or storing.

## 8. RedditJobs

The two background jobs (deletion re-check, discovery) of any number of worker processes, and the one budget row
they share with the collection runs. A unit is the budget's window of ten minutes.

| Code | Actions |
|---|---|
| `runRedditMaintenance`, `claimJob`, `finishJob` | StartTick, ClaimJob, NotClaimed, JobRefused, FinishJob |
| `take`, `observe` (`budget.js`) | CollectorTakes, JobTakes, BudgetExhausted, UpstreamSpent |
| `recheckDeletions`, `blankPosts` | InfoAnswered, BatchFailed, JobLimited, NothingToAsk, BlankPosts |
| `discoverSubreddits` | SearchOn, Discovered |
| outside | RjCrash, DeletedUpstream, UnitPasses |

* **RoomForCollection**: in every window the background jobs of all processes together leave the collection runs
  their reserve, and nobody goes over the cap.
* **OneRunner**: two processes run one job only if the lease of one is over, or somebody finished after his lease.
* **RecheckThorough**: a re-check that is marked complete has blanked every post that Reddit had dropped before it began.

`overran` is the exception in OneRunner: `finishJob` is not fenced by who holds the claim, so a pass that outlives its
30 minutes releases the claim of the next (`maintenance.js:59-69`). No document promises more.
Instance: two processes, a cap of 2 with a reserve of 1, a lease of one window, jobs due every second unit, one crash.
In the code a lease is three windows and a re-check is due every 24 hours: what matters is that a lease
ends before the job is due again, and that a window rolls over within it.

Proved (MaintenanceProofs), for any processes, posts, caps, leases and bounds: RedditTyped; **RoomAlwaysLeft** (RoomInv
adds that background grants are among the used ones); **OneRunnerAlways** (RunnerInv adds ClaimHeld: who runs a job within
its lease is the one whose claim the row has); and **CompleteIsThorough** (ThoroughInv: what a re-check without a failed batch
still owes the posts that were gone when it began, at each of its steps, and that Reddit does not bring a post back).

Seen: the windows are fixed, so up to twice the cap may be asked in ten minutes that straddle two of them; with a collection
window of ten minutes or more the reserve is the whole cap and the background jobs never get a grant. Left out: the failing
of `blankPosts` (`recheck.js:85-89`), tokens, the ranking of subreddits.

## 9. Scheduling

One source, its registry routes (one needs a named approval and replaces another when it is open), the job
scheduler that BullMQ repeats, and the last gate event. A pass is `scheduleAllSources` with `recordGateTransitions` inside
it; several overlap, each under its own environment.

| Code | Actions |
|---|---|
| `scheduleAllSources` | BeginPass, TidySchedulers, EndPass, PassFails |
| `recordGateTransitions` | ReadGate, CompareGate, RecordGate, GateFails |
| `source-admin.js`, deployment | ThrowSwitch, Redeploy |

`StatusUnder`, `CadenceUnder` and `GateUnder` are the registry's status, cadence and gate as functions of environment and
switches, in the order in which `sourceStatus` decides.

* **OnePassSettles**: after a pass in which nothing failed and nothing else happened, and until something
  does, the repeatable job has the cadence that environment and switches give, or there is none, and the last
  gate event names the status, approver and routes in force. Whatever overlaps, stale reads and failures left
  behind, one undisturbed pass puts right.
* **NoEcho**: two gate events in a row say the same only if passes overlapped or something changed while one was under way.

Both proved (MaintenanceProofs) for any passes, routes, environments and changes. TrackInv says that an undisturbed pass is alone, and step by step
what it has read and done so far. The types too (**SchedulingTyped**): that the cadence is one of the routes'
needs the registry to list finitely many routes, as it does (`SchedulingAssumption`).

Seen: `scheduleAllSources` does not look at `collection_disabled_at` (a switched-off source keeps its
repeatable job; the runner enforces the switch), and a Redis failure skips the gate events of that pass.
A cadence is that of a key the environment has, or of the slowest open route, and never shorter than the window (`AskedUnder`); the instance has an environment of each kind.
Left out: the correlation gate, terms snapshots, the stagger of jobs.

## 10. Watchdog and AlertLedger

The process: conditions it `held` open, `unrecorded` episodes, e-mails `pending` and in the round's `queue`. The
database: `alerts`. A poll number is the time; a probe is what a poll finds.

| Code | Actions |
|---|---|
| `init` | WdStart, WdStartHalf (second query fails), WdStartBlind (first fails) |
| `pollOnce`, `evaluate` | Poll, Enqueue, PollEnds |
| `_syncDb` | OpenAlert, AllOpen, CloseAlert, AllClosed, RecordClosed, AllRecorded, SyncFails, AnswerLost |
| `deliver` | SkipMail, SendMail, SendFails |
| outside | WdCrash |

* **EpisodesKept**: what the process saw open is still held, waits to be recorded, or is covered by an alert.
* **OpeningsMailed**: between two polls the e-mail of a held condition has been decided, is recorded as settled with
  its alert, or is waiting, across retries and restarts.
* **NotTwice**: no "opened" e-mail for an opening whose outcome is recorded, and none about an alert it is recorded with. Excepted are alerts the
  process has `disowned`: the open ones after a start that could not read the table (`index.js:98-101`), whose conditions it detects and e-mails
  anew though `index.js:73-77` says that a restarted watchdog does not; and one that stayed open in the table while its condition was seen to
  clear, when it comes back.
* **ClosedOnEvidence**: an alert is closed only in a poll that could read its condition and found it absent.
* **LedgerKept**: the detailed watchdog implements AlertLedger, the promise to the dashboard: at most one open alert per
  condition, closed once, nothing rewritten. The refinement mapping forgets whether an e-mail was sent.

Instance: four probes (nothing wrong, worker stale, no Redis, no database), three polls, three faults of any of the
four kinds, three attempts, two e-mails in two polls, so that the limit is met. An episode must open, close and open again
for the ledger to matter: three polls and a restart suffice.

All five are proved, and the types (WatchdogProofs, **WatchdogTyped**), for any probes, polls, attempts, limits and faults:

* **LedgerImplemented**: `WatchdogSpec => LedgerKept`. LedgerInv adds the types that the mapping needs (a held
  entry's time and every unrecorded episode's are poll numbers).
* **OneIsOpen**: the table never has two open alerts of one condition.
* **EpisodesAreKept**: EpisodeInv adds to it the types, that one alert of a condition is open at a time (OneOpen), and that
  the dates of what is held, unrecorded and open agree (TimesInv); one lemma per statement of `_syncDb`.
* **ClosedOnlyOnEvidence**: EvidenceInv says that while the table is brought up to date all that the poll detected is
  held, so that a row to be closed is of a condition this probe could read and did not find.
* **OpeningsAreMailed** and **NoneIsSentTwice**: MailInv relates the e-mails in `queue` and `pending` to the alerts: when
  each phase may have which of them (PhaseInv), that an opening has one e-mail under way (OnceInv) with the time of the row that is
  open (DatesInv), that a settled one is known as settled (KnownInv), and that an unsettled one is awaited (AwaitedInv).

The attempt to prove the last two showed that they had been stated wrongly: after a crash, a blind start and
another crash a settled e-mail is known from the alert's row alone, and an e-mail whose record failed is rightly sent again. Two
faults and two attempts had hidden both; the properties now speak of what is recorded with the alert (`told`, `reported`), and the instance has
the three faults and three attempts that would show it.

Seen: a web process that cannot read the heartbeat says the worker is not alive (`routes/health.js:223`), which `evaluate` takes for `worker_down`
though `conditions.js:30-34` says that an unknown is never reported; an e-mail sent while the database is down is not recorded and is sent
again by a restarted watchdog; `init` forgets unsettled e-mails when its second query fails
(the `half` exception of OpeningsMailed); after a start whose first query fails an alert that was mailed is mailed again (the exception in NotTwice); after a lost answer of openAlert or recordClosed one
episode can have two rows.
None of these has a run of its own.

## 11. TextRetention

Posts with an `age`, a `text` and what is made of it (`vectors`, `items`, `labels`). Transactions take PostgreSQL row locks one at
a time, in the order of the statements, hold them to their end, and show their effects when they commit.

| Code | Actions |
|---|---|
| `blankExpired`, `removeTextBatch` | StartRetention, PickBatch, CommitBatch |
| `blankPosts`; `removeTextOnRequest` | StartRecheck, CommitRecheck; StartErasure, CommitErasure |
| `compactMonth`; `purgeDemoBatch` | StartCompaction, CommitCompaction; StartPurge, CommitPurge |
| `embedPost`, `saveEmbeddingIfTextStored` | StartEmbed, SaveEmbedding |
| `gold/store.js`, migration 070 | StartSample, CommitSample, ShowText, RecordLabel, StartImport, CommitImport |
| PostgreSQL, time | LockNext, Abort, GrowOld |

* **NothingOutlivesText**: a post without text has no gold item and no label; nor an embedding if platform terms or an
  erasure removed its text, it was purged, or its month is compacted.
* **RunIsThorough**: a retention run that ends well has removed the text of every post past its window when it began,
  except of those another transaction had locked meanwhile (`SKIP LOCKED`).
* **OrderedLocks**: the transactions that remove text and the sampler never wait on each other in a circle. Excepted
  are the import of proposed labels, which locks gold items in the order of its file, and compaction, whose
  transaction holds one ordered batch per source after another: `retention.js:108-111` promises the order per batch.

Instance: two posts under platform terms, one under none, one demo post; batches of one; two transactions begun and one aborted; an embed job and a
labelling of the first post. Two transactions are what a circle needs; three would be needed for a longer
one, which an order of rows excludes with the short ones.
All three and the types (**TextRetentionTyped**) are proved in TextRetentionProofs, for any posts, sources, batch sizes, and numbers of transactions and aborts:

* **NothingOutlivesItsText**: TextInv adds that only the purge works on demo posts, that compaction has in hand every real post of
  its month that still has its text, and that a month once compacted has no other.
* **LocksAreOrdered**: LockInv says that a row is held by one transaction or by several that share it (Exclusive), and that what a
  transaction has locked and has still to lock is in order: posts by id, then items, an item only with its post (InOrder). Then a
  wait for an item is impossible, since both would hold its post, and whoever waits for a post waits for one whose holder waits for a later one;
  four writers do not have five such posts.
* **RunsAreThorough**: RunInv says that what a run has still to deal with (Due) is of a source it has still to visit, and in the batch under
  way if that is a short one. ShortBatch is where `LIMIT` is reasoned about: a batch smaller than the limit has all that was free.
* **TextRetentionTyped**: what compaction locks is `FlattenSeq` of its batches, a recursive function; that it is a sequence of rows (FlattenTyped)
  is shown by its least counterexample, since induction itself is out of the provers' reach.

`IdOrders(S)`, the enumerations of S in the order of the ids, stands for `ORDER BY rp.id`. Nothing is said of the order in which
compaction locks: its batches follow one another.

## 12. StoryPage

The page: `story.js` polls the city snapshot, builds the cards and hands the snapshot to the explore
panels of `ui.js`; the reader scrolls, picks cities and opens receipts; each of those sends requests whose answers
come in whenever they do. JavaScript runs one callback at a time, so a step is one callback with the listeners of
the events it dispatches. Of a post, a series or a receipt only its origin is kept: the API, or the demo data bundled with
the page.

| Code | Actions |
|---|---|
| `loadAndRender`, `loadThemes`, `loadFeaturedPosts` | StartLoad, CitiesArrive (with `onCitiesData`), BlockSettles |
| `enterExplore`, `exitExplore`, `drill`, `selectCity` | EnterExplore, ExitExplore, Drill, SelectCity |
| `loadCityPosts`, `loadTimeseries`: the answers | PostsArrive, SeriesArrives |
| `openAudit`, `closeAudit` | OpenAudit, ReceiptArrives, CloseAudit |
| time | SeriesAges (`REFRESH_MS`) |

* **PageHonest**: a page that fell back to the bundled data shows no post of the API; a page with the API's data shows
  bundled posts only under an apology, and an invented series only while the real one is awaited; no receipt of a live
  post is made up, and the API is never asked for the receipt of a bundled one.
* **SelectionAgrees**: story, panels and globe have the same selected city, it is in the snapshot, its panel is
  open, and a drill chip's city does not wait while the panels are open.

What keeps PageHonest is that `renderDetail` gives every panel an element of its own for its posts: an answer to an earlier panel
writes into one that is off the page. The mutant that leaves the panel as it is when a snapshot arrives breaks it.
Instance: two loads, two clicks, four answers of the snapshot (one city or two, of the API or bundled), so that a mode change and
a vanished city meet a request in flight, and so does a second selection; more clicks are the theorems'.
Both and the types (**PageTyped**) are proved in ReadSideProofs, for any cities, any answers but those of the mode the page starts in, which no answer has, and any number of
loads and clicks: **PageIsHonest** and **SelectionsAgree**. RequestsInv says that a request whose answer can still be drawn was made under the
snapshot on the page, and that this snapshot is no fallback. The type of the requests under way needs a count of
what was begun: every panel, poll and click is one of the bounded loads and clicks (DrawsLeft, PageBounds).

Seen: `openAudit` does not check whose receipt is open when an answer comes in (`ui.js:1900-1910`), so a late answer
replaces the receipt that was opened after it; the fallback goes on drawing a series that was fetched before (`ui.js:2367-2372`), and after
a recovery the invented series stays until the real one settles; the globe's shares of the selected city are those of the
snapshot it was selected in; no request has a timeout, so a load that never settles ends the polling (`story.js:942`).
None of these has a run of its own. Left out: cards, colours, the globe, the health drawer, focus, the theme
rows, the parsing of answers.

## 13. Maintenance

The `daily` task of the maintenance queue: four steps in order, each on its own, and the record that `/api/health` reads. Two
jobs at once: two worker processes, or a stalled job that is handed out again. A row of `source_runs` is its day, its source and the
number of items it dropped, which older rows do not have.

| Code | Actions |
|---|---|
| `processMaintenanceJob`, `recordMaintenanceRun` | Begin, OtherStep, StepFails, RecordRun, RecordFails, JobDone |
| `rollupSourceRuns` | PickRows, WriteDay, CommitRollup |
| `runBiasWindow` | OpenWindow, Assess, RaiseAlert, CompleteWindow |
| PostgreSQL, time, processes | DaysDeadlock, RowAges, MtCrash |

* **MaintenanceKept**: RunsConserved, every row of `source_runs` is there or is counted once in its day, and
  a day has a dropped count exactly when one of its rows had one; OkIsEarned, a rollup that did not fail left behind only what
  another job had locked, and a completed job has a completed window with an alert for each violation; and what is recorded as the last success is
  the report of a run whose rollup left nothing it could take and whose window is so completed, also when its process dies between the
  record and the end of the job, and the job is run again.

Instance: two jobs, four rows on two days, batches of two, one row that passes the raw window while the jobs run, one fault, and one of the
three checks of the window (they are the same statements). Two days and batches of two are what two transactions need to
wait for each other in a circle.
Proved (MaintenanceProofs), for any jobs, rows, days, batch sizes, checks and faults: **MaintenanceIsKept**, and the types (**MaintenanceTyped**).
RollupInv says that a transaction under way has rows that are there and that no other has, and that a batch
shorter than the limit missed nothing; DoneInv says step by step what a job has behind it. The sum of a day is the number of the items
its rows dropped, a cardinality, so that what two sets of rows add up to follows from their being disjoint (DayAdds) without an induction.

Seen: a crash leaves the window's row 'running' for ever (the stale-job sweep knows `processing_jobs` only); a decision that commits
after the window's end was read with an earlier time is in neither window's count of posts; `record` is not guarded, so a run whose
record fails is not recorded at all; the upsert of `rollupSourceRuns` writes days in no stated order, so two rollups may deadlock:
one of them is aborted and the next day does its work.
Left out: compaction (section 11), the expiry of rule counts, the terms snapshots, the statistics of the checks; the `retention` task is in
sections 3 and 11.

## 14. Bounds and fairness of these runs

The bounds of sections 5 to 13 are the `Last*`, `*Max*`, `*Left`, `MtYoung` constants of `Components.cfg`, one per counter; every one
is in the guard of the action that counts. `CHECK_DEADLOCK FALSE`: polls, ticks, units and offers run out, and then nothing has
to happen. No fairness is assumed in these modules and no liveness is claimed: the promises of these parts are
safety properties (what may be sent, stored, closed or forgotten), and what must happen in the end is a timer's next tick,
which a bounded clock cannot show. Liveness is checked where it is the question: jobs and posts
(section 3), refusals and alerts (section 4).

Each property has a mutant in `PROJECT.json`: a definition of the module replaced by a plausible bug, under which TLC
finds the property violated.

## 15. Not modelled

* The scores themselves, relevance, correlation, methodology, agreement, sampling strata: numeric functions of data without shared state.
* Parsing of provider formats, normalisation, redaction, provenance.
* Read API, web server: read-only queries. Frontend: rendering, the globe, the health drawer (section 12 has the rest).
* Migrations, one-off scripts, the embeddings service: run by hand or stateless.
* Liveness under fairness, ENABLED and inductions over data are not within the proof system's reach; liveness is
  model-checked, and no module with a theorem has a recursive operator.
