------------------------- MODULE CycleSlotsProofs --------------------------
(***************************************************************************)
(* Theorems about CollectionCycle, for every number of workers, posts,     *)
(* requests and rows. The first part is about any kinds and number of      *)
(* faults: types, the life of a job, the checks. The second is about the   *)
(* reserved slots and what the bias checks of a job read; the hypotheses   *)
(* there name the kinds of fault under which the statement is false of the *)
(* code.                                                                   *)
(***************************************************************************)
EXTENDS CollectionCycle, FiniteSetTheorems, TLAPS

(* What the program counters say about the job and the post a process      *)
(* works on: the strengthening that makes the type invariant inductive.    *)
RunReady(r) ==
    /\ runPc[r] = "idle" => runJob[r] = NoJob
    /\ runPc[r] # "idle" /\ r \in RefreshRuns => runJob[r] \in Jobs
    /\ runPc[r] \in {"reserve", "enqueue", "unreserve", "score", "counting", "looking", "checking",
                     "completing", "failing", "leaving"} => runJob[r] \in Jobs
    /\ runPc[r] \in {"join", "reserve", "enqueue", "unreserve", "score"} => runPost[r] \in Posts

TaskReady(p) ==
    /\ taskPc[p] \in {"scoreOwn", "release", "releaseRemoved", "releaseClosed"} => taskJob[p] \in Jobs
    /\ taskPc[p] \in {"scoreTarget", "leave", "leaveFailed", "leaveRemoved"} => target[p] \in Jobs

CloserReady(c) == closerPc[c] # "idle" => claimed[c] # {}

RequestReady(q) == reqPc[q] \in {"enqueue", "fail"} => reqJob[q] \in Jobs

RunsInv == RunsOK /\ \A r \in Runs : RunReady(r)
TasksInv == TasksOK /\ \A p \in Posts : TaskReady(p)
ClosersInv == ClosersOK /\ \A c \in Closers : CloserReady(c)
RequestsInv == RequestsOK /\ \A q \in Requests : RequestReady(q)
LeftInv == left \in 0 .. MaxFaults

TypeInv == JobsOK /\ PostsOK /\ RunsInv /\ TasksInv /\ ClosersInv /\ RequestsInv /\ LeftInv

\* A part of the state that does not change keeps its part of the invariant.
LEMMA Frame ==
    ASSUME TypeInv
    PROVE  /\ UNCHANGED jobVars => JobsOK'
           /\ UNCHANGED postVars => PostsOK'
           /\ UNCHANGED runVars => RunsInv'
           /\ UNCHANGED taskVars => TasksInv'
           /\ UNCHANGED closerVars => ClosersInv'
           /\ UNCHANGED reqVars => RequestsInv'
           /\ UNCHANGED left => LeftInv'
<1>1. UNCHANGED jobVars => JobsOK'
  BY DEF TypeInv, JobsOK, jobVars
<1>2. UNCHANGED postVars => PostsOK'
  BY DEF TypeInv, PostsOK, postVars, scoreVars
<1>3. UNCHANGED runVars => RunsInv'
  BY DEF TypeInv, RunsInv, RunsOK, RunReady, runVars
<1>4. UNCHANGED taskVars => TasksInv'
  BY DEF TypeInv, TasksInv, TasksOK, TaskReady, taskVars
<1>5. UNCHANGED closerVars => ClosersInv'
  BY DEF TypeInv, ClosersInv, ClosersOK, CloserReady, closerVars
<1>6. UNCHANGED reqVars => RequestsInv'
  BY DEF TypeInv, RequestsInv, RequestsOK, RequestReady, reqVars
<1>7. UNCHANGED left => LeftInv'
  BY DEF TypeInv, LeftInv
<1> QED BY <1>1, <1>2, <1>3, <1>4, <1>5, <1>6, <1>7

-----------------------------------------------------------------------------
\* The updates the actions share keep the parts they write well-typed.
\* Joining a job or taking a slot.
LEMMA AcquireTyped ==
    ASSUME JobsOK, NEW j, Acquire(j)
    PROVE  inflight' \in [Jobs -> Nat]
<1>1. CASE j \in Jobs
  <2>1. inflight[j] + 1 \in Nat
    BY <1>1 DEF JobsOK
  <2> QED BY <2>1, <1>1 DEF JobsOK, Acquire
<1>2. CASE j \notin Jobs
  BY <1>2 DEF JobsOK, Acquire
<1> QED BY <1>1, <1>2

\* Giving a slot back never makes the counter negative.
LEMMA ReleaseTyped ==
    ASSUME JobsOK, NEW j, Release(j)
    PROVE  inflight' \in [Jobs -> Nat]
<1>1. DEFINE n == IF inflight[j] > 0 THEN inflight[j] - 1 ELSE 0
<1>2. CASE j \in Jobs
  <2>1. n \in Nat
    BY <1>2 DEF JobsOK
  <2> QED BY <2>1, <1>2 DEF JobsOK, Release
<1>3. CASE j \notin Jobs
  BY <1>3 DEF JobsOK, Release
<1> QED BY <1>2, <1>3

\* A new row is one of the table's.
LEMMA InsertTyped ==
    ASSUME JobsOK, NEW t \in Triggers, NEW n \in Nat, InsertJob(t, n)
    PROVE  /\ rows + 1 \in Jobs
           /\ rows' \in 0 .. MaxJobs
           /\ status' \in [Jobs -> Statuses]
           /\ trigger' \in [Jobs -> Triggers]
           /\ inflight' \in [Jobs -> Nat]
<1>1. rows + 1 \in Jobs /\ rows' \in 0 .. MaxJobs
  BY JobsAssumption DEF JobsOK, InsertJob, Jobs
<1>2. status' \in [Jobs -> Statuses]
  BY <1>1 DEF JobsOK, InsertJob, Statuses
<1>3. trigger' \in [Jobs -> Triggers] /\ inflight' \in [Jobs -> Nat]
  BY <1>1 DEF JobsOK, InsertJob
<1> QED BY <1>1, <1>2, <1>3

\* The shared cycle is a row of the table, joined or new.
LEMMA CurrentCycleTyped ==
    ASSUME JobsOK, NEW j, CurrentCycleJob(j)
    PROVE  /\ j \in Jobs
           /\ rows' \in 0 .. MaxJobs
           /\ status' \in [Jobs -> Statuses]
           /\ trigger' \in [Jobs -> Triggers]
           /\ inflight' \in [Jobs -> Nat]
<1>1. CASE OpenCycles # {}
  <2>1. j \in Jobs /\ UNCHANGED <<rows, status, trigger>>
    BY <1>1 DEF CurrentCycleJob, OpenCycles
  <2>2. inflight' \in [Jobs -> Nat]
    BY <1>1, AcquireTyped DEF CurrentCycleJob
  <2> QED BY <2>1, <2>2 DEF JobsOK
<1>2. CASE OpenCycles = {}
  <2>1. j = rows + 1 /\ InsertJob("cron", 1)
    BY <1>2 DEF CurrentCycleJob
  <2>2. "cron" \in Triggers /\ 1 \in Nat
    BY DEF Triggers
  <2> QED BY <2>1, <2>2, InsertTyped
<1> QED BY <1>1, <1>2

\* A status update keeps the column typed.
LEMMA SetStatusTyped ==
    ASSUME JobsOK, NEW j, NEW s \in Statuses, SetStatus(j, s)
    PROVE  status' \in [Jobs -> Statuses]
BY DEF JobsOK, SetStatus

\* Bias checks read posts, and are counted.
LEMMA ChecksTyped ==
    ASSUME JobsOK, NEW j, RunBiasChecks(j)
    PROVE  checked' \in [Jobs -> SUBSET Posts] /\ checks' \in [Jobs -> 0 .. 2]
<1>1. Sample(j) \subseteq Posts
  BY DEF Sample
<1>2. checked' \in [Jobs -> SUBSET Posts]
  BY <1>1 DEF JobsOK, RunBiasChecks
<1>3. checks' \in [Jobs -> 0 .. 2]
  <2>1. CASE j \in Jobs
    <3>1. (IF checks[j] < 2 THEN checks[j] + 1 ELSE 2) \in 0 .. 2
      BY <2>1 DEF JobsOK
    <3> QED BY <3>1, <2>1 DEF JobsOK, RunBiasChecks
  <2>2. CASE j \notin Jobs
    BY <2>2 DEF JobsOK, RunBiasChecks
  <2> QED BY <2>1, <2>2
<1> QED BY <1>2, <1>3

\* A stage that looked, and one that writes: they name a post, a stage, a job.
LEMMA ReadStageTyped ==
    ASSUME PostsOK, NEW p \in Posts, NEW s \in Stages, ReadStage(p, s),
           UNCHANGED <<stored, removed, results, audit, late, outlived>>
    PROVE  PostsOK'
BY DEF PostsOK, ReadStage

LEMMA SaveStageTyped ==
    ASSUME PostsOK, NEW p \in Posts, NEW s \in Stages, NEW j \in Jobs, SaveStage(p, s, j),
           UNCHANGED <<stored, removed, late, outlived>>
    PROVE  PostsOK'
<1>1. results' \in [Posts -> SUBSET Stages] /\ writing' \in [Posts -> SUBSET Stages]
  BY DEF PostsOK, SaveStage
<1>2. audit' \subseteq Posts \X Stages \X Jobs
  BY DEF PostsOK, SaveStage
<1> QED BY <1>1, <1>2 DEF PostsOK

\* A fault is taken from the budget.
LEMMA SpendTyped ==
    ASSUME LeftInv, NEW k, Spend(k)
    PROVE  LeftInv'
BY FaultsAssumption DEF LeftInv, Spend

\* The end of an attempt, with or without writes that outlive it, likewise.
LEMMA OutliveTyped ==
    ASSUME PostsOK, NEW p \in Posts, NEW j, NEW L \in SUBSET Stages, j \in Jobs \/ L = {},
           Outlive(p, j, L), UNCHANGED <<stored, removed, results, audit>>
    PROVE  PostsOK'
<1>1. {<<p, s, j>> : s \in L} \subseteq Posts \X Stages \X Jobs
  OBVIOUS
<1>2. late' \subseteq Posts \X Stages \X Jobs
  BY <1>1 DEF PostsOK, Outlive
<1>3. writing' \in [Posts -> SUBSET Stages] /\ outlived' \subseteq Posts
  BY DEF PostsOK, Outlive
<1> QED BY <1>2, <1>3 DEF PostsOK

\* Each way a scoring attempt fails.
LEMMA AttemptEndsTyped ==
    ASSUME PostsOK, LeftInv, NEW p \in Posts, NEW j \in Jobs,
           UNCHANGED <<stored, removed, results, audit>>,
           \/ \E L \in SUBSET Stages : ScoringFails(p, j, L)
           \/ ScoringRefused(p, j)
    PROVE  PostsOK' /\ LeftInv'
<1>1. ASSUME NEW L \in SUBSET Stages, ScoringFails(p, j, L) PROVE PostsOK' /\ LeftInv'
  BY <1>1, OutliveTyped, SpendTyped DEF ScoringFails
<1>2. CASE ScoringRefused(p, j)
  <2>1. writing[p] \in SUBSET Stages
    BY DEF PostsOK
  <2>2. PostsOK'
    BY <1>2, <2>1, OutliveTyped DEF ScoringRefused
  <2>3. LeftInv'
    BY <1>2, SpendTyped DEF ScoringRefused, LeftInv
  <2> QED BY <2>2, <2>3
<1> QED BY <1>1, <1>2

\* A failed attempt is queued again, or its job is over.
LEMMA AttemptFailedTyped ==
    ASSUME TasksOK, NEW p \in Posts, AttemptFailed(p)
    PROVE  /\ taskPc' = [taskPc EXCEPT ![p] = "queued"] \/ taskPc' = [taskPc EXCEPT ![p] = "none"]
           /\ taskJob' = taskJob \/ taskJob' = [taskJob EXCEPT ![p] = NoJob]
           /\ tries' \in [Posts -> 0 .. MaxAttempts - 1]
           /\ hook' \in [Posts -> Jobs \cup {NoJob}]
<1>1. CASE tries[p] + 1 < MaxAttempts
  <2>1. tries[p] + 1 \in 0 .. MaxAttempts - 1
    BY <1>1, AttemptsAssumption DEF TasksOK
  <2> QED BY <2>1, <1>1 DEF TasksOK, AttemptFailed, TaskGoes
<1>2. CASE ~(tries[p] + 1 < MaxAttempts)
  <2>1. 0 \in 0 .. MaxAttempts - 1
    BY AttemptsAssumption
  <2> QED BY <2>1, <1>2 DEF TasksOK, AttemptFailed, TaskEnds, TaskGoes
<1> QED BY <1>1, <1>2

\* A collection run's steps keep every variable in its type.
LEMMA RunKeepsTypes ==
    ASSUME TypeInv, NEW r \in Runs, RunNext(r)
    PROVE  TypeInv'
<1>1. CASE StartRun(r)
  <2>1. RunsInv'
    BY <1>1, RunsAssumption DEF StartRun, RunGoes, OneShotRuns, Runs, TypeInv, RunsInv, RunsOK, RunReady, RunPcs
  <2> QED BY <2>1, <1>1, Frame DEF StartRun, TypeInv
<1>2. ASSUME NEW j \in Jobs, StartRefresh(r, j) PROVE TypeInv'
  <2>1. RunsInv'
    BY <1>2 DEF StartRefresh, RunGoes, TypeInv, RunsInv, RunsOK, RunReady, RunPcs
  <2> QED BY <2>1, <1>2, Frame DEF StartRefresh, TypeInv
<1>3. CASE BeginSource(r)
  <2>1. JobsOK'
    BY <1>3 DEF BeginSource, Beat, OneShotRuns, TypeInv, JobsOK
  <2>2. RunsInv'
    BY <1>3 DEF BeginSource, RunGoes, OneShotRuns, TypeInv, RunsInv, RunsOK, RunReady, RunPcs
  <2> QED BY <2>1, <2>2, <1>3, Frame DEF BeginSource, TypeInv
<1>4. CASE EndSource(r)
  <2>1. JobsOK'
    BY <1>4 DEF EndSource, Beat, OneShotRuns, TypeInv, JobsOK
  <2>2. RunsInv'
    BY <1>4 DEF EndSource, RunGoes, OneShotRuns, TypeInv, RunsInv, RunsOK, RunReady, RunPcs
  <2> QED BY <2>1, <2>2, <1>4, Frame DEF EndSource, TypeInv
<1>5. ASSUME NEW p \in Posts, StorePost(r, p) PROVE TypeInv'
  <2>1. PostsOK'
    BY <1>5 DEF StorePost, TypeInv, PostsOK, scoreVars
  <2>2. RunsInv'
    BY <1>5 DEF StorePost, RunGoes, QueuePc, TypeInv, RunsInv, RunsOK, RunReady, RunPcs
  <2> QED BY <2>1, <2>2, <1>5, Frame DEF StorePost, TypeInv
<1>6. ASSUME NEW j \in Jobs, EnsureJob(r, j) PROVE TypeInv'
  <2>1. JobsOK'
    BY <1>6, InsertTyped, CurrentCycleTyped DEF EnsureJob, InsertOneShot, Triggers, TypeInv, JobsOK
  <2>2. RunsInv'
    BY <1>6 DEF EnsureJob, RunGoes, QueuePc, TypeInv, RunsInv, RunsOK, RunReady, RunPcs
  <2> QED BY <2>1, <2>2, <1>6, Frame DEF EnsureJob, TypeInv
<1>7. ASSUME NEW s \in Stages, ScoreInline(r, s) PROVE TypeInv'
  <2>1. PostsOK'
    <3>1. runPost[r] \in Posts /\ runJob[r] \in Jobs
      BY <1>7 DEF ReadInline, ScoreInline, TypeInv, RunsInv, RunReady
    <3>2. SaveStage(runPost[r], s, runJob[r]) /\ UNCHANGED <<stored, removed, late, outlived>>
      BY <1>7 DEF ScoreInline
    <3> QED BY <3>1, <3>2, SaveStageTyped DEF TypeInv
  <2> QED BY <2>1, <1>7, Frame DEF ScoreInline, TypeInv
<1>22. ASSUME NEW s \in Stages, ReadInline(r, s) PROVE TypeInv'
  <2>1. runPost[r] \in Posts
    BY <1>22 DEF ReadInline, TypeInv, RunsInv, RunReady
  <2>2. PostsOK'
    BY <1>22, <2>1, ReadStageTyped DEF ReadInline, TypeInv
  <2> QED BY <2>2, <1>22, Frame DEF ReadInline, TypeInv
<1>8. CASE ScoredInline(r)
  <2>1. RunsInv'
    BY <1>8 DEF ScoredInline, RunGoes, TypeInv, RunsInv, RunsOK, RunReady, RunPcs
  <2> QED BY <2>1, <1>8, Frame DEF ScoredInline, TypeInv
<1>9. CASE FailInline(r)
  <2>1. PostsOK' /\ LeftInv'
    <3>1. runPost[r] \in Posts /\ runJob[r] \in Jobs
      BY <1>9 DEF FailInline, TypeInv, RunsInv, RunReady
    <3> QED BY <1>9, <3>1, AttemptEndsTyped DEF FailInline, TypeInv
  <2>2. RunsInv'
    BY <1>9 DEF FailInline, RunGoes, TypeInv, RunsInv, RunsOK, RunReady, RunPcs
  <2> QED BY <2>1, <2>2, <1>9, Frame DEF FailInline, TypeInv
<1>10. CASE ReserveRetry(r)
  <2>1. JobsOK'
    BY <1>10, AcquireTyped DEF ReserveRetry, TypeInv, JobsOK
  <2>2. RunsInv'
    BY <1>10 DEF ReserveRetry, RunGoes, TypeInv, RunsInv, RunsOK, RunReady, RunPcs
  <2> QED BY <2>1, <2>2, <1>10, Frame DEF ReserveRetry, TypeInv
<1>11. CASE EnqueueIngest(r)
  <2>1. RunsInv'
    BY <1>11 DEF EnqueueIngest, RunGoes, TypeInv, RunsInv, RunsOK, RunReady, RunPcs
  <2>2. TasksInv'
    <3>1. runPost[r] \in Posts /\ runJob[r] \in Jobs
      BY <1>11 DEF EnqueueIngest, TypeInv, RunsInv, RunReady
    <3>2. 0 \in 0 .. MaxAttempts - 1
      BY AttemptsAssumption
    <3> QED BY <3>1, <3>2, <1>11 DEF EnqueueIngest, TypeInv, TasksInv, TasksOK, TaskReady, TaskPcs
  <2> QED BY <2>1, <2>2, <1>11, Frame DEF EnqueueIngest, TypeInv
<1>12. CASE EnqueueFails(r)
  <2>1. RunsInv'
    BY <1>12 DEF EnqueueFails, RunGoes, TypeInv, RunsInv, RunsOK, RunReady, RunPcs
  <2>2. LeftInv'
    BY <1>12, SpendTyped DEF EnqueueFails, TypeInv, LeftInv
  <2> QED BY <2>1, <2>2, <1>12, Frame DEF EnqueueFails, TypeInv
<1>13. CASE Unreserve(r)
  <2>1. JobsOK'
    BY <1>13, ReleaseTyped DEF Unreserve, TypeInv, JobsOK
  <2>2. RunsInv'
    BY <1>13 DEF Unreserve, RunGoes, TypeInv, RunsInv, RunsOK, RunReady, RunPcs
  <2> QED BY <2>1, <2>2, <1>13, Frame DEF Unreserve, TypeInv
<1>14. CASE EndRun(r)
  <2>1. JobsOK'
    BY <1>14, SetStatusTyped DEF EndRun, Statuses, TypeInv, JobsOK
  <2>2. RunsInv'
    BY <1>14, RunsAssumption DEF EndRun, RunGoes, RunStops, OneShotRuns, Runs, TypeInv, RunsInv, RunsOK, RunReady, RunPcs
  <2> QED BY <2>1, <2>2, <1>14, Frame DEF EndRun, TypeInv
<1>15. CASE CountPosts(r)
  <2>1. RunsInv'
    BY <1>15 DEF CountPosts, RunGoes, TypeInv, RunsInv, RunsOK, RunReady, RunPcs
  <2> QED BY <2>1, <1>15, Frame DEF CountPosts, TypeInv
<1>23. CASE LookAtJob(r)
  <2>1. RunsInv'
    BY <1>23 DEF LookAtJob, RunGoes, TypeInv, RunsInv, RunsOK, RunReady, RunPcs
  <2> QED BY <2>1, <1>23, Frame DEF LookAtJob, TypeInv
<1>16. CASE CheckJob(r)
  <2>1. JobsOK'
    BY <1>16, ChecksTyped DEF CheckJob, TypeInv, JobsOK
  <2>2. RunsInv'
    BY <1>16 DEF CheckJob, RunGoes, TypeInv, RunsInv, RunsOK, RunReady, RunPcs
  <2> QED BY <2>1, <2>2, <1>16, Frame DEF CheckJob, TypeInv
<1>17. CASE CompleteJob(r)
  <2>1. JobsOK'
    BY <1>17, SetStatusTyped DEF CompleteJob, Statuses, TypeInv, JobsOK
  <2>2. RunsInv'
    BY <1>17 DEF CompleteJob, RunStops, TypeInv, RunsInv, RunsOK, RunReady, RunPcs
  <2> QED BY <2>1, <2>2, <1>17, Frame DEF CompleteJob, TypeInv
<1>18. CASE RunThrows(r)
  <2>1. RunsInv'
    BY <1>18, RunsAssumption DEF RunThrows, RunGoes, RunStops, OneShotRuns, Runs, TypeInv, RunsInv, RunsOK, RunReady, RunPcs
  <2>2. LeftInv'
    BY <1>18, SpendTyped DEF RunThrows, TypeInv, LeftInv
  <2> QED BY <2>1, <2>2, <1>18, Frame DEF RunThrows, TypeInv
<1>19. CASE FailJob(r)
  <2>1. JobsOK'
    BY <1>19, SetStatusTyped DEF FailJob, Statuses, TypeInv, JobsOK
  <2>2. RunsInv'
    BY <1>19 DEF FailJob, RunStops, TypeInv, RunsInv, RunsOK, RunReady, RunPcs
  <2> QED BY <2>1, <2>2, <1>19, Frame DEF FailJob, TypeInv
<1>20. CASE LeaveCycle(r)
  <2>1. JobsOK'
    BY <1>20, ReleaseTyped DEF LeaveCycle, TypeInv, JobsOK
  <2>2. RunsInv'
    BY <1>20 DEF LeaveCycle, RunStops, TypeInv, RunsInv, RunsOK, RunReady, RunPcs
  <2> QED BY <2>1, <2>2, <1>20, Frame DEF LeaveCycle, TypeInv
<1>21. CASE CrashRun(r)
  <2>1. RunsInv'
    BY <1>21 DEF CrashRun, RunStops, TypeInv, RunsInv, RunsOK, RunReady, RunPcs
  <2>2. LeftInv'
    BY <1>21, SpendTyped DEF CrashRun, TypeInv, LeftInv
  <2>3. PostsOK'
    <3>1. CASE runPc[r] = "score"
      <4>1. runPost[r] \in Posts /\ runJob[r] \in Jobs
        BY <3>1 DEF TypeInv, RunsInv, RunReady
      <4> QED BY <1>21, <3>1, <4>1, OutliveTyped DEF CrashRun, TypeInv
    <3>2. CASE runPc[r] # "score"
      BY <1>21, <3>2, Frame DEF CrashRun, postVars
    <3> QED BY <3>1, <3>2
  <2> QED BY <2>1, <2>2, <2>3, <1>21, Frame DEF CrashRun, TypeInv
<1> QED BY <1>1, <1>2, <1>3, <1>4, <1>5, <1>6, <1>7, <1>8, <1>9, <1>10, <1>11, <1>12, <1>13, <1>14, <1>15, <1>16, <1>17, <1>18, <1>19, <1>20, <1>21, <1>22, <1>23 DEF RunNext

\* A scoring job's steps do.
LEMMA TaskKeepsTypes ==
    ASSUME TypeInv, NEW p \in Posts, TaskNext(p)
    PROVE  TypeInv'
<1>1. CASE TakeTask(p)
  <2>1. TasksInv'
    BY <1>1 DEF TakeTask, TaskGoes, TypeInv, TasksInv, TasksOK, TaskReady, TaskPcs
  <2> QED BY <2>1, <1>1, Frame DEF TakeTask, TypeInv
<1>2. CASE ReleaseClosed(p)
  <2>1. JobsOK'
    BY <1>2, ReleaseTyped DEF ReleaseClosed, TypeInv, JobsOK
  <2>2. TasksInv'
    BY <1>2 DEF ReleaseClosed, TaskGoes, TypeInv, TasksInv, TasksOK, TaskReady, TaskPcs
  <2> QED BY <2>1, <2>2, <1>2, Frame DEF ReleaseClosed, TypeInv
<1>3. ASSUME NEW j \in Jobs, ChooseCycle(p, j) PROVE TypeInv'
  <2>1. JobsOK'
    BY <1>3, AcquireTyped, CurrentCycleTyped DEF ChooseCycle, RetryJobFor, Triggers, TypeInv, JobsOK
  <2>2. TasksInv'
    BY <1>3 DEF ChooseCycle, TaskGoes, TypeInv, TasksInv, TasksOK, TaskReady, TaskPcs
  <2> QED BY <2>1, <2>2, <1>3, Frame DEF ChooseCycle, TypeInv
<1>4. ASSUME NEW s \in Stages, ScoreStage(p, s) PROVE TypeInv'
  <2>1. PostsOK'
    <3>1. ScoreJob(p) \in Jobs
      BY <1>4 DEF ReadForScore, ScoreStage, Scoring, ScoreJob, TypeInv, TasksInv, TaskReady
    <3>2. SaveStage(p, s, ScoreJob(p)) /\ UNCHANGED <<stored, removed, late, outlived>>
      BY <1>4 DEF ScoreStage
    <3> QED BY <3>1, <3>2, SaveStageTyped DEF TypeInv
  <2> QED BY <2>1, <1>4, Frame DEF ScoreStage, TypeInv
<1>17. ASSUME NEW s \in Stages, ReadForScore(p, s) PROVE TypeInv'
  <2>1. PostsOK'
    BY <1>17, ReadStageTyped DEF ReadForScore, TypeInv
  <2> QED BY <2>1, <1>17, Frame DEF ReadForScore, TypeInv
<1>5. CASE Scored(p)
  <2>1. TasksInv'
    BY <1>5 DEF Scored, TaskGoes, Scoring, TypeInv, TasksInv, TasksOK, TaskReady, TaskPcs
  <2> QED BY <2>1, <1>5, Frame DEF Scored, TypeInv
<1>6. CASE TextRemoved(p)
  <2>1. TasksInv'
    BY <1>6 DEF TextRemoved, TaskGoes, Scoring, TypeInv, TasksInv, TasksOK, TaskReady, TaskPcs
  <2>2. PostsOK' /\ LeftInv'
    <3>1. ScoreJob(p) \in Jobs
      BY <1>6 DEF TextRemoved, Scoring, ScoreJob, TypeInv, TasksInv, TaskReady
    <3> QED BY <1>6, <3>1, AttemptEndsTyped DEF TextRemoved, TypeInv
  <2> QED BY <2>1, <2>2, <1>6, Frame DEF TextRemoved, TypeInv
<1>7. CASE FailOwn(p)
  <2>1. PostsOK' /\ LeftInv'
    <3>1. taskJob[p] \in Jobs
      BY <1>7 DEF FailOwn, TypeInv, TasksInv, TaskReady
    <3> QED BY <1>7, <3>1, AttemptEndsTyped DEF FailOwn, TypeInv
  <2>2. TasksInv'
    BY <1>7, AttemptFailedTyped DEF FailOwn, TypeInv, TasksInv, TasksOK, TaskReady, TaskPcs
  <2> QED BY <2>1, <2>2, <1>7, Frame DEF FailOwn, TypeInv
<1>8. CASE FailTarget(p)
  <2>1. PostsOK' /\ LeftInv'
    <3>1. target[p] \in Jobs
      BY <1>8 DEF FailTarget, TypeInv, TasksInv, TaskReady
    <3> QED BY <1>8, <3>1, AttemptEndsTyped DEF FailTarget, TypeInv
  <2>2. TasksInv'
    BY <1>8 DEF FailTarget, TaskGoes, TypeInv, TasksInv, TasksOK, TaskReady, TaskPcs
  <2> QED BY <2>1, <2>2, <1>8, Frame DEF FailTarget, TypeInv
<1>9. CASE ReleaseSlot(p)
  <2>1. JobsOK'
    BY <1>9, ReleaseTyped DEF ReleaseSlot, TypeInv, JobsOK
  <2>2. TasksInv'
    BY <1>9, AttemptsAssumption DEF ReleaseSlot, TaskGoes, TaskEnds, TypeInv, TasksInv, TasksOK, TaskReady, TaskPcs
  <2> QED BY <2>1, <2>2, <1>9, Frame DEF ReleaseSlot, TypeInv
<1>10. CASE LeaveTarget(p)
  <2>1. JobsOK'
    BY <1>10, ReleaseTyped DEF LeaveTarget, TypeInv, JobsOK
  <2>2. TasksInv'
    BY <1>10, AttemptFailedTyped, AttemptsAssumption DEF LeaveTarget, TaskGoes, TaskEnds, TypeInv, TasksInv, TasksOK, TaskReady, TaskPcs
  <2> QED BY <2>1, <2>2, <1>10, Frame DEF LeaveTarget, TypeInv
<1>11. CASE EmbedIfGated(p)
  <2>1. TasksInv'
    BY <1>11, AttemptsAssumption DEF EmbedIfGated, TaskGoes, TaskEnds, TypeInv, TasksInv, TasksOK, TaskReady, TaskPcs
  <2> QED BY <2>1, <1>11, Frame DEF EmbedIfGated, TypeInv
<1>12. CASE EmbedFails(p)
  <2>1. TasksInv'
    BY <1>12, AttemptFailedTyped DEF EmbedFails, TypeInv, TasksInv, TasksOK, TaskReady, TaskPcs
  <2>2. LeftInv'
    BY <1>12, SpendTyped DEF EmbedFails, TypeInv, LeftInv
  <2> QED BY <2>1, <2>2, <1>12, Frame DEF EmbedFails, TypeInv
<1>13. CASE ReleaseFailed(p)
  <2>1. JobsOK'
    BY <1>13, ReleaseTyped DEF ReleaseFailed, TypeInv, JobsOK
  <2>2. TasksInv'
    BY <1>13 DEF ReleaseFailed, TypeInv, TasksInv, TasksOK, TaskReady, TaskPcs
  <2> QED BY <2>1, <2>2, <1>13, Frame DEF ReleaseFailed, TypeInv
<1>14. CASE CrashWorker(p)
  <2>1. TasksInv'
    BY <1>14 DEF CrashWorker, TaskGoes, TypeInv, TasksInv, TasksOK, TaskReady, TaskPcs
  <2>2. LeftInv'
    BY <1>14, SpendTyped DEF CrashWorker, TypeInv, LeftInv
  <2>3. PostsOK'
    BY <1>14, OutliveTyped DEF CrashWorker, TypeInv
  <2> QED BY <2>1, <2>2, <2>3, <1>14, Frame DEF CrashWorker, TypeInv
<1>15. CASE SweepUnscored(p)
  <2>1. TasksInv'
    BY <1>15, AttemptsAssumption DEF SweepUnscored, TaskGoes, TypeInv, TasksInv, TasksOK, TaskReady, TaskPcs
  <2> QED BY <2>1, <1>15, Frame DEF SweepUnscored, TypeInv
<1>16. CASE RemoveText(p)
  <2>1. PostsOK'
    BY <1>16 DEF RemoveText, TypeInv, PostsOK, scoreVars
  <2>2. LeftInv'
    BY <1>16, SpendTyped DEF RemoveText, TypeInv, LeftInv
  <2> QED BY <2>1, <2>2, <1>16, Frame DEF RemoveText, TypeInv
<1> QED BY <1>1, <1>2, <1>3, <1>4, <1>5, <1>6, <1>7, <1>8, <1>9, <1>10, <1>11, <1>12, <1>13, <1>14, <1>15, <1>16, <1>17 DEF TaskNext

\* The closer's steps do.
LEMMA CloserKeepsTypes ==
    ASSUME TypeInv, NEW c \in Closers, CloserNext(c)
    PROVE  TypeInv'
<1>1. CASE ClaimDueCycles(c)
  <2>1. JobsOK'
    BY <1>1 DEF ClaimDueCycles, Statuses, TypeInv, JobsOK
  <2>2. ClosersInv'
    BY <1>1 DEF ClaimDueCycles, DueJobs, CloserGoes, TypeInv, ClosersInv, ClosersOK, CloserReady, CloserPcs
  <2> QED BY <2>1, <2>2, <1>1, Frame DEF ClaimDueCycles, TypeInv
<1>2. CASE CloserCounts(c)
  <2>1. ClosersInv'
    BY <1>2 DEF CloserCounts, CloserGoes, TypeInv, ClosersInv, ClosersOK, CloserReady, CloserPcs
  <2> QED BY <2>1, <1>2, Frame DEF CloserCounts, TypeInv
<1>3. CASE CloserChecks(c)
  <2>1. JobsOK'
    BY <1>3, ChecksTyped DEF CloserChecks, TypeInv, JobsOK
  <2>2. ClosersInv'
    BY <1>3 DEF CloserChecks, CloserGoes, TypeInv, ClosersInv, ClosersOK, CloserReady, CloserPcs
  <2> QED BY <2>1, <2>2, <1>3, Frame DEF CloserChecks, TypeInv
<1>4. CASE CloserCheckFails(c)
  <2>1. ClosersInv'
    BY <1>4 DEF CloserCheckFails, CloserGoes, TypeInv, ClosersInv, ClosersOK, CloserReady, CloserPcs
  <2>2. LeftInv'
    BY <1>4, SpendTyped DEF CloserCheckFails, TypeInv, LeftInv
  <2> QED BY <2>1, <2>2, <1>4, Frame DEF CloserCheckFails, TypeInv
<1>5. CASE CloserFinishes(c)
  <2>1. JobsOK'
    BY <1>5, SetStatusTyped DEF CloserFinishes, Statuses, TypeInv, JobsOK
  <2>2. ClosersInv'
    BY <1>5 DEF CloserFinishes, CloserGoes, TypeInv, ClosersInv, ClosersOK, CloserReady, CloserPcs
  <2> QED BY <2>1, <2>2, <1>5, Frame DEF CloserFinishes, TypeInv
<1>6. CASE CrashCloser(c)
  <2>1. ClosersInv'
    BY <1>6 DEF CrashCloser, CloserGoes, TypeInv, ClosersInv, ClosersOK, CloserReady, CloserPcs
  <2>2. LeftInv'
    BY <1>6, SpendTyped DEF CrashCloser, TypeInv, LeftInv
  <2> QED BY <2>1, <2>2, <1>6, Frame DEF CrashCloser, TypeInv
<1> QED BY <1>1, <1>2, <1>3, <1>4, <1>5, <1>6 DEF CloserNext

\* A refresh request's steps do.
LEMMA RequestKeepsTypes ==
    ASSUME TypeInv, NEW q \in Requests, RequestNext(q)
    PROVE  TypeInv'
<1>1. CASE PostRefresh(q)
  <2>1. JobsOK'
    BY <1>1 DEF PostRefresh, FailStale, StaleJobs, Statuses, TypeInv, JobsOK
  <2>2. RequestsInv'
    BY <1>1 DEF PostRefresh, ReqGoes, TypeInv, RequestsInv, RequestsOK, RequestReady, ReqPcs
  <2> QED BY <2>1, <2>2, <1>1, Frame DEF PostRefresh, TypeInv
<1>2. CASE CheckRefresh(q)
  <2>1. RequestsInv'
    BY <1>2 DEF CheckRefresh, ReqGoes, TypeInv, RequestsInv, RequestsOK, RequestReady, ReqPcs
  <2> QED BY <2>1, <1>2, Frame DEF CheckRefresh, TypeInv
<1>3. CASE InsertRefresh(q)
  <2>1. JobsOK'
    BY <1>3, InsertTyped DEF InsertRefresh, Triggers, TypeInv, JobsOK
  <2>2. RequestsInv'
    <3>1. CASE RefreshRunning \/ rows + 1 >= MaxJobs
      BY <1>3, <3>1 DEF InsertRefresh, ReqGoes, TypeInv, RequestsInv, RequestsOK, RequestReady, ReqPcs
    <3>2. CASE ~(RefreshRunning \/ rows + 1 >= MaxJobs)
      <4>1. InsertJob("api", 0) /\ "api" \in Triggers /\ 0 \in Nat
        BY <1>3, <3>2 DEF InsertRefresh, Triggers
      <4>2. rows + 1 \in Jobs
        BY <4>1, InsertTyped DEF TypeInv
      <4> QED BY <4>2, <1>3, <3>2
            DEF InsertRefresh, ReqGoes, TypeInv, RequestsInv, RequestsOK, RequestReady, ReqPcs
    <3> QED BY <3>1, <3>2
  <2> QED BY <2>1, <2>2, <1>3, Frame DEF InsertRefresh, TypeInv
<1>4. CASE EnqueueRefresh(q)
  <2>1. RunsInv'
    <3>1. reqJob[q] \in Jobs
      BY <1>4 DEF EnqueueRefresh, TypeInv, RequestsInv, RequestReady
    <3> QED BY <3>1, <1>4 DEF EnqueueRefresh, TypeInv, RunsInv, RunsOK, RunReady, RunPcs
  <2>2. RequestsInv'
    BY <1>4 DEF EnqueueRefresh, ReqGoes, TypeInv, RequestsInv, RequestsOK, RequestReady, ReqPcs
  <2> QED BY <2>1, <2>2, <1>4, Frame DEF EnqueueRefresh, TypeInv
<1>5. CASE EnqueueRefreshFails(q)
  <2>1. RequestsInv'
    BY <1>5 DEF EnqueueRefreshFails, ReqGoes, TypeInv, RequestsInv, RequestsOK, RequestReady, ReqPcs
  <2>2. LeftInv'
    BY <1>5, SpendTyped DEF EnqueueRefreshFails, TypeInv, LeftInv
  <2> QED BY <2>1, <2>2, <1>5, Frame DEF EnqueueRefreshFails, TypeInv
<1>6. CASE FailRefresh(q)
  <2>1. JobsOK'
    BY <1>6, SetStatusTyped DEF FailRefresh, Statuses, TypeInv, JobsOK
  <2>2. RequestsInv'
    BY <1>6 DEF FailRefresh, ReqGoes, TypeInv, RequestsInv, RequestsOK, RequestReady, ReqPcs
  <2> QED BY <2>1, <2>2, <1>6, Frame DEF FailRefresh, TypeInv
<1> QED BY <1>1, <1>2, <1>3, <1>4, <1>5, <1>6 DEF RequestNext

\* The remaining steps: a straggling stage write, the stale sweep, time.
LEMMA OtherStepsKeepTypes ==
    ASSUME TypeInv,
           \/ \E p \in Posts, s \in Stages, j \in Jobs : LateSave(p, s, j)
           \/ SweepStaleJobs
           \/ \E j \in Jobs : Tick(j) \/ GoQuiet(j)
           \/ MinutePasses
    PROVE  TypeInv'
<1>1. ASSUME NEW p \in Posts, NEW s \in Stages, NEW j \in Jobs, LateSave(p, s, j) PROVE TypeInv'
  <2>1. results' \in [Posts -> SUBSET Stages]
    BY <1>1 DEF LateSave, TypeInv, PostsOK
  <2>2. audit' \subseteq Posts \X Stages \X Jobs
    BY <1>1 DEF LateSave, TypeInv, PostsOK
  <2>3. PostsOK'
    BY <1>1, <2>1, <2>2 DEF LateSave, TypeInv, PostsOK
  <2> QED BY <2>3, <1>1, Frame DEF LateSave, TypeInv
<1>2. CASE SweepStaleJobs
  <2>1. JobsOK'
    BY <1>2 DEF SweepStaleJobs, FailStale, Statuses, TypeInv, JobsOK
  <2> QED BY <2>1, <1>2, Frame DEF SweepStaleJobs, TypeInv
<1>3. ASSUME NEW j \in Jobs, Tick(j) PROVE TypeInv'
  <2>1. age[j] + 1 \in Ages
    BY <1>3 DEF Tick, TypeInv, JobsOK, Ages, DeadCloserAge
  <2>2. JobsOK'
    BY <2>1, <1>3 DEF Tick, TypeInv, JobsOK
  <2> QED BY <2>2, <1>3, Frame DEF Tick, TypeInv
<1>4. ASSUME NEW j \in Jobs, GoQuiet(j) PROVE TypeInv'
  <2>1. JobsOK'
    BY <1>4 DEF GoQuiet, TypeInv, JobsOK
  <2> QED BY <2>1, <1>4, Frame DEF GoQuiet, TypeInv
<1>5. CASE MinutePasses
  <2>1. RequestsInv'
    BY <1>5 DEF MinutePasses, TypeInv, RequestsInv, RequestsOK, RequestReady
  <2> QED BY <2>1, <1>5, Frame DEF MinutePasses, TypeInv
<1> QED BY <1>1, <1>2, <1>3, <1>4, <1>5

\* TypeInv holds at the start.
LEMMA TypeInvInit == Init => TypeInv
<1> SUFFICES ASSUME Init PROVE TypeInv
  OBVIOUS
<1>1. JobsOK
  BY JobsAssumption DEF Init, JobsOK, Jobs, Statuses, Triggers, Ages, DeadCloserAge
<1>2. PostsOK
  BY DEF Init, PostsOK
<1>3. RunsInv
  BY DEF Init, RunsInv, RunsOK, RunReady, RunPcs, NoJob
<1>4. TasksInv
  <2>1. 0 \in 0 .. MaxAttempts - 1
    BY AttemptsAssumption
  <2> QED BY <2>1 DEF Init, TasksInv, TasksOK, TaskReady, TaskPcs
<1>5. ClosersInv
  BY DEF Init, ClosersInv, ClosersOK, CloserReady, CloserPcs
<1>6. RequestsInv
  BY DEF Init, RequestsInv, RequestsOK, RequestReady, ReqPcs
<1>7. LeftInv
  BY FaultsAssumption DEF Init, LeftInv
<1> QED BY <1>1, <1>2, <1>3, <1>4, <1>5, <1>6, <1>7 DEF TypeInv

\* Every step keeps it.
LEMMA TypeInvStep == TypeInv /\ [Next]_vars => TypeInv'
<1> SUFFICES ASSUME TypeInv, [Next]_vars PROVE TypeInv'
  OBVIOUS
<1>1. CASE \E r \in Runs : RunNext(r)
  BY <1>1, RunKeepsTypes
<1>2. CASE \E p \in Posts : TaskNext(p)
  BY <1>2, TaskKeepsTypes
<1>3. CASE \E c \in Closers : CloserNext(c)
  BY <1>3, CloserKeepsTypes
<1>4. CASE \E q \in Requests : RequestNext(q)
  BY <1>4, RequestKeepsTypes
<1>5. CASE \/ \E p \in Posts, s \in Stages, j \in Jobs : LateSave(p, s, j)
           \/ SweepStaleJobs
           \/ \E j \in Jobs : Tick(j) \/ GoQuiet(j)
           \/ MinutePasses
  BY <1>5, OtherStepsKeepTypes
<1>6. CASE UNCHANGED vars
  BY <1>6, Frame DEF vars, TypeInv
<1> QED BY <1>1, <1>2, <1>3, <1>4, <1>5, <1>6 DEF Next

\* Type correctness of the whole system: every row, result, program counter
\* and counter stays in its range, whatever fails. The program counters never
\* point a step at a job or a post that is not there (RunReady ... RequestReady).
THEOREM TypeCorrect == Spec => []TypeOK
<1>1. TypeInv => TypeOK
  BY DEF TypeInv, TypeOK, RunsInv, TasksInv, ClosersInv, RequestsInv, LeftInv
<1> QED BY TypeInvInit, TypeInvStep, <1>1, PTL DEF Spec

---------------------------------------------------------------------------
(* The reserved slots, and what the bias checks of a job read.             *)

(* The five kinds of holder of a slot of job j, and how many there are.    *)
RunSlots(j) == {r \in Runs : RunHolds(r, j)}
ReserveSlots(j) == {r \in Runs : Reserves(r, j)}
TaskSlots(j) == {p \in Posts : TaskHolds(p, j)}
HookSlots(j) == {p \in Posts : HookHolds(p, j)}
TargetSlots(j) == {p \in Posts : TargetHolds(p, j)}

Held(j) == Cardinality(RunSlots(j)) + Cardinality(ReserveSlots(j)) + Cardinality(TaskSlots(j))
           + Cardinality(HookSlots(j)) + Cardinality(TargetSlots(j))

(* Rows are numbered as they are inserted, and nothing points at one that is
   still to come.                                                           *)
Numbered == \A j \in Jobs : status[j] = "none" <=> j > rows

RowsInv ==
    /\ Numbered
    /\ \A r \in Runs : runJob[r] <= rows
    /\ \A p \in Posts : taskJob[p] <= rows /\ target[p] <= rows /\ hook[p] <= rows
    /\ \A j \in refreshQ : j <= rows
    /\ \A q \in Requests : reqJob[q] <= rows
    /\ \A c \in Closers : \A j \in claimed[c] : j <= rows

(* A run that works on a post is the only one, and the post has no scoring
   job yet.                                                                 *)
PostsInv ==
    /\ \A r \in Runs : runPost[r] # NoPost =>
          runPost[r] \in stored /\ taskPc[runPost[r]] = "none" /\ hook[runPost[r]] = NoJob
    /\ \A r, s \in Runs : runPost[r] = runPost[s] /\ runPost[r] # NoPost => r = s
    /\ \A p \in Posts \ stored : taskPc[p] = "none" /\ hook[p] = NoJob

(* What the step of a scoring job says about the slots it may hold.         *)
Joined == {"scoreTarget", "leave", "leaveFailed", "leaveRemoved"}

TaskInv(p) ==
    /\ taskPc[p] = "none" => taskJob[p] = NoJob
    /\ target[p] # NoJob => taskPc[p] \in Joined /\ trigger[target[p]] = "cron"
    /\ taskPc[p] \in Joined \cup {"releaseClosed", "choose"} =>
          taskJob[p] = NoJob \/ status[taskJob[p]] \notin Open
    /\ hook[p] # NoJob => taskJob[p] = NoJob

(* What the step of a collection run says about its kind and its job.       *)
RunInv(r) ==
    /\ r \in CycleRuns => runPc[r] \in {"idle", "source", "join", "reserve", "enqueue",
                                        "unreserve", "ending", "leaving"}
    /\ r \in CycleRuns /\ runJob[r] # NoJob => trigger[runJob[r]] = "cron"
    /\ runPc[r] = "leaving" => r \in CycleRuns
    /\ runPc[r] = "join" => runJob[r] = NoJob
    /\ runPc[r] = "score" => r \in ManualRuns

(* The slots of an open job cover its holders, and without a dying run they
   are exactly its holders.                                                 *)
Balanced(j) ==
    /\ Held(j) <= inflight[j]
    /\ "runCrash" \notin Faults => Held(j) = inflight[j]

SlotsInv ==
    /\ RowsInv /\ PostsInv
    /\ \A p \in Posts : TaskInv(p)
    /\ \A r \in Runs : RunInv(r)
    /\ \A j \in Jobs : status[j] \in Open => Balanced(j)

(* A one-shot job is in one hand: the request that inserted it, the queue, or
   the run.                                                                 *)
OneShotOwned(j) ==
    \/ \E r \in OneShotRuns : runJob[r] = j
    \/ j \in refreshQ
    \/ \E q \in Requests : reqJob[q] = j

OwnedInv ==
    /\ \A j \in Jobs : OneShotOwned(j) =>
          /\ trigger[j] # "cron" /\ status[j] \in {"running", "failed"}
          /\ \A c \in Closers : j \notin claimed[c]
    /\ \A r, s \in OneShotRuns : runJob[r] = runJob[s] /\ runJob[r] # NoJob => r = s
    /\ \A r \in OneShotRuns : runJob[r] \notin refreshQ
    /\ \A r \in OneShotRuns, q \in Requests : reqJob[q] = runJob[r] => runJob[r] = NoJob
    /\ \A q \in Requests : reqJob[q] \notin refreshQ
    /\ \A q, u \in Requests : reqJob[q] = reqJob[u] /\ reqJob[q] # NoJob => q = u

(* Nobody can decide a post under job j: no run, and no scoring attempt, has
   it as its job.                                                           *)
TaskTied(p, j) == taskJob[p] = j /\ taskPc[p] # "embed"

NoHolders(j) ==
    /\ \A r \in Runs : ~RunHolds(r, j) /\ ~Reserves(r, j)
    /\ \A p \in Posts : ~TaskTied(p, j) /\ hook[p] # j /\ target[p] # j

(* A job is closed to new posts once a closer claimed it without the hard cap,
   or its own run has begun to finalize it; then nobody holds it.           *)
Sealed(j) ==
    /\ ~forced[j]
    /\ status[j] \in {"closing", "completed"} \/ \E c \in Closers : j \in claimed[c]

Settling(j) ==
    /\ status[j] = "running"
    /\ \E r \in OneShotRuns : runJob[r] = j /\ runPc[r] \in {"counting", "looking", "checking", "completing"}

Closed(j) == Sealed(j) \/ Settling(j)

SealInv == \A j \in Jobs : Closed(j) => NoHolders(j)

(* What a closer claimed is not open again while it works on it.            *)
ClaimedInv == \A c \in Closers : \A j \in claimed[c] : status[j] \in {"closing", "completed", "failed"}

(* The checks read posts of the sample, all of them from the moment the job is
   about to be completed.                                                   *)
CheckedInv ==
    /\ \A j \in Jobs : checked[j] \subseteq Sample(j)
    /\ \A j \in Jobs : status[j] = "completed" /\ ~forced[j] => checked[j] = Sample(j)
    /\ \A r \in OneShotRuns : runPc[r] = "completing" /\ status[runJob[r]] = "running" =>
          checked[runJob[r]] = Sample(runJob[r])
    /\ \A c \in Closers : closerPc[c] = "completing" /\ ~forced[Current(c)] =>
          checked[Current(c)] = Sample(Current(c))

(* No write outlives its attempt, and no attempt finds a result it had not
   seen.                                                                    *)
NothingLate == late = {} /\ \A p \in Posts : writing[p] \cap results[p] = {}

SampleInv == NothingLate /\ OwnedInv /\ SealInv /\ ClaimedInv /\ CheckedInv

(* Nobody else takes what a closer has claimed, and its checks are run before
   it leaves its last steps.                                                *)
ClosingInv == \A c \in Closers : \A j \in claimed[c] : status[j] = "closing"

(* A row is finalized once it is settled or the one who will settle it, its run
   or the closer that claimed it, is at its last step; the checks of a job have
   run only if it is.                                                       *)
LastSteps == {"completing", "failing"}

Finalized(j) ==
    \/ status[j] \in Terminal
    \/ \E r \in OneShotRuns : runJob[r] = j /\ runPc[r] \in LastSteps
    \/ \E c \in Closers : j \in claimed[c] /\ j = Current(c) /\ closerPc[c] \in LastSteps

OnceInv ==
    /\ \A j \in Jobs : checks[j] <= 1 /\ (checks[j] # 0 => Finalized(j))
    /\ \A r \in OneShotRuns : runJob[r] # NoJob /\ runPc[r] \notin LastSteps => checks[runJob[r]] = 0
\* Tagging the elements of a set does not change its size.
LEMMA TaggedSize ==
    ASSUME NEW t, NEW S, IsFiniteSet(S)
    PROVE  IsFiniteSet({t} \X S) /\ Cardinality({t} \X S) = Cardinality(S)
<1>1. IsFiniteSet({t}) /\ Cardinality({t}) = 1
  BY FS_Singleton, Zenon
<1>2. IsFiniteSet({t} \X S) /\ Cardinality({t} \X S) = Cardinality({t}) * Cardinality(S)
  BY <1>1, FS_Product
<1>3. Cardinality(S) \in Nat
  BY FS_CardinalityType
<1> QED BY <1>1, <1>2, <1>3

\* Nothing is in both of two disjoint sets that are counted together.
LEMMA DisjointSize ==
    ASSUME NEW S, NEW T, IsFiniteSet(S), IsFiniteSet(T), S \cap T = {}
    PROVE  IsFiniteSet(S \cup T) /\ Cardinality(S \cup T) = Cardinality(S) + Cardinality(T)
<1>1. /\ IsFiniteSet(S \cup T)
      /\ Cardinality(S \cup T) = Cardinality(S) + Cardinality(T) - Cardinality(S \cap T)
  BY FS_Union
<1>2. Cardinality(S \cap T) = 0
  BY FS_EmptySet
<1>3. Cardinality(S) \in Nat /\ Cardinality(T) \in Nat
  BY FS_CardinalityType
<1> QED BY <1>1, <1>2, <1>3

\* The kinds of holder are finite sets, for runs and posts are.
LEMMA SlotsFinite ==
    ASSUME NEW j
    PROVE  /\ IsFiniteSet(RunSlots(j)) /\ IsFiniteSet(ReserveSlots(j)) /\ IsFiniteSet(TaskSlots(j))
           /\ IsFiniteSet(HookSlots(j)) /\ IsFiniteSet(TargetSlots(j))
<1>1. IsFiniteSet(Runs) /\ IsFiniteSet(Posts)
  BY RunsAssumption, PostsAssumption
<1>2. RunSlots(j) \in SUBSET Runs /\ ReserveSlots(j) \in SUBSET Runs
  BY DEF RunSlots, ReserveSlots
<1>3. TaskSlots(j) \in SUBSET Posts /\ HookSlots(j) \in SUBSET Posts /\ TargetSlots(j) \in SUBSET Posts
  BY DEF TaskSlots, HookSlots, TargetSlots
<1> QED BY <1>1, <1>2, <1>3, FS_Subset

\* The holders of a slot, counted kind by kind.
LEMMA HoldersCount ==
    ASSUME NEW j
    PROVE  Cardinality(Holders(j)) = Held(j) /\ Held(j) \in Nat
<1> DEFINE A == {"run"} \X RunSlots(j)
           B == {"reserve"} \X ReserveSlots(j)
           C == {"task"} \X TaskSlots(j)
           D == {"hook"} \X HookSlots(j)
           E == {"target"} \X TargetSlots(j)
<1>1. /\ IsFiniteSet(A) /\ Cardinality(A) = Cardinality(RunSlots(j))
      /\ IsFiniteSet(B) /\ Cardinality(B) = Cardinality(ReserveSlots(j))
      /\ IsFiniteSet(C) /\ Cardinality(C) = Cardinality(TaskSlots(j))
      /\ IsFiniteSet(D) /\ Cardinality(D) = Cardinality(HookSlots(j))
      /\ IsFiniteSet(E) /\ Cardinality(E) = Cardinality(TargetSlots(j))
  BY SlotsFinite, TaggedSize
<1>2. /\ A \cap B = {} /\ (A \cup B) \cap C = {} /\ (A \cup B \cup C) \cap D = {}
      /\ (A \cup B \cup C \cup D) \cap E = {}
  OBVIOUS
<1> HIDE DEF A, B, C, D, E
<1>3. IsFiniteSet(A \cup B) /\ Cardinality(A \cup B) = Cardinality(A) + Cardinality(B)
  BY <1>1, <1>2, DisjointSize
<1>4. /\ IsFiniteSet(A \cup B \cup C)
      /\ Cardinality(A \cup B \cup C) = Cardinality(A \cup B) + Cardinality(C)
  BY <1>1, <1>2, <1>3, DisjointSize
<1>5. /\ IsFiniteSet(A \cup B \cup C \cup D)
      /\ Cardinality(A \cup B \cup C \cup D) = Cardinality(A \cup B \cup C) + Cardinality(D)
  BY <1>1, <1>2, <1>4, DisjointSize
<1>6. Cardinality(A \cup B \cup C \cup D \cup E) = Cardinality(A \cup B \cup C \cup D) + Cardinality(E)
  BY <1>1, <1>2, <1>5, DisjointSize
<1>7. Holders(j) = A \cup B \cup C \cup D \cup E
  BY Zenon DEF Holders, RunSlots, ReserveSlots, TaskSlots, HookSlots, TargetSlots, A, B, C, D, E
<1>8. /\ Cardinality(A) \in Nat /\ Cardinality(B) \in Nat /\ Cardinality(C) \in Nat
      /\ Cardinality(D) \in Nat /\ Cardinality(E) \in Nat
  BY <1>1, FS_CardinalityType
<1> QED BY <1>1, <1>3, <1>4, <1>5, <1>6, <1>7, <1>8 DEF Held

\* Every count is a natural number.
LEMMA CountsNat ==
    ASSUME NEW j
    PROVE  /\ Cardinality(RunSlots(j)) \in Nat /\ Cardinality(ReserveSlots(j)) \in Nat
           /\ Cardinality(TaskSlots(j)) \in Nat /\ Cardinality(HookSlots(j)) \in Nat
           /\ Cardinality(TargetSlots(j)) \in Nat
BY SlotsFinite, FS_CardinalityType

-----------------------------------------------------------------------------
\* A set of jobs has an oldest: claimDueCycles' jobs are closed in that order.
LEMMA OldestJob ==
    ASSUME NEW S \in SUBSET Jobs, S # {}
    PROVE  \E j \in S : \A k \in S : j <= k
<1> DEFINE Upto(j) == {k \in S : k <= j}
           T == {Upto(j) : j \in S}
<1>1. IsFiniteSet(Jobs)
  BY JobsAssumption, FS_Interval DEF Jobs
<1>2. T \subseteq FiniteSubsetsOf(Jobs)
  BY <1>1, FS_FiniteSubsetsOfFinite
<1>3. IsWellFoundedOn(StrictSubsetOrdering(Jobs), FiniteSubsetsOf(Jobs)) /\ T # {}
  BY FS_StrictSubsetOrderingWellFounded
<1>4. PICK U \in T : \A V \in T : ~(<<V, U>> \in StrictSubsetOrdering(Jobs))
  BY <1>2, <1>3, WFMin
<1>5. PICK j \in S : U = Upto(j)
  BY <1>4
<1>6. ASSUME NEW k \in S, k < j PROVE FALSE
  <2>0. j \in Int /\ k \in Int /\ \A i \in S : i \in Int
    BY JobsAssumption DEF Jobs
  <2>1. Upto(k) \subseteq Upto(j)
    <3>1. ASSUME NEW i \in S, i <= k PROVE i <= j
      <4>1. i \in Int
        BY <2>0
      <4> QED BY <1>6, <2>0, <3>1, <4>1
    <3> QED BY <3>1
  <2>3. j \in Upto(j) /\ j \notin Upto(k)
    BY <1>6, <2>0
  <2>4. Upto(k) \in T
    OBVIOUS
  <2>2. Upto(k) # Upto(j) /\ Upto(k) \in SUBSET Jobs /\ Upto(j) \in SUBSET Jobs
    BY <2>3
  <2>5. <<Upto(k), U>> \in StrictSubsetOrdering(Jobs)
    BY <1>5, <2>1, <2>2 DEF StrictSubsetOrdering
  <2> QED BY <1>4, <2>4, <2>5
<1> QED BY <1>6 DEF Jobs

\* A closer at work is closing one of the jobs it claimed.
LEMMA CurrentClaimed ==
    ASSUME TypeInv, NEW c \in Closers, closerPc[c] # "idle"
    PROVE  Current(c) \in claimed[c] /\ Current(c) \in Jobs
<1>1. claimed[c] \in SUBSET Jobs /\ claimed[c] # {}
  BY DEF TypeInv, ClosersInv, ClosersOK, CloserReady
<1>2. \E j \in claimed[c] : \A k \in claimed[c] : j <= k
  BY <1>1, OldestJob
<1> QED BY <1>1, <1>2 DEF Current

-----------------------------------------------------------------------------
(* Rows: nothing points at a row that is still to come.                     *)
\* A row gets another status: it stays inserted.
LEMMA SetStatusNumbered ==
    ASSUME TypeInv, Numbered, NEW j \in Jobs, j <= rows, NEW s, s # "none", SetStatus(j, s),
           UNCHANGED rows
    PROVE  Numbered'
BY DEF Numbered, SetStatus, TypeInv, JobsOK, Jobs

\* So do the rows the stale sweep fails.
LEMMA FailStaleNumbered ==
    ASSUME TypeInv, Numbered, NEW ts, FailStale(ts), UNCHANGED rows
    PROVE  Numbered'
BY DEF Numbered, FailStale, StaleJobs, TypeInv, JobsOK, Jobs

\* An inserted row is the next one.
LEMMA InsertNumbered ==
    ASSUME TypeInv, Numbered, NEW t, NEW n, InsertJob(t, n)
    PROVE  Numbered' /\ rows' = rows + 1
BY DEF Numbered, InsertJob, TypeInv, JobsOK, Jobs

\* A run or retry that asks for the current cycle gets an inserted row.
LEMMA CurrentCycleNumbered ==
    ASSUME TypeInv, Numbered, NEW j \in Jobs, CurrentCycleJob(j)
    PROVE  Numbered' /\ j <= rows' /\ rows <= rows'
<1>0. rows \in Nat
  BY DEF TypeInv, JobsOK
<1>1. CASE OpenCycles # {}
  BY <1>0, <1>1 DEF CurrentCycleJob, Numbered, OpenCycles, Jobs
<1>2. CASE OpenCycles = {}
  BY <1>0, <1>2, InsertNumbered DEF CurrentCycleJob
<1> QED BY <1>1, <1>2

\* What was inserted stays inserted.
LEMMA RowsGrow ==
    ASSUME TypeInv, RowsInv, rows' \in Nat, rows <= rows'
    PROVE  /\ \A r \in Runs : runJob[r] <= rows'
           /\ \A p \in Posts : taskJob[p] <= rows' /\ target[p] <= rows' /\ hook[p] <= rows'
           /\ \A j \in refreshQ : j <= rows'
           /\ \A q \in Requests : reqJob[q] <= rows'
           /\ \A c \in Closers : \A j \in claimed[c] : j <= rows'
<1>0. \A x \in Jobs \cup {NoJob} : x <= rows => x <= rows'
  BY JobsAssumption DEF TypeInv, JobsOK, Jobs, NoJob
<1>1. \A r \in Runs : runJob[r] <= rows'
  BY <1>0 DEF TypeInv, RunsInv, RunsOK, RowsInv
<1>2. \A p \in Posts : taskJob[p] <= rows' /\ target[p] <= rows' /\ hook[p] <= rows'
  BY <1>0 DEF TypeInv, TasksInv, TasksOK, RowsInv
<1>3. \A j \in refreshQ : j <= rows'
  BY <1>0 DEF TypeInv, RunsInv, RunsOK, RowsInv
<1>4. \A q \in Requests : reqJob[q] <= rows'
  BY <1>0 DEF TypeInv, RequestsInv, RequestsOK, RowsInv
<1>5. \A c \in Closers : \A j \in claimed[c] : j <= rows'
  BY <1>0 DEF TypeInv, ClosersInv, ClosersOK, RowsInv
<1> QED BY <1>1, <1>2, <1>3, <1>4, <1>5

\* A run's step points at inserted rows only.
LEMMA RowsRunStep ==
    ASSUME TypeInv, RowsInv, NEW r \in Runs, RunNext(r)
    PROVE  RowsInv'
<1>0. /\ Numbered /\ rows \in Nat /\ runJob \in [Runs -> Jobs \cup {NoJob}] /\ refreshQ \subseteq Jobs
      /\ RunReady(r)
  BY DEF TypeInv, JobsOK, RunsInv, RunsOK, RowsInv
<1>1. ASSUME NEW j \in Jobs, EnsureJob(r, j) PROVE RowsInv'
  <2>1. Numbered' /\ j <= rows' /\ rows <= rows' /\ rows' \in Nat
    BY <1>0, <1>1, CurrentCycleNumbered, InsertNumbered, TypeInvStep
       DEF EnsureJob, InsertOneShot, CurrentCycleJob, InsertJob
  <2> QED BY <2>1, <1>0, <1>1, RowsGrow DEF EnsureJob, RowsInv, taskVars, closerVars, reqVars
<1>2. ASSUME NEW j \in Jobs, StartRefresh(r, j) PROVE RowsInv'
  BY <1>0, <1>2 DEF StartRefresh, RowsInv, Numbered, jobVars, taskVars, closerVars, reqVars
<1>3. CASE EndRun(r) \/ CompleteJob(r) \/ FailJob(r)
  <2>1. UNCHANGED <<rows, taskVars, refreshQ, closerVars, reqVars>>
    BY <1>3 DEF EndRun, CompleteJob, FailJob
  <2>2. runJob' = runJob \/ runJob' = [runJob EXCEPT ![r] = NoJob]
    BY <1>3 DEF EndRun, CompleteJob, FailJob, RunStops
  <2>3. UNCHANGED status \/ \E j \in Jobs : j <= rows /\ (\E s \in Statuses \ {"none"} : SetStatus(j, s))
    BY <1>0, <1>3 DEF EndRun, AwaitsRetries, CompleteJob, FailJob, RunReady, RowsInv, Statuses
  <2>4. Numbered'
    BY <2>1, <2>3, <1>0, SetStatusNumbered DEF Numbered
  <2> QED BY <2>1, <2>2, <2>4, <1>0 DEF RowsInv, taskVars, closerVars, reqVars, NoJob
<1>4. CASE EnqueueIngest(r)
  BY <1>0, <1>4 DEF EnqueueIngest, RunReady, RowsInv, Numbered, jobVars, closerVars, reqVars, TypeInv, TasksInv, TasksOK
<1>5. CASE CrashRun(r)
  BY <1>0, <1>5 DEF CrashRun, RunStops, RunReady, RowsInv, Numbered, jobVars, taskVars, closerVars, reqVars, NoJob
<1>6. CASE /\ UNCHANGED <<rows, status, taskVars, closerVars, reqVars, refreshQ>>
           /\ runJob' = runJob \/ runJob' = [runJob EXCEPT ![r] = NoJob]
  BY <1>0, <1>6 DEF RowsInv, Numbered, taskVars, closerVars, reqVars, NoJob
<1>7. \/ \E j \in Jobs : EnsureJob(r, j) \/ StartRefresh(r, j)
      \/ EndRun(r) \/ CompleteJob(r) \/ FailJob(r) \/ EnqueueIngest(r) \/ CrashRun(r)
      \/ /\ UNCHANGED <<rows, status, taskVars, closerVars, reqVars, refreshQ>>
         /\ runJob' = runJob \/ runJob' = [runJob EXCEPT ![r] = NoJob]
  BY DEF RunNext, StartRun, BeginSource, EndSource, StorePost, ReadInline, ScoreInline, ScoredInline,
         FailInline, ReserveRetry, EnqueueFails, Unreserve, CountPosts, LookAtJob, CheckJob, RunThrows,
         LeaveCycle, RunStops, jobVars, runVars
<1> QED BY <1>1, <1>2, <1>3, <1>4, <1>5, <1>6, <1>7

\* A failed attempt leaves the post's job where it was, or hands it to the
\* 'failed' event.
LEMMA AttemptFailedMoves ==
    ASSUME TypeInv, NEW p \in Posts, AttemptFailed(p)
    PROVE  \/ /\ taskPc' = [taskPc EXCEPT ![p] = "queued"]
              /\ UNCHANGED <<taskJob, hook>>
           \/ /\ taskPc' = [taskPc EXCEPT ![p] = "none"]
              /\ taskJob' = [taskJob EXCEPT ![p] = NoJob]
              /\ hook' = [hook EXCEPT ![p] = IF taskJob[p] = NoJob THEN @ ELSE taskJob[p]]
BY DEF AttemptFailed, TaskGoes, TaskEnds

\* So does a scoring job's step.
LEMMA RowsTaskStep ==
    ASSUME TypeInv, RowsInv, NEW p \in Posts, TaskNext(p)
    PROVE  RowsInv'
<1>0. /\ Numbered /\ rows \in Nat /\ taskJob \in [Posts -> Jobs \cup {NoJob}]
      /\ target \in [Posts -> Jobs \cup {NoJob}] /\ hook \in [Posts -> Jobs \cup {NoJob}]
      /\ 0 <= rows
  BY DEF TypeInv, JobsOK, TasksInv, TasksOK, RowsInv
<1>1. ASSUME NEW j \in Jobs, ChooseCycle(p, j) PROVE RowsInv'
  <2>1. Numbered' /\ j <= rows' /\ rows <= rows'
    BY <1>0, <1>1, CurrentCycleNumbered DEF ChooseCycle, RetryJobFor, RowsInv, Numbered
  <2>2. rows' \in Nat
    BY <1>1, TaskKeepsTypes DEF TypeInv, JobsOK
  <2> QED BY <2>1, <2>2, <1>0, <1>1, RowsGrow DEF ChooseCycle, RowsInv, runVars, closerVars, reqVars
<1>2. CASE /\ UNCHANGED <<rows, status, runVars, closerVars, reqVars>>
           /\ taskJob' = taskJob \/ taskJob' = [taskJob EXCEPT ![p] = NoJob]
           /\ target' = target \/ target' = [target EXCEPT ![p] = NoJob]
           /\ \/ hook' = hook
              \/ hook' = [hook EXCEPT ![p] = NoJob]
              \/ hook' = [hook EXCEPT ![p] = taskJob[p]]
  BY <1>0, <1>2 DEF RowsInv, Numbered, runVars, closerVars, reqVars, NoJob
<1>3. (\E j \in Jobs : ChooseCycle(p, j)) \/
      /\ UNCHANGED <<rows, status, runVars, closerVars, reqVars>>
      /\ taskJob' = taskJob \/ taskJob' = [taskJob EXCEPT ![p] = NoJob]
      /\ target' = target \/ target' = [target EXCEPT ![p] = NoJob]
      /\ \/ hook' = hook
         \/ hook' = [hook EXCEPT ![p] = NoJob]
         \/ hook' = [hook EXCEPT ![p] = taskJob[p]]
  <2>1. AttemptFailed(p) => /\ taskJob' = taskJob \/ taskJob' = [taskJob EXCEPT ![p] = NoJob]
                            /\ hook' = hook \/ hook' = [hook EXCEPT ![p] = taskJob[p]]
    BY <1>0, AttemptFailedMoves
  <2> QED BY <2>1
        DEF TaskNext, TakeTask, ReleaseClosed, ReadForScore, ScoreStage, Scored, TextRemoved, FailOwn, FailTarget,
            ReleaseSlot, LeaveTarget, EmbedIfGated, EmbedFails, ReleaseFailed, CrashWorker,
            SweepUnscored, RemoveText, TaskEnds, jobVars, taskVars
<1> QED BY <1>1, <1>2, <1>3

\* And the steps of the closer, the route, the sweep and time.
LEMMA RowsOtherStep ==
    ASSUME TypeInv, RowsInv,
           \/ \E c \in Closers : CloserNext(c)
           \/ \E q \in Requests : RequestNext(q)
           \/ \E p \in Posts, s \in Stages, j \in Jobs : LateSave(p, s, j)
           \/ SweepStaleJobs
           \/ \E j \in Jobs : Tick(j) \/ GoQuiet(j)
           \/ MinutePasses
           \/ UNCHANGED vars
    PROVE  RowsInv'
<1>0. Numbered /\ rows \in Nat /\ reqJob \in [Requests -> Jobs \cup {NoJob}] /\ status \in [Jobs -> Statuses]
  BY DEF TypeInv, JobsOK, RequestsInv, RequestsOK, RowsInv
<1>1. ASSUME NEW c \in Closers, ClaimDueCycles(c) PROVE RowsInv'
  BY <1>0, <1>1 DEF ClaimDueCycles, DueJobs, Due, RowsInv, Numbered, runVars, taskVars, reqVars,
                   TypeInv, JobsOK, ClosersInv, ClosersOK, Jobs
<1>2. ASSUME NEW c \in Closers, CloserFinishes(c) PROVE RowsInv'
  <2>1. Current(c) \in claimed[c] /\ Current(c) \in Jobs /\ Current(c) <= rows
    BY <1>2, CurrentClaimed DEF CloserFinishes, RowsInv
  <2>2. Numbered'
    BY <2>1, <1>0, <1>2, SetStatusNumbered DEF CloserFinishes
  <2> QED BY <2>2, <1>0, <1>2 DEF CloserFinishes, RowsInv, runVars, taskVars, reqVars, TypeInv, ClosersInv, ClosersOK
<1>3. ASSUME NEW q \in Requests, InsertRefresh(q) PROVE RowsInv'
  <2>1. Numbered' /\ rows <= rows' /\ reqJob'[q] <= rows'
    BY <1>0, <1>3, InsertNumbered DEF InsertRefresh, RowsInv, Numbered
  <2>2. rows' \in Nat
    BY <1>0, <1>3 DEF InsertRefresh, InsertJob
  <2> QED BY <2>1, <2>2, <1>0, <1>3, RowsGrow DEF InsertRefresh, RowsInv, runVars, taskVars, closerVars
<1>4. ASSUME NEW q \in Requests, FailRefresh(q) PROVE RowsInv'
  <2>1. reqJob[q] \in Jobs /\ reqJob[q] <= rows
    BY <1>4 DEF FailRefresh, TypeInv, RequestsInv, RequestReady, RowsInv
  <2>2. Numbered'
    BY <2>1, <1>0, <1>4, SetStatusNumbered DEF FailRefresh
  <2> QED BY <2>2, <1>0, <1>4 DEF FailRefresh, RowsInv, runVars, taskVars, closerVars, NoJob
<1>5. ASSUME NEW q \in Requests, EnqueueRefresh(q) PROVE RowsInv'
  BY <1>0, <1>5 DEF EnqueueRefresh, RowsInv, Numbered, jobVars, taskVars, closerVars, NoJob
<1>6. CASE (\E q \in Requests : PostRefresh(q)) \/ SweepStaleJobs
  <2>1. Numbered'
    BY <1>0, <1>6, FailStaleNumbered DEF PostRefresh, SweepStaleJobs
  <2> QED BY <2>1, <1>6 DEF PostRefresh, SweepStaleJobs, RowsInv, runVars, taskVars, closerVars, reqVars
<1>9. ASSUME NEW c \in Closers, CrashCloser(c) PROVE RowsInv'
  BY <1>9 DEF CrashCloser, RowsInv, Numbered, jobVars, runVars, taskVars, reqVars, TypeInv, ClosersInv, ClosersOK
<1>7. CASE UNCHANGED <<rows, status, runVars, taskVars, claimed, reqJob>>
  BY <1>7 DEF RowsInv, Numbered, runVars, taskVars
<1>8. \/ \E c \in Closers : ClaimDueCycles(c) \/ CloserFinishes(c) \/ CrashCloser(c)
      \/ \E q \in Requests : InsertRefresh(q) \/ FailRefresh(q) \/ EnqueueRefresh(q) \/ PostRefresh(q)
      \/ SweepStaleJobs
      \/ UNCHANGED <<rows, status, runVars, taskVars, claimed, reqJob>>
  BY DEF Next, CloserNext, CloserCounts, CloserChecks, CloserCheckFails, RequestNext, CheckRefresh,
         EnqueueRefreshFails, LateSave, Tick, GoQuiet, MinutePasses, vars, jobVars, closerVars, reqVars
<1> QED BY <1>1, <1>2, <1>3, <1>4, <1>5, <1>6, <1>7, <1>8, <1>9

-----------------------------------------------------------------------------
(* An inserted row keeps its trigger, and once it is not open it never opens
   again.                                                                   *)
OpenKept ==
    \A j \in Jobs : j <= rows =>
        /\ status'[j] \in Open => status[j] \in Open
        /\ trigger'[j] = trigger[j]

\* A new row leaves the inserted ones alone.
LEMMA InsertKeepsOpen ==
    ASSUME TypeInv, NEW t, NEW n, InsertJob(t, n)
    PROVE  OpenKept
<1>1. \A j \in Jobs : j <= rows => j # rows + 1
  BY JobsAssumption DEF TypeInv, JobsOK, Jobs
<1> QED BY <1>1 DEF OpenKept, InsertJob, TypeInv, JobsOK

\* Finding or making the current cycle does.
LEMMA CurrentCycleKeepsOpen ==
    ASSUME TypeInv, NEW j, CurrentCycleJob(j)
    PROVE  OpenKept
BY InsertKeepsOpen DEF CurrentCycleJob, OpenKept

\* Closing an open row, or any other, does not open it.
LEMMA SetStatusKeepsOpen ==
    ASSUME TypeInv, NEW j, NEW s, s \notin Open \/ status[j] \in Open, SetStatus(j, s), UNCHANGED trigger
    PROVE  OpenKept
BY DEF OpenKept, SetStatus, TypeInv, JobsOK

\* Nor does failing the stale ones.
LEMMA FailStaleKeepsOpen ==
    ASSUME TypeInv, NEW ts, FailStale(ts), UNCHANGED trigger
    PROVE  OpenKept
BY DEF OpenKept, FailStale, TypeInv, JobsOK, Open

\* Every step of the system keeps it so.
LEMMA NeverReopens ==
    ASSUME TypeInv, [Next]_vars
    PROVE  OpenKept
<1>1. ASSUME NEW r \in Runs, RunNext(r) PROVE OpenKept
  <2>1. ASSUME NEW j \in Jobs, EnsureJob(r, j) PROVE OpenKept
    BY <2>1, CurrentCycleKeepsOpen, InsertKeepsOpen DEF EnsureJob, InsertOneShot
  <2>2. CASE EndRun(r)
    BY <2>2, SetStatusKeepsOpen DEF EndRun, AwaitsRetries, OpenKept, Open
  <2>3. CASE CompleteJob(r) \/ FailJob(r)
    BY <2>3, SetStatusKeepsOpen DEF CompleteJob, FailJob, OpenKept, Open
  <2>4. \/ \E j \in Jobs : EnsureJob(r, j)
        \/ EndRun(r) \/ CompleteJob(r) \/ FailJob(r)
        \/ UNCHANGED <<status, trigger>>
    BY <1>1 DEF RunNext, StartRun, BeginSource, EndSource, StorePost, StartRefresh, ReadInline, ScoreInline,
                ScoredInline, FailInline, ReserveRetry, EnqueueIngest, EnqueueFails, Unreserve,
                CountPosts, LookAtJob, CheckJob, RunThrows, LeaveCycle, CrashRun, jobVars
  <2> QED BY <2>1, <2>2, <2>3, <2>4 DEF OpenKept
<1>2. ASSUME NEW p \in Posts, TaskNext(p) PROVE OpenKept
  <2>1. ASSUME NEW j \in Jobs, ChooseCycle(p, j) PROVE OpenKept
    BY <2>1, CurrentCycleKeepsOpen DEF ChooseCycle, RetryJobFor, OpenKept
  <2>2. (\E j \in Jobs : ChooseCycle(p, j)) \/ UNCHANGED <<status, trigger>>
    BY <1>2 DEF TaskNext, TakeTask, ReleaseClosed, ReadForScore, ScoreStage, Scored, TextRemoved, FailOwn,
                FailTarget, ReleaseSlot, LeaveTarget, EmbedIfGated, EmbedFails, ReleaseFailed,
                CrashWorker, SweepUnscored, RemoveText, jobVars
  <2> QED BY <2>1, <2>2 DEF OpenKept
<1>3. ASSUME NEW c \in Closers, CloserNext(c) PROVE OpenKept
  <2>1. CASE ClaimDueCycles(c)
    BY <2>1 DEF ClaimDueCycles, OpenKept, Open, TypeInv, JobsOK
  <2>2. CASE CloserFinishes(c)
    BY <2>2, SetStatusKeepsOpen DEF CloserFinishes, Open
  <2>3. ClaimDueCycles(c) \/ CloserFinishes(c) \/ UNCHANGED <<status, trigger>>
    BY <1>3 DEF CloserNext, CloserCounts, CloserChecks, CloserCheckFails, CrashCloser, jobVars
  <2> QED BY <2>1, <2>2, <2>3 DEF OpenKept
<1>4. ASSUME NEW q \in Requests, RequestNext(q) PROVE OpenKept
  <2>1. CASE PostRefresh(q)
    BY <2>1, FailStaleKeepsOpen DEF PostRefresh
  <2>2. CASE InsertRefresh(q)
    BY <2>2, InsertKeepsOpen DEF InsertRefresh, OpenKept
  <2>3. CASE FailRefresh(q)
    BY <2>3, SetStatusKeepsOpen DEF FailRefresh, Open
  <2>4. PostRefresh(q) \/ InsertRefresh(q) \/ FailRefresh(q) \/ UNCHANGED <<status, trigger>>
    BY <1>4 DEF RequestNext, CheckRefresh, EnqueueRefresh, EnqueueRefreshFails, jobVars
  <2> QED BY <2>1, <2>2, <2>3, <2>4 DEF OpenKept
<1>5. CASE SweepStaleJobs
  BY <1>5, FailStaleKeepsOpen DEF SweepStaleJobs
<1>6. CASE UNCHANGED <<status, trigger>>
  BY <1>6 DEF OpenKept
<1>7. \/ \E r \in Runs : RunNext(r)
      \/ \E p \in Posts : TaskNext(p)
      \/ \E c \in Closers : CloserNext(c)
      \/ \E q \in Requests : RequestNext(q)
      \/ SweepStaleJobs
      \/ UNCHANGED <<status, trigger>>
  BY DEF Next, LateSave, Tick, GoQuiet, MinutePasses, vars, jobVars
<1> QED BY <1>1, <1>2, <1>3, <1>4, <1>5, <1>6, <1>7

-----------------------------------------------------------------------------
(* Posts: one run works on a post at a time, and before its scoring job.    *)
\* A run's step keeps posts in one hand.
LEMMA PostsRunStep ==
    ASSUME TypeInv, PostsInv, NEW r \in Runs, RunNext(r)
    PROVE  PostsInv'
<1>0. /\ runPost \in [Runs -> Posts \cup {NoPost}] /\ RunReady(r) /\ stored \subseteq Posts
      /\ taskPc \in [Posts -> TaskPcs] /\ NoPost \notin Posts
  BY PostsAssumption DEF TypeInv, RunsInv, RunsOK, PostsOK, TasksInv, TasksOK
<1>1. ASSUME NEW p \in Posts, StorePost(r, p) PROVE PostsInv'
  BY <1>0, <1>1 DEF StorePost, PostsInv, taskVars
<1>2. CASE EnqueueIngest(r)
  <2>1. runPost[r] \in Posts /\ runPost[r] # NoPost
    BY <1>0, <1>2 DEF EnqueueIngest, RunReady
  <2> QED BY <2>1, <1>0, <1>2 DEF EnqueueIngest, PostsInv, postVars, scoreVars
<1>3. CASE UNCHANGED <<stored, taskPc, hook>> /\ (runPost' = runPost \/ runPost' = [runPost EXCEPT ![r] = NoPost])
  BY <1>0, <1>3 DEF PostsInv
<1>4. \/ \E p \in Posts : StorePost(r, p)
      \/ EnqueueIngest(r)
      \/ UNCHANGED <<stored, taskPc, hook>> /\ (runPost' = runPost \/ runPost' = [runPost EXCEPT ![r] = NoPost])
  BY DEF RunNext, StartRun, BeginSource, EndSource, StartRefresh, EnsureJob, ReadInline, ScoreInline, ScoredInline,
         FailInline, ReserveRetry, EnqueueFails, Unreserve, EndRun, CountPosts, LookAtJob, CheckJob, CompleteJob,
         RunThrows, FailJob, LeaveCycle, CrashRun, RunStops, runVars, postVars, scoreVars, taskVars
<1> QED BY <1>1, <1>2, <1>3, <1>4

\* So does a scoring job's: there is one only once the run is done with the post.
LEMMA PostsTaskStep ==
    ASSUME TypeInv, PostsInv, NEW p \in Posts, TaskNext(p)
    PROVE  PostsInv'
<1>0. /\ runPost \in [Runs -> Posts \cup {NoPost}] /\ stored \subseteq Posts
      /\ taskPc \in [Posts -> TaskPcs] /\ hook \in [Posts -> Jobs \cup {NoJob}]
      /\ NoPost \notin Posts
  BY PostsAssumption DEF TypeInv, RunsInv, RunsOK, PostsOK, TasksInv, TasksOK
<1>1. CASE /\ UNCHANGED <<runPost, stored>> /\ \A r \in Runs : runPost[r] # p
           /\ p \in stored
           /\ \A o \in Posts \ {p} : taskPc'[o] = taskPc[o] /\ hook'[o] = hook[o]
  BY <1>0, <1>1 DEF PostsInv
<1>2. taskPc[p] # "none" \/ hook[p] # NoJob =>
          p \in stored /\ \A r \in Runs : runPost[r] # p
  BY <1>0 DEF PostsInv
<1>3. CASE UNCHANGED <<runPost, stored, taskPc, hook>>
  BY <1>3 DEF PostsInv
<1>4. UNCHANGED <<runPost, stored>>
  BY DEF TaskNext, TakeTask, ReleaseClosed, ChooseCycle, ReadForScore, ScoreStage, Scored, TextRemoved, FailOwn,
         FailTarget, ReleaseSlot, LeaveTarget, EmbedIfGated, EmbedFails, ReleaseFailed, CrashWorker,
         SweepUnscored, RemoveText, runVars, postVars, scoreVars
<1>5. \A o \in Posts \ {p} : taskPc'[o] = taskPc[o] /\ hook'[o] = hook[o]
  BY <1>0, AttemptFailedMoves
     DEF TaskNext, TakeTask, ReleaseClosed, ChooseCycle, ReadForScore, ScoreStage, Scored, TextRemoved, FailOwn,
         FailTarget, ReleaseSlot, LeaveTarget, EmbedIfGated, EmbedFails, ReleaseFailed, CrashWorker,
         SweepUnscored, RemoveText, TaskGoes, TaskEnds, taskVars
<1>6. \/ taskPc[p] # "none" \/ hook[p] # NoJob
      \/ SweepUnscored(p)
      \/ UNCHANGED <<runPost, stored, taskPc, hook>>
  BY <1>4 DEF TaskNext, TakeTask, ReleaseClosed, ChooseCycle, ReadForScore, ScoreStage, Scored, TextRemoved, FailOwn,
         FailTarget, ReleaseSlot, LeaveTarget, EmbedIfGated, EmbedFails, ReleaseFailed, CrashWorker,
         RemoveText, Scoring, taskVars
<1>7. CASE SweepUnscored(p)
  BY <1>1, <1>4, <1>5, <1>7 DEF SweepUnscored
<1> QED BY <1>1, <1>2, <1>3, <1>4, <1>5, <1>6, <1>7

\* Nobody else touches a run's post or a scoring job.
LEMMA PostsOtherStep ==
    ASSUME PostsInv, UNCHANGED <<runPost, stored, taskPc, hook>>
    PROVE  PostsInv'
BY DEF PostsInv

-----------------------------------------------------------------------------
(* Scoring jobs.                                                            *)
\* What other actors do to the rows a scoring job points at leaves it alone.
LEMMA TaskFrame ==
    ASSUME TypeInv, RowsInv, OpenKept, NEW p \in Posts, TaskInv(p),
           taskPc'[p] = taskPc[p], taskJob'[p] = taskJob[p], target'[p] = target[p], hook'[p] = hook[p]
    PROVE  TaskInv(p)'
BY DEF TypeInv, TasksInv, TasksOK, RowsInv, OpenKept, TaskInv

\* A run's step keeps the scoring jobs in shape.
LEMMA TaskRunStep ==
    ASSUME TypeInv, RowsInv, PostsInv, OpenKept, \A p \in Posts : TaskInv(p), NEW r \in Runs, RunNext(r)
    PROVE  \A p \in Posts : TaskInv(p)'
<1>1. CASE EnqueueIngest(r)
  <2>1. PICK p \in Posts : p = runPost[r] /\ p # NoPost
    BY <1>1, PostsAssumption DEF EnqueueIngest, TypeInv, RunsInv, RunReady
  <2>2. TaskInv(p)'
    <3>1. taskPc[p] = "none" /\ hook[p] = NoJob
      BY <2>1 DEF PostsInv
    <3>2. target[p] = NoJob
      BY <2>1, <3>1 DEF TaskInv, Joined
    <3> QED BY <2>1, <3>1, <3>2, <1>1 DEF EnqueueIngest, TaskInv, Joined, TypeInv, TasksInv, TasksOK
  <2>3. ASSUME NEW o \in Posts \ {p} PROVE TaskInv(o)'
    BY <1>1, <2>1, <2>3, TaskFrame DEF EnqueueIngest, TypeInv, TasksInv, TasksOK
  <2> QED BY <2>2, <2>3
<1>2. CASE UNCHANGED taskVars
  BY <1>2, TaskFrame DEF taskVars
<1>3. EnqueueIngest(r) \/ UNCHANGED taskVars
  BY DEF RunNext, StartRun, BeginSource, EndSource, StorePost, StartRefresh, EnsureJob, ReadInline, ScoreInline,
         ScoredInline, FailInline, ReserveRetry, EnqueueFails, Unreserve, EndRun, CountPosts, LookAtJob, CheckJob,
         CompleteJob, RunThrows, FailJob, LeaveCycle, CrashRun
<1> QED BY <1>1, <1>2, <1>3

\* The current cycle is a cron job; a retry never joins the job it was closed out of.
LEMMA RetryJoinsCron ==
    ASSUME TypeInv, NEW p \in Posts, TaskInv(p), NEW j \in Jobs, ChooseCycle(p, j)
    PROVE  trigger'[j] = "cron" /\ CurrentCycleJob(j) /\ target[p] = NoJob
<1>1. target[p] = NoJob /\ CurrentCycleJob(j)
  BY DEF ChooseCycle, RetryJobFor, TaskInv, Joined, Open
<1>2. trigger'[j] = "cron"
  BY <1>1 DEF CurrentCycleJob, OpenCycles, InsertJob, TypeInv, JobsOK
<1> QED BY <1>1, <1>2

\* A scoring job's own step does.
LEMMA TaskTaskStep ==
    ASSUME TypeInv, RowsInv, OpenKept, \A p \in Posts : TaskInv(p), NEW p \in Posts, TaskNext(p)
    PROVE  \A o \in Posts : TaskInv(o)'
<1>0. /\ taskPc \in [Posts -> TaskPcs] /\ taskJob \in [Posts -> Jobs \cup {NoJob}]
      /\ target \in [Posts -> Jobs \cup {NoJob}] /\ hook \in [Posts -> Jobs \cup {NoJob}]
      /\ TaskInv(p) /\ taskJob[p] <= rows /\ target[p] <= rows
      /\ \A j \in Jobs : NoJob # j
  BY DEF TypeInv, TasksInv, TasksOK, RowsInv, NoJob, Jobs
<1>1. ASSUME NEW o \in Posts \ {p} PROVE TaskInv(o)'
  <2>1. /\ taskPc'[o] = taskPc[o] /\ taskJob'[o] = taskJob[o] /\ target'[o] = target[o]
        /\ hook'[o] = hook[o]
    BY <1>0, AttemptFailedMoves
       DEF TaskNext, TakeTask, ReleaseClosed, ChooseCycle, ReadForScore, ScoreStage, Scored, TextRemoved, FailOwn,
           FailTarget, ReleaseSlot, LeaveTarget, EmbedIfGated, EmbedFails, ReleaseFailed, CrashWorker,
           SweepUnscored, RemoveText, TaskGoes, TaskEnds, taskVars
  <2> QED BY <2>1, TaskFrame
<1>2. TaskInv(p)'
  <2>1. CASE TakeTask(p) \/ ReleaseClosed(p)
    BY <1>0, <2>1 DEF TakeTask, ReleaseClosed, TaskGoes, TaskInv, Joined, jobVars
  <2>2. ASSUME NEW j \in Jobs, ChooseCycle(p, j) PROVE TaskInv(p)'
    BY <1>0, <2>2, RetryJoinsCron DEF ChooseCycle, TaskGoes, TaskInv, Joined, OpenKept
  <2>3. CASE Scored(p) \/ TextRemoved(p) \/ FailTarget(p)
    BY <1>0, <2>3 DEF Scored, TextRemoved, FailTarget, Scoring, TaskGoes, TaskInv, Joined, jobVars
  <2>4. CASE FailOwn(p) \/ EmbedFails(p)
    BY <1>0, <2>4, AttemptFailedMoves DEF FailOwn, EmbedFails, TaskInv, Joined, jobVars
  <2>5. CASE ReleaseSlot(p) \/ EmbedIfGated(p)
    BY <1>0, <2>5 DEF ReleaseSlot, EmbedIfGated, TaskGoes, TaskEnds, TaskInv, Joined, jobVars
  <2>6. CASE LeaveTarget(p)
    BY <1>0, <2>6, AttemptFailedMoves DEF LeaveTarget, TaskGoes, TaskEnds, TaskInv, Joined
  <2>7. CASE ReleaseFailed(p) \/ CrashWorker(p) \/ SweepUnscored(p)
    BY <1>0, <2>7 DEF ReleaseFailed, CrashWorker, SweepUnscored, TaskGoes, TaskInv, Joined, jobVars
  <2>8. CASE UNCHANGED taskVars
    BY <2>8, <1>0, TaskFrame DEF taskVars
  <2> QED BY <2>1, <2>2, <2>3, <2>4, <2>5, <2>6, <2>7, <2>8 DEF TaskNext, ReadForScore, ScoreStage, RemoveText
<1> QED BY <1>1, <1>2

-----------------------------------------------------------------------------
(* Collection runs.                                                         *)
\* What other actors do to rows leaves a run's invariant alone.
LEMMA RunFrame ==
    ASSUME TypeInv, RowsInv, OpenKept, NEW r \in Runs, RunInv(r),
           runPc'[r] = runPc[r], runJob'[r] = runJob[r]
    PROVE  RunInv(r)'
BY DEF TypeInv, RunsInv, RunsOK, RowsInv, OpenKept, RunInv

\* A run's own step keeps it.
LEMMA RunRunStep ==
    ASSUME TypeInv, RowsInv, OpenKept, \A s \in Runs : RunInv(s), NEW r \in Runs, RunNext(r)
    PROVE  \A s \in Runs : RunInv(s)'
<1>0. /\ runPc \in [Runs -> RunPcs] /\ runJob \in [Runs -> Jobs \cup {NoJob}] /\ RunInv(r) /\ RunReady(r)
      /\ runJob[r] <= rows
      /\ \A j \in Jobs : NoJob # j
      /\ r \in OneShotRuns <=> r \notin CycleRuns
      /\ r \in OneShotRuns <=> r \in RefreshRuns \/ r \in ManualRuns
  BY RunsAssumption DEF TypeInv, RunsInv, RunsOK, RowsInv, Runs, OneShotRuns, NoJob, Jobs
<1>1. ASSUME NEW s \in Runs \ {r} PROVE RunInv(s)'
  <2>1. runPc'[s] = runPc[s] /\ runJob'[s] = runJob[s]
    BY <1>0
       DEF RunNext, StartRun, BeginSource, EndSource, StorePost, StartRefresh, EnsureJob, ReadInline, ScoreInline,
           ScoredInline, FailInline, ReserveRetry, EnqueueIngest, EnqueueFails, Unreserve, EndRun, CountPosts, LookAtJob,
           CheckJob, CompleteJob, RunThrows, FailJob, LeaveCycle, CrashRun, RunGoes, RunStops, runVars
  <2> QED BY <2>1, RunFrame
<1>2. RunInv(r)'
  <2>1. ASSUME NEW j \in Jobs, EnsureJob(r, j) PROVE RunInv(r)'
    <3>1. r \in CycleRuns => trigger'[j] = "cron"
      BY <2>1 DEF EnsureJob, CurrentCycleJob, OpenCycles, InsertJob, TypeInv, JobsOK
    <3> QED BY <3>1, <1>0, <2>1 DEF EnsureJob, RunGoes, QueuePc, RunInv
  <2>2. ASSUME NEW j \in Jobs, StartRefresh(r, j) PROVE RunInv(r)'
    BY <1>0, <2>2 DEF StartRefresh, RunGoes, RunInv, jobVars
  <2>3. CASE UNCHANGED trigger /\ (runPc'[r] = "idle" /\ runJob'[r] = NoJob)
    BY <2>3, <1>0 DEF RunInv
  <2>4. CASE /\ UNCHANGED <<trigger, runJob>>
             /\ StartRun(r) \/ BeginSource(r) \/ EndSource(r) \/ (\E p \in Posts : StorePost(r, p))
                \/ ScoredInline(r) \/ FailInline(r) \/ ReserveRetry(r) \/ EnqueueIngest(r)
                \/ EnqueueFails(r) \/ Unreserve(r)
    BY <1>0, <2>4
       DEF StartRun, BeginSource, EndSource, StorePost, ScoredInline, FailInline, ReserveRetry,
           EnqueueIngest, EnqueueFails, Unreserve, RunGoes, QueuePc, RunInv
  <2>5. CASE /\ UNCHANGED <<trigger, runJob>>
             /\ EndRun(r) \/ CountPosts(r) \/ LookAtJob(r) \/ CheckJob(r) \/ RunThrows(r)
    BY <1>0, <2>5, <2>3 DEF EndRun, CountPosts, LookAtJob, CheckJob, RunThrows, RunGoes, RunStops, RunInv
  <2>6. CASE \E s \in Stages : ReadInline(r, s) \/ ScoreInline(r, s)
    BY <1>0, <2>6, RunFrame DEF ReadInline, ScoreInline, runVars
  <2> QED BY <1>0, <2>1, <2>2, <2>3, <2>4, <2>5, <2>6
          DEF RunNext, StartRun, BeginSource, EndSource, StorePost, ReadInline, ScoreInline, ScoredInline,
              FailInline, ReserveRetry, EnqueueIngest, EnqueueFails, Unreserve, EndRun, CountPosts, LookAtJob, CheckJob,
              CompleteJob, RunThrows, FailJob, LeaveCycle, CrashRun, RunStops, runVars, jobVars
<1> QED BY <1>1, <1>2

-----------------------------------------------------------------------------
(* Slots: every step changes the number of holders of an open job and its
   inflight_runs alike.                                                     *)
\* One more, one less.
LEMMA OneMore ==
    ASSUME NEW S, NEW T, NEW x, IsFiniteSet(S), x \notin S, T = S \cup {x}
    PROVE  Cardinality(T) = Cardinality(S) + 1
BY FS_AddElement

\* Taking one member away counts one less.
LEMMA OneLess ==
    ASSUME NEW S, NEW T, NEW x, IsFiniteSet(S), x \in S, T = S \ {x}
    PROVE  Cardinality(T) = Cardinality(S) - 1 /\ Cardinality(S) > 0
<1>1. Cardinality(T) = Cardinality(S) - 1
  BY FS_RemoveElement
<1>2. Cardinality(S) \in Nat /\ Cardinality(S) # 0
  BY FS_CardinalityType, FS_EmptySet
<1> QED BY <1>1, <1>2

\* Holders that nobody touched.
LEMMA SameSlots ==
    ASSUME NEW j
    PROVE  /\ UNCHANGED <<runPc, runJob>> => RunSlots(j)' = RunSlots(j) /\ ReserveSlots(j)' = ReserveSlots(j)
           /\ UNCHANGED <<taskPc, taskJob>> => TaskSlots(j)' = TaskSlots(j)
           /\ UNCHANGED hook => HookSlots(j)' = HookSlots(j)
           /\ UNCHANGED target /\ trigger'[j] = trigger[j] => TargetSlots(j)' = TargetSlots(j)
BY DEF RunSlots, ReserveSlots, TaskSlots, HookSlots, TargetSlots, RunHolds, Reserves, TaskHolds,
       HookHolds, TargetHolds

\* The number of holders of an open job moves with its inflight_runs.
LEMMA BalanceMoves ==
    ASSUME TypeInv, NEW j \in Jobs, Balanced(j), NEW d \in {-1, 0, 1},
           Held(j)' = Held(j) + d, inflight'[j] = inflight[j] + d
    PROVE  Balanced(j)'
<1>1. Held(j) \in Nat /\ inflight[j] \in Nat
  BY HoldersCount DEF TypeInv, JobsOK
<1> QED BY <1>1 DEF Balanced

\* A step that inserts no row opens none.
LEMMA StaysOpen ==
    ASSUME TypeInv, Numbered, Numbered', OpenKept, UNCHANGED rows, NEW j \in Jobs, status'[j] \in Open
    PROVE  status[j] \in Open /\ trigger'[j] = trigger[j]
<1>1. status'[j] # "none"
  BY DEF Open
<1>2. j <= rows
  BY <1>1, JobsAssumption DEF Numbered, TypeInv, JobsOK, Jobs
<1> QED BY <1>2 DEF OpenKept

\* A new row has no holder yet.
LEMMA NewRowUnheld ==
    ASSUME TypeInv, RowsInv
    PROVE  /\ RunSlots(rows + 1) = {} /\ ReserveSlots(rows + 1) = {} /\ TaskSlots(rows + 1) = {}
           /\ HookSlots(rows + 1) = {} /\ \A p \in Posts : target[p] # rows + 1
<1>1. \A x \in Jobs \cup {NoJob} : x <= rows => x # rows + 1
  BY JobsAssumption DEF TypeInv, JobsOK, Jobs, NoJob
<1>2. \A r \in Runs : runJob[r] # rows + 1
  BY <1>1 DEF TypeInv, RunsInv, RunsOK, RowsInv
<1>3. \A p \in Posts : taskJob[p] # rows + 1 /\ target[p] # rows + 1 /\ hook[p] # rows + 1
  BY <1>1 DEF TypeInv, TasksInv, TasksOK, RowsInv
<1> QED BY <1>2, <1>3 DEF RunSlots, ReserveSlots, TaskSlots, HookSlots, RunHolds, Reserves, TaskHolds, HookHolds

\* When a new row is inserted with the holders it counts, it is balanced.
LEMMA BalancedAtOnce ==
    ASSUME NEW j, NEW n \in Nat, inflight'[j] = n, Held(j)' = n
    PROVE  Balanced(j)'
BY DEF Balanced

\* The holders among the runs after a step of run r.
LEMMA RunSlotsAfter ==
    ASSUME TypeInv, NEW r \in Runs, RunNext(r), NEW j
    PROVE  /\ \A s \in Runs \ {r} : /\ RunHolds(s, j)' <=> RunHolds(s, j)
                                    /\ Reserves(s, j)' <=> Reserves(s, j)
           /\ (RunHolds(r, j)' <=> RunHolds(r, j)) => RunSlots(j)' = RunSlots(j)
           /\ (Reserves(r, j)' <=> Reserves(r, j)) => ReserveSlots(j)' = ReserveSlots(j)
           /\ RunHolds(r, j)' => RunSlots(j)' = RunSlots(j) \cup {r}
           /\ Reserves(r, j)' => ReserveSlots(j)' = ReserveSlots(j) \cup {r}
           /\ ~RunHolds(r, j)' => RunSlots(j)' = RunSlots(j) \ {r}
           /\ ~Reserves(r, j)' => ReserveSlots(j)' = ReserveSlots(j) \ {r}
<1>0. runPc \in [Runs -> RunPcs] /\ runJob \in [Runs -> Jobs \cup {NoJob}]
  BY DEF TypeInv, RunsInv, RunsOK
<1>1. \A s \in Runs \ {r} : runPc'[s] = runPc[s] /\ runJob'[s] = runJob[s]
  BY <1>0
     DEF RunNext, StartRun, BeginSource, EndSource, StorePost, StartRefresh, EnsureJob, ReadInline, ScoreInline,
         ScoredInline, FailInline, ReserveRetry, EnqueueIngest, EnqueueFails, Unreserve, EndRun, CountPosts, LookAtJob,
         CheckJob, CompleteJob, RunThrows, FailJob, LeaveCycle, CrashRun, RunGoes, RunStops, runVars
<1>2. \A s \in Runs \ {r} : (RunHolds(s, j)' <=> RunHolds(s, j)) /\ (Reserves(s, j)' <=> Reserves(s, j))
  BY <1>1 DEF RunHolds, Reserves
<1> QED BY <1>2 DEF RunSlots, ReserveSlots

\* A run that takes a slot, moves it or gives it back.
RunHandsOver(r) ==
    \/ \E j \in Jobs : EnsureJob(r, j)
    \/ ReserveRetry(r) \/ EnqueueIngest(r) \/ Unreserve(r) \/ LeaveCycle(r) \/ CrashRun(r)

\* Any other step of a run changes no holder and no counter.
LEMMA RunElsewhere ==
    ASSUME TypeInv, NEW r \in Runs, RunInv(r), RunNext(r), ~RunHandsOver(r), NEW j \in Jobs
    PROVE  /\ UNCHANGED <<rows, inflight, trigger, taskVars>>
           /\ RunHolds(r, j)' <=> RunHolds(r, j)
           /\ Reserves(r, j)' <=> Reserves(r, j)
<1>0. /\ runPc \in [Runs -> RunPcs] /\ runJob \in [Runs -> Jobs \cup {NoJob}] /\ RunReady(r) /\ NoJob # j
      /\ r \in OneShotRuns <=> r \notin CycleRuns
      /\ r \in RefreshRuns => r \in OneShotRuns
  BY RunsAssumption DEF TypeInv, RunsInv, RunsOK, Runs, OneShotRuns, NoJob, Jobs
<1>1. CASE StartRun(r) \/ BeginSource(r) \/ EndSource(r) \/ (\E p \in Posts : StorePost(r, p))
  BY <1>0, <1>1 DEF StartRun, BeginSource, EndSource, StorePost, RunGoes, QueuePc, RunHolds, Reserves, jobVars
<1>2. CASE \E k \in Jobs : StartRefresh(r, k)
  BY <1>0, <1>2 DEF StartRefresh, RunGoes, RunHolds, Reserves, jobVars
<1>3. CASE (\E s \in Stages : ReadInline(r, s) \/ ScoreInline(r, s)) \/ ScoredInline(r) \/ FailInline(r) \/ EnqueueFails(r)
  BY <1>0, <1>3 DEF ReadInline, ScoreInline, ScoredInline, FailInline, EnqueueFails, RunGoes, RunHolds, Reserves, jobVars, runVars
<1>4. CASE EndRun(r) \/ CountPosts(r) \/ LookAtJob(r) \/ CheckJob(r)
  BY <1>0, <1>4 DEF EndRun, CountPosts, LookAtJob, CheckJob, RunGoes, RunStops, RunHolds, Reserves, jobVars
<1>5. CASE CompleteJob(r) \/ FailJob(r)
  BY <1>0, <1>5 DEF CompleteJob, FailJob, RunStops, RunInv, RunHolds, Reserves, jobVars
<1>6. CASE RunThrows(r)
  BY <1>0, <1>6 DEF RunThrows, RunGoes, RunStops, RunHolds, Reserves, jobVars
<1> QED BY <1>1, <1>2, <1>3, <1>4, <1>5, <1>6 DEF RunNext, RunHandsOver

\* Holders unchanged, counter unchanged.
LEMMA BalanceKept ==
    ASSUME TypeInv, NEW j \in Jobs, Balanced(j), inflight'[j] = inflight[j],
           RunSlots(j)' = RunSlots(j), ReserveSlots(j)' = ReserveSlots(j), TaskSlots(j)' = TaskSlots(j),
           HookSlots(j)' = HookSlots(j), TargetSlots(j)' = TargetSlots(j)
    PROVE  Balanced(j)'
BY DEF Balanced, Held

\* GREATEST(inflight_runs - 1, 0) really takes one off while there is a holder.
LEMMA ReleaseMoves ==
    ASSUME TypeInv, NEW i \in Jobs, Release(i), NEW j \in Jobs
    PROVE  /\ j # i => inflight'[j] = inflight[j]
           /\ j = i /\ Balanced(j) /\ Held(j) > 0 => inflight'[j] = inflight[j] + (-1)
<1>1. Held(j) \in Nat /\ inflight \in [Jobs -> Nat]
  BY HoldersCount DEF TypeInv, JobsOK
<1> QED BY <1>1 DEF Release, Balanced

\* Taking a slot adds one.
LEMMA AcquireMoves ==
    ASSUME TypeInv, NEW i \in Jobs, Acquire(i), NEW j \in Jobs
    PROVE  /\ j # i => inflight'[j] = inflight[j]
           /\ j = i => inflight'[j] = inflight[j] + 1
BY DEF Acquire, TypeInv, JobsOK

\* A new row changes no other.
LEMMA InsertElsewhere ==
    ASSUME TypeInv, NEW t, NEW n \in Nat, InsertJob(t, n), NEW j \in Jobs
    PROVE  /\ j # rows + 1 => inflight'[j] = inflight[j] /\ status'[j] = status[j] /\ trigger'[j] = trigger[j]
           /\ j = rows + 1 => inflight'[j] = n /\ trigger'[j] = t
BY DEF InsertJob, TypeInv, JobsOK

\* A run joins a cycle, or inserts its job's row.
LEMMA EnsureBalance ==
    ASSUME TypeInv, RowsInv, NEW r \in Runs, RunInv(r), NEW i \in Jobs, EnsureJob(r, i), RunNext(r),
           NEW j \in Jobs, status[j] \in Open => Balanced(j), status'[j] \in Open
    PROVE  Balanced(j)'
<1>0. /\ runPc \in [Runs -> RunPcs] /\ runJob \in [Runs -> Jobs \cup {NoJob}] /\ NoJob # j /\ NoJob # i
      /\ r \in CycleRuns => r \notin ManualRuns
  BY RunsAssumption DEF TypeInv, RunsInv, RunsOK, OneShotRuns, NoJob, Jobs
<1>1. /\ ~RunHolds(r, j) /\ ~Reserves(r, j) /\ ~Reserves(r, j)'
      /\ RunHolds(r, j)' <=> i = j /\ r \in CycleRuns
  BY <1>0 DEF EnsureJob, RunInv, RunHolds, Reserves, RunGoes, QueuePc
<1>2. TaskSlots(j)' = TaskSlots(j) /\ HookSlots(j)' = HookSlots(j) /\ ReserveSlots(j)' = ReserveSlots(j)
  BY <1>1, SameSlots, RunSlotsAfter DEF EnsureJob, taskVars
<1>3. r \notin RunSlots(j) /\ IsFiniteSet(RunSlots(j))
  BY <1>1, SlotsFinite DEF RunSlots
<1>4. CASE r \in CycleRuns /\ OpenCycles # {}
  <2>1. Acquire(i) /\ UNCHANGED <<status, trigger, target>>
    BY <1>4 DEF EnsureJob, CurrentCycleJob, taskVars
  <2>2. TargetSlots(j)' = TargetSlots(j) /\ Balanced(j)
    BY <2>1, SameSlots
  <2>3. CASE j = i
    <3>1. RunSlots(j)' = RunSlots(j) \cup {r}
      BY <2>3, <1>1, <1>4, RunSlotsAfter
    <3>2. Cardinality(RunSlots(j)') = Cardinality(RunSlots(j)) + 1
      BY <3>1, <1>3, OneMore
    <3>3. Held(j)' = Held(j) + 1
      BY <3>2, <1>2, <2>2, CountsNat DEF Held
    <3> QED BY <3>3, <2>1, <2>2, <2>3, AcquireMoves, BalanceMoves
  <2>4. CASE j # i
    <3>1. RunSlots(j)' = RunSlots(j)
      BY <2>4, <1>1, RunSlotsAfter
    <3> QED BY <3>1, <2>1, <2>2, <2>4, <1>2, AcquireMoves, BalanceKept
  <2> QED BY <2>3, <2>4
<1>5. CASE ~(r \in CycleRuns /\ OpenCycles # {})
  <2> DEFINE t == IF r \in CycleRuns THEN "cron" ELSE "manual"
             n == IF r \in CycleRuns THEN 1 ELSE 0
  <2>1. i = rows + 1 /\ InsertJob(t, n) /\ n \in {0, 1}
    BY <1>5 DEF EnsureJob, CurrentCycleJob, InsertOneShot
  <2>0. n = 1 <=> r \in CycleRuns
    OBVIOUS
  <2> HIDE DEF t, n
  <2>2. UNCHANGED target
    BY DEF EnsureJob, taskVars
  <2>3. CASE j = i
    <3>1. /\ RunSlots(j) = {} /\ ReserveSlots(j) = {} /\ TaskSlots(j) = {} /\ HookSlots(j) = {}
          /\ \A p \in Posts : target[p] # j
      BY <2>1, <2>3, NewRowUnheld
    <3>2. TargetSlots(j)' = {}
      BY <3>1, <2>2 DEF TargetSlots, TargetHolds
    <3>3. RunSlots(j)' = IF n = 1 THEN {r} ELSE {}
      BY <3>1, <2>0, <2>1, <2>3, <1>1, RunSlotsAfter
    <3>4. Cardinality(RunSlots(j)') = n
      BY <2>1, <3>3, FS_Singleton, FS_EmptySet
    <3>5. Held(j)' = n
      BY <2>1, <3>1, <3>2, <3>4, <1>2, FS_EmptySet DEF Held
    <3>6. inflight'[j] = n
      BY <2>1, <2>3, InsertElsewhere
    <3> QED BY <2>1, <3>5, <3>6, BalancedAtOnce
  <2>4. CASE j # i
    <3>1. inflight'[j] = inflight[j] /\ status'[j] = status[j] /\ trigger'[j] = trigger[j]
      BY <2>1, <2>4, InsertElsewhere
    <3>2. RunSlots(j)' = RunSlots(j) /\ TargetSlots(j)' = TargetSlots(j)
      BY <3>1, <2>2, <2>4, <1>1, RunSlotsAfter, SameSlots
    <3> QED BY <3>1, <3>2, <1>2, BalanceKept
  <2> QED BY <2>3, <2>4
<1> QED BY <1>4, <1>5

\* A run's reservation is taken before the job is queued, moves into the queue
\* with it, or is given back.
LEMMA ReservationBalance ==
    ASSUME TypeInv, PostsInv, NEW r \in Runs, RunInv(r), RunNext(r),
           ReserveRetry(r) \/ EnqueueIngest(r) \/ Unreserve(r),
           NEW j \in Jobs, Balanced(j), trigger'[j] = trigger[j]
    PROVE  Balanced(j)'
<1>0. /\ runPc \in [Runs -> RunPcs] /\ runJob \in [Runs -> Jobs \cup {NoJob}] /\ runJob[r] \in Jobs
      /\ runPost[r] \in Posts /\ runPost[r] # NoPost
  BY PostsAssumption DEF TypeInv, RunsInv, RunsOK, RunReady, ReserveRetry, EnqueueIngest, Unreserve
<1>1. RunHolds(r, j)' <=> RunHolds(r, j)
  BY <1>0 DEF ReserveRetry, EnqueueIngest, Unreserve, RunHolds
<1>2. RunSlots(j)' = RunSlots(j) /\ HookSlots(j)' = HookSlots(j) /\ TargetSlots(j)' = TargetSlots(j)
  BY <1>1, RunSlotsAfter, SameSlots DEF ReserveRetry, EnqueueIngest, Unreserve, taskVars
<1>3. IsFiniteSet(ReserveSlots(j)) /\ IsFiniteSet(TaskSlots(j))
  BY SlotsFinite
<1>4. CASE ReserveRetry(r)
  <2>1. TaskSlots(j)' = TaskSlots(j)
    BY <1>4, SameSlots DEF ReserveRetry, taskVars
  <2>2. ~Reserves(r, j) /\ (Reserves(r, j)' <=> j = runJob[r])
    BY <1>0, <1>4 DEF ReserveRetry, Reserves, RunGoes
  <2>3. CASE j = runJob[r]
    <3>1. ReserveSlots(j)' = ReserveSlots(j) \cup {r} /\ r \notin ReserveSlots(j)
      BY <2>2, <2>3, RunSlotsAfter DEF ReserveSlots
    <3>2. Cardinality(ReserveSlots(j)') = Cardinality(ReserveSlots(j)) + 1
      BY <3>1, <1>3, OneMore
    <3>3. Held(j)' = Held(j) + 1
      BY <3>2, <1>2, <2>1, CountsNat DEF Held
    <3> QED BY <3>3, <2>3, <1>0, <1>4, AcquireMoves, BalanceMoves DEF ReserveRetry
  <2>4. CASE j # runJob[r]
    <3>1. ReserveSlots(j)' = ReserveSlots(j)
      BY <2>2, <2>4, RunSlotsAfter
    <3> QED BY <3>1, <2>1, <2>4, <1>0, <1>2, <1>4, AcquireMoves, BalanceKept DEF ReserveRetry
  <2> QED BY <2>3, <2>4
<1>5. CASE Unreserve(r)
  <2>1. TaskSlots(j)' = TaskSlots(j)
    BY <1>5, SameSlots DEF Unreserve, taskVars
  <2>2. ~Reserves(r, j)' /\ (Reserves(r, j) <=> j = runJob[r])
    BY <1>0, <1>5 DEF Unreserve, Reserves, RunGoes
  <2>3. CASE j = runJob[r]
    <3>1. ReserveSlots(j)' = ReserveSlots(j) \ {r} /\ r \in ReserveSlots(j)
      BY <2>2, <2>3, RunSlotsAfter DEF ReserveSlots
    <3>2. Cardinality(ReserveSlots(j)') = Cardinality(ReserveSlots(j)) - 1 /\ Cardinality(ReserveSlots(j)) > 0
      BY <3>1, <1>3, OneLess
    <3>3. Held(j)' = Held(j) + (-1) /\ Held(j) > 0
      BY <3>2, <1>2, <2>1, CountsNat DEF Held
    <3> QED BY <3>3, <2>3, <1>0, <1>5, ReleaseMoves, BalanceMoves DEF Unreserve
  <2>4. CASE j # runJob[r]
    <3>1. ReserveSlots(j)' = ReserveSlots(j)
      BY <2>2, <2>4, RunSlotsAfter
    <3> QED BY <3>1, <2>1, <2>4, <1>0, <1>2, <1>5, ReleaseMoves, BalanceKept DEF Unreserve
  <2> QED BY <2>3, <2>4
<1>6. CASE EnqueueIngest(r)
  <2>0. PICK p \in Posts : p = runPost[r]
    BY <1>0
  <2>1. /\ taskPc' = [taskPc EXCEPT ![p] = "queued"] /\ taskJob' = [taskJob EXCEPT ![p] = runJob[r]]
        /\ taskPc[p] = "none" /\ inflight' = inflight
    BY <2>0, <1>0, <1>6 DEF EnqueueIngest, PostsInv, jobVars
  <2>2. ~Reserves(r, j)' /\ (Reserves(r, j) <=> j = runJob[r])
    BY <1>0, <1>6 DEF EnqueueIngest, Reserves, RunGoes
  <2>3. p \notin TaskSlots(j) /\ TaskSlots(j)' = IF j = runJob[r] THEN TaskSlots(j) \cup {p} ELSE TaskSlots(j)
    BY <2>1 DEF TaskSlots, TaskHolds, TypeInv, TasksInv, TasksOK
  <2>4. CASE j = runJob[r]
    <3>1. ReserveSlots(j)' = ReserveSlots(j) \ {r} /\ r \in ReserveSlots(j)
      BY <2>2, <2>4, RunSlotsAfter DEF ReserveSlots
    <3>2. Cardinality(ReserveSlots(j)') = Cardinality(ReserveSlots(j)) - 1
      BY <3>1, <1>3, OneLess
    <3>3. Cardinality(TaskSlots(j)') = Cardinality(TaskSlots(j)) + 1
      BY <2>3, <2>4, <1>3, OneMore
    <3>4. Held(j)' = Held(j) + 0
      BY <3>2, <3>3, <1>2, CountsNat DEF Held
    <3>5. inflight'[j] = inflight[j] + 0
      BY <2>1 DEF TypeInv, JobsOK
    <3> QED BY <3>4, <3>5, BalanceMoves
  <2>5. CASE j # runJob[r]
    <3>1. ReserveSlots(j)' = ReserveSlots(j)
      BY <2>2, <2>5, RunSlotsAfter
    <3> QED BY <3>1, <2>1, <2>3, <2>5, <1>2, BalanceKept
  <2> QED BY <2>4, <2>5
<1> QED BY <1>4, <1>5, <1>6

\* A run leaves its cycle; a dying one only leaks what it held.
LEMMA LeavingBalance ==
    ASSUME TypeInv, NEW r \in Runs, RunInv(r), RunNext(r), LeaveCycle(r) \/ CrashRun(r),
           NEW j \in Jobs, Balanced(j), trigger'[j] = trigger[j]
    PROVE  Balanced(j)'
<1>0. /\ runPc \in [Runs -> RunPcs] /\ runJob \in [Runs -> Jobs \cup {NoJob}]
      /\ LeaveCycle(r) => runJob[r] \in Jobs
      /\ NoJob # j
  BY DEF TypeInv, RunsInv, RunsOK, RunReady, LeaveCycle, NoJob, Jobs
<1>1. TaskSlots(j)' = TaskSlots(j) /\ HookSlots(j)' = HookSlots(j) /\ TargetSlots(j)' = TargetSlots(j)
  BY SameSlots DEF LeaveCycle, CrashRun, taskVars
<1>2. ~RunHolds(r, j)' /\ ~Reserves(r, j)'
  BY <1>0 DEF LeaveCycle, CrashRun, RunStops, RunHolds, Reserves
<1>3. RunSlots(j)' = RunSlots(j) \ {r} /\ ReserveSlots(j)' = ReserveSlots(j) \ {r}
  BY <1>2, RunSlotsAfter
<1>4. IsFiniteSet(RunSlots(j)) /\ IsFiniteSet(ReserveSlots(j))
  BY SlotsFinite
<1>5. CASE LeaveCycle(r)
  <2>1. ~Reserves(r, j) /\ (RunHolds(r, j) <=> j = runJob[r])
    BY <1>5 DEF LeaveCycle, Reserves, RunHolds, RunInv
  <2>2. ReserveSlots(j)' = ReserveSlots(j)
    BY <2>1, <1>3 DEF ReserveSlots
  <2>3. CASE j = runJob[r]
    <3>1. r \in RunSlots(j)
      BY <2>1, <2>3 DEF RunSlots
    <3>2. Cardinality(RunSlots(j)') = Cardinality(RunSlots(j)) - 1 /\ Cardinality(RunSlots(j)) > 0
      BY <3>1, <1>3, <1>4, OneLess
    <3>3. Held(j)' = Held(j) + (-1) /\ Held(j) > 0
      BY <3>2, <2>2, <1>1, CountsNat DEF Held
    <3> QED BY <3>3, <2>3, <1>0, <1>5, ReleaseMoves, BalanceMoves DEF LeaveCycle
  <2>4. CASE j # runJob[r]
    <3>1. RunSlots(j)' = RunSlots(j)
      BY <2>1, <2>4, <1>3 DEF RunSlots
    <3> QED BY <3>1, <2>2, <2>4, <1>0, <1>1, <1>5, ReleaseMoves, BalanceKept DEF LeaveCycle
  <2> QED BY <2>3, <2>4
<1>6. CASE CrashRun(r)
  <2>1. "runCrash" \in Faults /\ inflight' = inflight
    BY <1>6 DEF CrashRun, Spend, jobVars
  <2>2. /\ Cardinality(RunSlots(j)') <= Cardinality(RunSlots(j)) /\ Cardinality(RunSlots(j)') \in Nat
        /\ Cardinality(ReserveSlots(j)') <= Cardinality(ReserveSlots(j)) /\ Cardinality(ReserveSlots(j)') \in Nat
    <3>1. RunSlots(j)' \in SUBSET RunSlots(j) /\ ReserveSlots(j)' \in SUBSET ReserveSlots(j)
      BY <1>3
    <3> QED BY <3>1, <1>4, FS_Subset, FS_CardinalityType
  <2>3. Held(j)' <= Held(j)
    BY <2>2, <1>1, CountsNat DEF Held
  <2>4. Held(j) \in Nat /\ Held(j)' \in Nat /\ inflight[j] \in Nat
    BY <2>2, <1>1, CountsNat, HoldersCount DEF Held, TypeInv, JobsOK
  <2> QED BY <2>1, <2>3, <2>4 DEF Balanced
<1> QED BY <1>5, <1>6

\* Together: every step of a run keeps the open jobs' slots balanced.
LEMMA RunBalance ==
    ASSUME TypeInv, RowsInv, RowsInv', PostsInv, OpenKept, NEW r \in Runs, RunInv(r), RunNext(r),
           NEW j \in Jobs, status[j] \in Open => Balanced(j), status'[j] \in Open
    PROVE  Balanced(j)'
<1>1. CASE \E i \in Jobs : EnsureJob(r, i)
  BY <1>1, EnsureBalance
<1>2. CASE UNCHANGED rows
  <2>1. Balanced(j) /\ trigger'[j] = trigger[j]
    BY <1>2, StaysOpen DEF RowsInv
  <2>2. CASE ReserveRetry(r) \/ EnqueueIngest(r) \/ Unreserve(r)
    BY <2>1, <2>2, ReservationBalance
  <2>3. CASE LeaveCycle(r) \/ CrashRun(r)
    BY <2>1, <2>3, LeavingBalance
  <2>4. CASE ~RunHandsOver(r)
    <3>1. /\ UNCHANGED <<inflight, taskVars>> /\ (RunHolds(r, j)' <=> RunHolds(r, j))
          /\ Reserves(r, j)' <=> Reserves(r, j)
      BY <2>4, RunElsewhere
    <3>2. RunSlots(j)' = RunSlots(j) /\ ReserveSlots(j)' = ReserveSlots(j)
      BY <3>1, RunSlotsAfter
    <3>3. TaskSlots(j)' = TaskSlots(j) /\ HookSlots(j)' = HookSlots(j) /\ TargetSlots(j)' = TargetSlots(j)
      BY <3>1, <2>1, SameSlots DEF taskVars
    <3> QED BY <3>1, <3>2, <3>3, <2>1, BalanceKept
  <2> QED BY <1>1, <2>2, <2>3, <2>4 DEF RunHandsOver
<1>3. RunHandsOver(r) => (\E i \in Jobs : EnsureJob(r, i)) \/ UNCHANGED rows
  BY DEF RunHandsOver, ReserveRetry, EnqueueIngest, Unreserve, LeaveCycle, CrashRun, jobVars
<1> QED BY <1>1, <1>2, <1>3, RunElsewhere

\* Giving a slot back balances a job that loses one holder with it.
LEMMA SlotGivenBack ==
    ASSUME TypeInv, NEW i \in Jobs, Release(i), NEW j \in Jobs, Balanced(j),
           j = i => Held(j)' = Held(j) + (-1) /\ Held(j) > 0,
           j # i => Held(j)' = Held(j)
    PROVE  Balanced(j)'
<1>1. CASE j = i
  BY <1>1, ReleaseMoves, BalanceMoves
<1>2. CASE j # i
  <2>1. inflight'[j] = inflight[j] + 0 /\ Held(j)' = Held(j) + 0
    BY <1>2, ReleaseMoves, HoldersCount DEF TypeInv, JobsOK
  <2> QED BY <2>1, BalanceMoves
<1> QED BY <1>1, <1>2

\* The holders among the scoring jobs after a step of post p's.
LEMMA TaskSlotsAfter ==
    ASSUME TypeInv, NEW p \in Posts, TaskNext(p), NEW j
    PROVE  /\ RunSlots(j)' = RunSlots(j) /\ ReserveSlots(j)' = ReserveSlots(j)
           /\ (TaskHolds(p, j)' <=> TaskHolds(p, j)) => TaskSlots(j)' = TaskSlots(j)
           /\ ~TaskHolds(p, j)' => TaskSlots(j)' = TaskSlots(j) \ {p}
           /\ (HookHolds(p, j)' <=> HookHolds(p, j)) => HookSlots(j)' = HookSlots(j)
           /\ HookHolds(p, j)' => HookSlots(j)' = HookSlots(j) \cup {p}
           /\ ~HookHolds(p, j)' => HookSlots(j)' = HookSlots(j) \ {p}
           /\ trigger'[j] = trigger[j] =>
                 /\ (TargetHolds(p, j)' <=> TargetHolds(p, j)) => TargetSlots(j)' = TargetSlots(j)
                 /\ TargetHolds(p, j)' => TargetSlots(j)' = TargetSlots(j) \cup {p}
                 /\ ~TargetHolds(p, j)' => TargetSlots(j)' = TargetSlots(j) \ {p}
<1>0. /\ taskPc \in [Posts -> TaskPcs] /\ taskJob \in [Posts -> Jobs \cup {NoJob}]
      /\ target \in [Posts -> Jobs \cup {NoJob}] /\ hook \in [Posts -> Jobs \cup {NoJob}]
  BY DEF TypeInv, TasksInv, TasksOK
<1>1. \A o \in Posts \ {p} : /\ taskPc'[o] = taskPc[o] /\ taskJob'[o] = taskJob[o]
                             /\ target'[o] = target[o] /\ hook'[o] = hook[o]
  BY <1>0, AttemptFailedMoves
     DEF TaskNext, TakeTask, ReleaseClosed, ChooseCycle, ReadForScore, ScoreStage, Scored, TextRemoved, FailOwn,
         FailTarget, ReleaseSlot, LeaveTarget, EmbedIfGated, EmbedFails, ReleaseFailed, CrashWorker,
         SweepUnscored, RemoveText, TaskGoes, TaskEnds, taskVars
<1>2. UNCHANGED <<runPc, runJob>>
  BY DEF TaskNext, TakeTask, ReleaseClosed, ChooseCycle, ReadForScore, ScoreStage, Scored, TextRemoved, FailOwn,
         FailTarget, ReleaseSlot, LeaveTarget, EmbedIfGated, EmbedFails, ReleaseFailed, CrashWorker,
         SweepUnscored, RemoveText, runVars
<1>3. \A o \in Posts \ {p} : (TaskHolds(o, j)' <=> TaskHolds(o, j)) /\ (HookHolds(o, j)' <=> HookHolds(o, j))
  BY <1>1 DEF TaskHolds, HookHolds
<1>4. trigger'[j] = trigger[j] => \A o \in Posts \ {p} : TargetHolds(o, j)' <=> TargetHolds(o, j)
  BY <1>1 DEF TargetHolds
<1>5. RunSlots(j)' = RunSlots(j) /\ ReserveSlots(j)' = ReserveSlots(j)
  BY <1>2, SameSlots
<1>6. /\ (TaskHolds(p, j)' <=> TaskHolds(p, j)) => TaskSlots(j)' = TaskSlots(j)
      /\ ~TaskHolds(p, j)' => TaskSlots(j)' = TaskSlots(j) \ {p}
  BY <1>3 DEF TaskSlots
<1>7. /\ (HookHolds(p, j)' <=> HookHolds(p, j)) => HookSlots(j)' = HookSlots(j)
      /\ HookHolds(p, j)' => HookSlots(j)' = HookSlots(j) \cup {p}
      /\ ~HookHolds(p, j)' => HookSlots(j)' = HookSlots(j) \ {p}
  BY <1>3 DEF HookSlots
<1>8. trigger'[j] = trigger[j] =>
         /\ (TargetHolds(p, j)' <=> TargetHolds(p, j)) => TargetSlots(j)' = TargetSlots(j)
         /\ TargetHolds(p, j)' => TargetSlots(j)' = TargetSlots(j) \cup {p}
         /\ ~TargetHolds(p, j)' => TargetSlots(j)' = TargetSlots(j) \ {p}
  BY <1>4 DEF TargetSlots
<1> QED BY <1>5, <1>6, <1>7, <1>8

\* The reserved slot is released once the post is scored, its text is gone, or
\* its job was closed.
LEMMA OwnReleaseBalance ==
    ASSUME TypeInv, NEW p \in Posts, TaskNext(p), ReleaseClosed(p) \/ ReleaseSlot(p),
           NEW j \in Jobs, Balanced(j), trigger'[j] = trigger[j]
    PROVE  Balanced(j)'
<1>0. /\ taskPc \in [Posts -> TaskPcs] /\ taskJob[p] \in Jobs /\ Release(taskJob[p]) /\ UNCHANGED <<hook, target>>
      /\ taskPc[p] \in {"release", "releaseRemoved", "releaseClosed"}
      /\ taskPc'[p] \in {"choose", "embed", "none"}
  BY DEF TypeInv, TasksInv, TasksOK, TaskReady, ReleaseClosed, ReleaseSlot, TaskGoes, TaskEnds
<1>1. PICK i \in Jobs : i = taskJob[p]
  BY <1>0
<1>2. ~TaskHolds(p, j)' /\ (TaskHolds(p, j) <=> j = i)
  BY <1>0, <1>1 DEF TaskHolds
<1>3. /\ RunSlots(j)' = RunSlots(j) /\ ReserveSlots(j)' = ReserveSlots(j)
      /\ HookSlots(j)' = HookSlots(j) /\ TargetSlots(j)' = TargetSlots(j)
      /\ TaskSlots(j)' = TaskSlots(j) \ {p}
  BY <1>0, <1>2, TaskSlotsAfter, SameSlots
<1>4. ASSUME j = i PROVE Held(j)' = Held(j) + (-1) /\ Held(j) > 0
  <2>1. p \in TaskSlots(j) /\ IsFiniteSet(TaskSlots(j))
    BY <1>2, <1>4, SlotsFinite DEF TaskSlots
  <2>2. Cardinality(TaskSlots(j)') = Cardinality(TaskSlots(j)) - 1 /\ Cardinality(TaskSlots(j)) > 0
    BY <1>3, <2>1, OneLess
  <2> QED BY <2>2, <1>3, CountsNat DEF Held
<1>5. ASSUME j # i PROVE Held(j)' = Held(j)
  <2>1. TaskSlots(j)' = TaskSlots(j)
    BY <1>2, <1>5, TaskSlotsAfter
  <2> QED BY <2>1, <1>3 DEF Held
<1> QED BY <1>0, <1>1, <1>4, <1>5, SlotGivenBack

\* The handler of the 'failed' event releases the slot it was handed.
LEMMA HookReleaseBalance ==
    ASSUME TypeInv, NEW p \in Posts, TaskNext(p), ReleaseFailed(p),
           NEW j \in Jobs, Balanced(j), trigger'[j] = trigger[j]
    PROVE  Balanced(j)'
<1>0. /\ hook \in [Posts -> Jobs \cup {NoJob}] /\ hook[p] \in Jobs /\ Release(hook[p])
      /\ UNCHANGED <<taskPc, taskJob, target>> /\ hook'[p] = NoJob /\ NoJob # j
  BY DEF TypeInv, TasksInv, TasksOK, ReleaseFailed, NoJob, Jobs
<1>1. PICK i \in Jobs : i = hook[p]
  BY <1>0
<1>2. ~HookHolds(p, j)' /\ (HookHolds(p, j) <=> j = i)
  BY <1>0, <1>1 DEF HookHolds
<1>3. /\ RunSlots(j)' = RunSlots(j) /\ ReserveSlots(j)' = ReserveSlots(j)
      /\ TaskSlots(j)' = TaskSlots(j) /\ TargetSlots(j)' = TargetSlots(j)
      /\ HookSlots(j)' = HookSlots(j) \ {p}
  BY <1>0, <1>2, TaskSlotsAfter, SameSlots
<1>4. ASSUME j = i PROVE Held(j)' = Held(j) + (-1) /\ Held(j) > 0
  <2>1. p \in HookSlots(j) /\ IsFiniteSet(HookSlots(j))
    BY <1>2, <1>4, SlotsFinite DEF HookSlots
  <2>2. Cardinality(HookSlots(j)') = Cardinality(HookSlots(j)) - 1 /\ Cardinality(HookSlots(j)) > 0
    BY <1>3, <2>1, OneLess
  <2> QED BY <2>2, <1>3, CountsNat DEF Held
<1>5. ASSUME j # i PROVE Held(j)' = Held(j)
  <2>1. HookSlots(j)' = HookSlots(j)
    BY <1>2, <1>5, TaskSlotsAfter
  <2> QED BY <2>1, <1>3 DEF Held
<1> QED BY <1>0, <1>1, <1>4, <1>5, SlotGivenBack

\* A scoring job leaves the cycle it joined. If it is attempted again, or its
\* 'failed' event is still to be handled, its own job is no longer open.
LEMMA LeaveBalance ==
    ASSUME TypeInv, NEW p \in Posts, TaskInv(p), TaskNext(p), LeaveTarget(p),
           NEW j \in Jobs, status[j] \in Open, Balanced(j), trigger'[j] = trigger[j]
    PROVE  Balanced(j)'
<1>0. /\ taskPc \in [Posts -> TaskPcs] /\ taskJob \in [Posts -> Jobs \cup {NoJob}]
      /\ target \in [Posts -> Jobs \cup {NoJob}] /\ hook \in [Posts -> Jobs \cup {NoJob}]
      /\ taskPc[p] \in {"leave", "leaveFailed", "leaveRemoved"} /\ target[p] \in Jobs
      /\ target[p] # NoJob /\ NoJob # j
  BY DEF TypeInv, TasksInv, TasksOK, TaskReady, LeaveTarget, NoJob, Jobs
<1>1. PICK i \in Jobs : i = target[p]
  BY <1>0
<1>2. trigger[i] = "cron" /\ Release(i) /\ target'[p] = NoJob /\ taskJob[p] # j
  BY <1>0, <1>1 DEF TaskInv, LeaveTarget, Joined
<1>3. ~TaskHolds(p, j)' /\ ~TaskHolds(p, j)
  BY <1>0, <1>2, AttemptFailedMoves DEF LeaveTarget, TaskGoes, TaskEnds, TaskHolds
<1>4. HookHolds(p, j)' <=> HookHolds(p, j)
  BY <1>0, <1>2, AttemptFailedMoves DEF LeaveTarget, TaskInv, HookHolds
<1>5. ~TargetHolds(p, j)' /\ (TargetHolds(p, j) <=> j = i)
  BY <1>0, <1>1, <1>2 DEF TargetHolds
<1>6. /\ RunSlots(j)' = RunSlots(j) /\ ReserveSlots(j)' = ReserveSlots(j)
      /\ TaskSlots(j)' = TaskSlots(j) /\ HookSlots(j)' = HookSlots(j)
      /\ TargetSlots(j)' = TargetSlots(j) \ {p}
  BY <1>3, <1>4, <1>5, TaskSlotsAfter
<1>7. ASSUME j = i PROVE Held(j)' = Held(j) + (-1) /\ Held(j) > 0
  <2>1. p \in TargetSlots(j) /\ IsFiniteSet(TargetSlots(j))
    BY <1>5, <1>7, SlotsFinite DEF TargetSlots
  <2>2. Cardinality(TargetSlots(j)') = Cardinality(TargetSlots(j)) - 1 /\ Cardinality(TargetSlots(j)) > 0
    BY <1>6, <2>1, OneLess
  <2> QED BY <2>2, <1>6, CountsNat DEF Held
<1>8. ASSUME j # i PROVE Held(j)' = Held(j)
  <2>1. TargetSlots(j)' = TargetSlots(j)
    BY <1>5, <1>8, TaskSlotsAfter
  <2> QED BY <2>1, <1>6 DEF Held
<1> QED BY <1>2, <1>7, <1>8, SlotGivenBack

\* A failed attempt keeps the reserved slot, or hands it to the 'failed' event.
LEMMA FailOwnBalance ==
    ASSUME TypeInv, NEW p \in Posts, TaskInv(p), TaskNext(p), FailOwn(p),
           NEW j \in Jobs, Balanced(j), trigger'[j] = trigger[j]
    PROVE  Balanced(j)'
<1>0. /\ taskPc \in [Posts -> TaskPcs] /\ taskJob \in [Posts -> Jobs \cup {NoJob}]
      /\ hook \in [Posts -> Jobs \cup {NoJob}]
      /\ taskPc[p] = "scoreOwn" /\ taskJob[p] \in Jobs /\ taskJob[p] # NoJob /\ hook[p] = NoJob
      /\ UNCHANGED <<inflight, target>> /\ AttemptFailed(p) /\ NoJob # j
  BY DEF TypeInv, TasksInv, TasksOK, TaskReady, TaskInv, FailOwn, jobVars, NoJob, Jobs
<1>1. /\ RunSlots(j)' = RunSlots(j) /\ ReserveSlots(j)' = ReserveSlots(j) /\ TargetSlots(j)' = TargetSlots(j)
  BY <1>0, TaskSlotsAfter, SameSlots
<1>2. CASE taskPc' = [taskPc EXCEPT ![p] = "queued"] /\ UNCHANGED <<taskJob, hook>>
  <2>1. TaskHolds(p, j)' <=> TaskHolds(p, j)
    BY <1>0, <1>2 DEF TaskHolds
  <2>2. TaskSlots(j)' = TaskSlots(j) /\ HookSlots(j)' = HookSlots(j)
    BY <2>1, <1>2, TaskSlotsAfter, SameSlots
  <2> QED BY <2>2, <1>0, <1>1, BalanceKept
<1>3. CASE /\ taskPc' = [taskPc EXCEPT ![p] = "none"] /\ taskJob' = [taskJob EXCEPT ![p] = NoJob]
           /\ hook' = [hook EXCEPT ![p] = IF taskJob[p] = NoJob THEN @ ELSE taskJob[p]]
  <2>1. /\ ~TaskHolds(p, j)' /\ (TaskHolds(p, j) <=> j = taskJob[p])
        /\ ~HookHolds(p, j) /\ (HookHolds(p, j)' <=> j = taskJob[p])
    BY <1>0, <1>3 DEF TaskHolds, HookHolds
  <2>2. CASE j = taskJob[p]
    <3>1. TaskSlots(j)' = TaskSlots(j) \ {p} /\ HookSlots(j)' = HookSlots(j) \cup {p}
      BY <2>1, <2>2, TaskSlotsAfter
    <3>2. p \in TaskSlots(j) /\ p \notin HookSlots(j)
      BY <2>1, <2>2 DEF TaskSlots, HookSlots
    <3>5. Cardinality(TaskSlots(j)') = Cardinality(TaskSlots(j)) - 1
      BY <3>1, <3>2, SlotsFinite, OneLess
    <3>6. Cardinality(HookSlots(j)') = Cardinality(HookSlots(j)) + 1
      BY <3>1, <3>2, SlotsFinite, OneMore
    <3>3. Held(j)' = Held(j) + 0
      BY <3>5, <3>6, <1>1, CountsNat DEF Held
    <3>4. inflight'[j] = inflight[j] + 0
      BY <1>0 DEF TypeInv, JobsOK
    <3> QED BY <3>3, <3>4, BalanceMoves
  <2>3. CASE j # taskJob[p]
    <3>1. TaskSlots(j)' = TaskSlots(j) /\ HookSlots(j)' = HookSlots(j)
      BY <2>1, <2>3, TaskSlotsAfter
    <3> QED BY <3>1, <1>0, <1>1, BalanceKept
  <2> QED BY <2>2, <2>3
<1> QED BY <1>0, <1>2, <1>3, AttemptFailedMoves

\* A scoring job without its own job joins the current cycle, or makes it.
LEMMA ChooseBalance ==
    ASSUME TypeInv, RowsInv, NEW p \in Posts, TaskInv(p), TaskNext(p), NEW i \in Jobs, ChooseCycle(p, i),
           NEW j \in Jobs, status[j] \in Open => Balanced(j), status'[j] \in Open
    PROVE  Balanced(j)'
<1>0. /\ taskPc \in [Posts -> TaskPcs] /\ target \in [Posts -> Jobs \cup {NoJob}] /\ NoJob # j
      /\ UNCHANGED <<taskJob, hook, runPc, runJob>> /\ taskPc[p] = "choose" /\ taskPc'[p] = "scoreTarget"
      /\ target' = [target EXCEPT ![p] = i]
  BY DEF TypeInv, TasksInv, TasksOK, ChooseCycle, TaskGoes, runVars, NoJob, Jobs
<1>6. target[p] = NoJob /\ trigger'[i] = "cron" /\ CurrentCycleJob(i)
  BY RetryJoinsCron
<1>1. ~TaskHolds(p, j)' /\ ~TaskHolds(p, j) /\ ~TargetHolds(p, j) /\ (TargetHolds(p, j)' <=> j = i)
  BY <1>0, <1>6 DEF TaskHolds, TargetHolds
<1>2. /\ RunSlots(j)' = RunSlots(j) /\ ReserveSlots(j)' = ReserveSlots(j)
      /\ TaskSlots(j)' = TaskSlots(j) /\ HookSlots(j)' = HookSlots(j)
  BY <1>0, <1>1, TaskSlotsAfter, SameSlots
<1>3. p \notin TargetSlots(j) /\ IsFiniteSet(TargetSlots(j))
  BY <1>1, SlotsFinite DEF TargetSlots
<1>4. CASE OpenCycles # {}
  <2>1. Acquire(i) /\ UNCHANGED <<status, trigger>> /\ Balanced(j)
    BY <1>6, <1>4 DEF CurrentCycleJob
  <2>2. CASE j = i
    <3>1. TargetSlots(j)' = TargetSlots(j) \cup {p}
      BY <2>1, <2>2, <1>1, TaskSlotsAfter
    <3>2. Cardinality(TargetSlots(j)') = Cardinality(TargetSlots(j)) + 1
      BY <3>1, <1>3, OneMore
    <3>3. Held(j)' = Held(j) + 1
      BY <3>2, <1>2, CountsNat DEF Held
    <3> QED BY <3>3, <2>1, <2>2, AcquireMoves, BalanceMoves
  <2>3. CASE j # i
    <3>1. TargetSlots(j)' = TargetSlots(j)
      BY <2>1, <2>3, <1>1, TaskSlotsAfter
    <3> QED BY <3>1, <2>1, <2>3, <1>2, AcquireMoves, BalanceKept
  <2> QED BY <2>2, <2>3
<1>5. CASE OpenCycles = {}
  <2>1. i = rows + 1 /\ InsertJob("cron", 1)
    BY <1>6, <1>5 DEF CurrentCycleJob
  <2>2. CASE j = i
    <3>1. /\ RunSlots(j) = {} /\ ReserveSlots(j) = {} /\ TaskSlots(j) = {} /\ HookSlots(j) = {}
          /\ \A o \in Posts : target[o] # j
      BY <2>1, <2>2, NewRowUnheld
    <3>2. \A o \in Posts \ {p} : target'[o] # j
      BY <3>1, <1>0 DEF ChooseCycle
    <3>3. TargetSlots(j)' = {p}
      BY <3>2, <2>2, <1>1 DEF TargetSlots, TargetHolds
    <3>4. Cardinality(TargetSlots(j)') = 1
      BY <3>3, FS_Singleton, Zenon
    <3>5. Held(j)' = 1
      BY <3>1, <3>4, <1>2, FS_EmptySet DEF Held
    <3>6. inflight'[j] = 1
      BY <2>1, <2>2, InsertElsewhere
    <3> QED BY <3>5, <3>6, BalancedAtOnce
  <2>3. CASE j # i
    <3>1. inflight'[j] = inflight[j] /\ status'[j] = status[j] /\ trigger'[j] = trigger[j]
      BY <2>1, <2>3, InsertElsewhere
    <3>2. TargetSlots(j)' = TargetSlots(j)
      BY <3>1, <2>3, <1>1, TaskSlotsAfter
    <3> QED BY <3>1, <3>2, <1>2, BalanceKept
  <2> QED BY <2>2, <2>3
<1> QED BY <1>4, <1>5

\* The steps of a scoring job that take, move or give back a slot.
TaskHandsOver(p) ==
    \/ \E j \in Jobs : ChooseCycle(p, j)
    \/ ReleaseClosed(p) \/ ReleaseSlot(p) \/ ReleaseFailed(p) \/ LeaveTarget(p) \/ FailOwn(p)

\* Any other step of a scoring job changes no holder and no counter, unless a
\* scored job is attempted again: when its embed enqueue fails or its worker dies.
LEMMA TaskElsewhere ==
    ASSUME TypeInv, "embed" \notin Faults, "workerCrash" \notin Faults,
           NEW p \in Posts, TaskInv(p), TaskNext(p), ~TaskHandsOver(p), NEW j \in Jobs
    PROVE  /\ UNCHANGED <<rows, inflight, trigger, target, hook>>
           /\ TaskHolds(p, j)' <=> TaskHolds(p, j)
<1>0. /\ taskPc \in [Posts -> TaskPcs] /\ taskJob \in [Posts -> Jobs \cup {NoJob}] /\ NoJob # j
  BY DEF TypeInv, TasksInv, TasksOK, NoJob, Jobs
<1>1. CASE TakeTask(p) \/ Scored(p) \/ TextRemoved(p) \/ FailTarget(p)
  BY <1>0, <1>1 DEF TakeTask, Scored, TextRemoved, FailTarget, Scoring, TaskGoes, TaskHolds, jobVars
<1>2. CASE (\E s \in Stages : ReadForScore(p, s) \/ ScoreStage(p, s)) \/ RemoveText(p)
  BY <1>0, <1>2 DEF ReadForScore, ScoreStage, RemoveText, TaskHolds, jobVars, taskVars
<1>3. CASE EmbedIfGated(p) \/ SweepUnscored(p)
  BY <1>0, <1>3 DEF EmbedIfGated, SweepUnscored, TaskGoes, TaskEnds, TaskHolds, jobVars
<1>4. ~EmbedFails(p) /\ ~CrashWorker(p)
  BY DEF EmbedFails, CrashWorker, Spend
<1> QED BY <1>1, <1>2, <1>3, <1>4 DEF TaskNext, TaskHandsOver

\* Together: every step of a scoring job keeps the open jobs' slots balanced.
LEMMA TaskBalance ==
    ASSUME TypeInv, "embed" \notin Faults, "workerCrash" \notin Faults,
           RowsInv, RowsInv', OpenKept, NEW p \in Posts, TaskInv(p), TaskNext(p),
           NEW j \in Jobs, status[j] \in Open => Balanced(j), status'[j] \in Open
    PROVE  Balanced(j)'
<1>1. CASE \E i \in Jobs : ChooseCycle(p, i)
  BY <1>1, ChooseBalance
<1>2. CASE UNCHANGED rows
  <2>1. status[j] \in Open /\ Balanced(j) /\ trigger'[j] = trigger[j]
    BY <1>2, StaysOpen DEF RowsInv
  <2>2. CASE ReleaseClosed(p) \/ ReleaseSlot(p)
    BY <2>1, <2>2, OwnReleaseBalance
  <2>3. CASE ReleaseFailed(p)
    BY <2>1, <2>3, HookReleaseBalance
  <2>4. CASE LeaveTarget(p)
    BY <2>1, <2>4, LeaveBalance
  <2>5. CASE FailOwn(p)
    BY <2>1, <2>5, FailOwnBalance
  <2>6. CASE ~TaskHandsOver(p)
    <3>1. UNCHANGED <<inflight, target, hook>> /\ (TaskHolds(p, j)' <=> TaskHolds(p, j))
      BY <2>6, TaskElsewhere
    <3>2. /\ RunSlots(j)' = RunSlots(j) /\ ReserveSlots(j)' = ReserveSlots(j)
          /\ TaskSlots(j)' = TaskSlots(j) /\ HookSlots(j)' = HookSlots(j) /\ TargetSlots(j)' = TargetSlots(j)
      BY <3>1, <2>1, TaskSlotsAfter, SameSlots
    <3> QED BY <3>1, <3>2, <2>1, BalanceKept
  <2> QED BY <1>1, <2>2, <2>3, <2>4, <2>5, <2>6 DEF TaskHandsOver
<1>3. TaskHandsOver(p) => (\E i \in Jobs : ChooseCycle(p, i)) \/ UNCHANGED rows
  BY DEF TaskHandsOver, ReleaseClosed, ReleaseSlot, ReleaseFailed, LeaveTarget, FailOwn, jobVars
<1> QED BY <1>1, <1>2, <1>3, TaskElsewhere

-----------------------------------------------------------------------------
(* The other actors - closers, requests, stragglers, the stale-job sweeper,
   time - take and give no slot.                                            *)
OtherStep ==
    \/ \E c \in Closers : CloserNext(c)
    \/ \E q \in Requests : RequestNext(q)
    \/ \E p \in Posts, s \in Stages, j \in Jobs : LateSave(p, s, j)
    \/ SweepStaleJobs
    \/ \E j \in Jobs : Tick(j) \/ GoQuiet(j)
    \/ MinutePasses
    \/ UNCHANGED vars

\* At most a refresh row is inserted, which nobody is in yet.
LEMMA OtherFrame ==
    ASSUME OtherStep
    PROVE  /\ UNCHANGED <<runPc, runJob, runPost, stored, taskVars>>
           /\ UNCHANGED <<rows, inflight>> \/ InsertJob("api", 0)
<1>1. ASSUME NEW c \in Closers, CloserNext(c)
      PROVE  UNCHANGED <<runPc, runJob, runPost, stored, taskVars, rows, inflight>>
  BY <1>1 DEF CloserNext, ClaimDueCycles, CloserCounts, CloserChecks, CloserCheckFails, CloserFinishes,
              CrashCloser, jobVars, postVars, scoreVars, runVars
<1>2. ASSUME NEW q \in Requests, RequestNext(q)
      PROVE  /\ UNCHANGED <<runPc, runJob, runPost, stored, taskVars>>
             /\ UNCHANGED <<rows, inflight>> \/ InsertJob("api", 0)
  BY <1>2 DEF RequestNext, PostRefresh, CheckRefresh, InsertRefresh, EnqueueRefresh, EnqueueRefreshFails,
              FailRefresh, jobVars, postVars, scoreVars, runVars
<1>3. ASSUME NEW p \in Posts, NEW s \in Stages, NEW j \in Jobs, LateSave(p, s, j)
      PROVE  UNCHANGED <<runPc, runJob, runPost, stored, taskVars, rows, inflight>>
  BY <1>3 DEF LateSave, jobVars, runVars
<1>4. ASSUME NEW j \in Jobs, Tick(j) \/ GoQuiet(j)
      PROVE  UNCHANGED <<runPc, runJob, runPost, stored, taskVars, rows, inflight>>
  BY <1>4 DEF Tick, GoQuiet, postVars, scoreVars, runVars
<1>5. CASE SweepStaleJobs \/ MinutePasses \/ UNCHANGED vars
  BY <1>5 DEF SweepStaleJobs, MinutePasses, vars, jobVars, postVars, scoreVars, runVars
<1> QED BY <1>1, <1>2, <1>3, <1>4, <1>5 DEF OtherStep

\* So the open jobs' slots stay balanced.
LEMMA OtherBalance ==
    ASSUME TypeInv, RowsInv, RowsInv', OpenKept, OtherStep,
           NEW j \in Jobs, status[j] \in Open => Balanced(j), status'[j] \in Open
    PROVE  Balanced(j)'
<1>0. UNCHANGED <<runPc, runJob, taskPc, taskJob, target, hook>>
  BY OtherFrame DEF taskVars
<1>1. /\ RunSlots(j)' = RunSlots(j) /\ ReserveSlots(j)' = ReserveSlots(j)
      /\ TaskSlots(j)' = TaskSlots(j) /\ HookSlots(j)' = HookSlots(j)
      /\ trigger'[j] = trigger[j] => TargetSlots(j)' = TargetSlots(j)
  BY <1>0, SameSlots
<1>2. CASE UNCHANGED <<rows, inflight>>
  <2>1. Balanced(j) /\ trigger'[j] = trigger[j]
    BY <1>2, StaysOpen DEF RowsInv
  <2> QED BY <2>1, <1>1, <1>2, BalanceKept
<1>3. CASE InsertJob("api", 0)
  <2>1. CASE j = rows + 1
    <3>1. /\ RunSlots(j) = {} /\ ReserveSlots(j) = {} /\ TaskSlots(j) = {} /\ HookSlots(j) = {}
          /\ \A p \in Posts : target[p] # j
      BY <2>1, NewRowUnheld
    <3>2. TargetSlots(j)' = {}
      BY <3>1, <1>0 DEF TargetSlots, TargetHolds
    <3>3. Held(j)' = 0
      BY <3>1, <3>2, <1>1, FS_EmptySet DEF Held
    <3> QED BY <3>3, <1>3, <2>1, InsertElsewhere, BalancedAtOnce
  <2>2. CASE j # rows + 1
    <3>1. inflight'[j] = inflight[j] /\ status'[j] = status[j] /\ trigger'[j] = trigger[j]
      BY <1>3, <2>2, InsertElsewhere
    <3> QED BY <3>1, <1>1, BalanceKept
  <2> QED BY <2>1, <2>2
<1> QED BY <1>2, <1>3, OtherFrame

-----------------------------------------------------------------------------
(* The slots invariant.                                                     *)
\* Nothing is held at the start.
LEMMA SlotsInit ==
    ASSUME Init
    PROVE  SlotsInv
<1>1. \A j \in Jobs : j > rows /\ status[j] = "none"
  BY JobsAssumption DEF Init, Jobs
<1>2. RowsInv
  BY <1>1 DEF Init, RowsInv, Numbered, NoJob
<1>3. PostsInv
  BY DEF Init, PostsInv
<1>4. \A p \in Posts : TaskInv(p)
  BY DEF Init, TaskInv, Joined
<1>5. \A r \in Runs : RunInv(r)
  BY DEF Init, RunInv
<1>6. \A j \in Jobs : status[j] \notin Open
  BY <1>1 DEF Open
<1> QED BY <1>2, <1>3, <1>4, <1>5, <1>6 DEF SlotsInv

\* What is left when the slots are not counted.
WorkInv ==
    /\ RowsInv /\ PostsInv
    /\ \A p \in Posts : TaskInv(p)
    /\ \A r \in Runs : RunInv(r)

\* Every step keeps that much, whatever the faults.
LEMMA WorkStep ==
    ASSUME TypeInv, WorkInv, [Next]_vars
    PROVE  WorkInv'
<1>0. OpenKept /\ RowsInv /\ PostsInv /\ (\A p \in Posts : TaskInv(p)) /\ (\A r \in Runs : RunInv(r))
  BY NeverReopens DEF WorkInv
<1>1. ASSUME NEW r \in Runs, RunNext(r) PROVE WorkInv'
  <2>1. RowsInv'
    BY <1>0, <1>1, RowsRunStep
  <2>2. PostsInv' /\ (\A p \in Posts : TaskInv(p)') /\ (\A s \in Runs : RunInv(s)')
    BY <1>0, <1>1, PostsRunStep, TaskRunStep, RunRunStep
  <2> QED BY <2>1, <2>2 DEF WorkInv
<1>2. ASSUME NEW p \in Posts, TaskNext(p) PROVE WorkInv'
  <2>1. RowsInv'
    BY <1>0, <1>2, RowsTaskStep
  <2>2. PostsInv' /\ (\A o \in Posts : TaskInv(o)')
    BY <1>0, <1>2, PostsTaskStep, TaskTaskStep
  <2>3. ASSUME NEW r \in Runs PROVE RunInv(r)'
    <3>1. UNCHANGED <<runPc, runJob>>
      BY <1>2 DEF TaskNext, TakeTask, ReleaseClosed, ChooseCycle, ReadForScore, ScoreStage, Scored, TextRemoved, FailOwn,
             FailTarget, ReleaseSlot, LeaveTarget, EmbedIfGated, EmbedFails, ReleaseFailed, CrashWorker,
             SweepUnscored, RemoveText, runVars
    <3> QED BY <3>1, <1>0, RunFrame
  <2> QED BY <2>1, <2>2, <2>3 DEF WorkInv
<1>3. CASE OtherStep
  <2>1. RowsInv'
    BY <1>0, <1>3, RowsOtherStep DEF OtherStep
  <2>2. PostsInv'
    BY <1>0, <1>3, OtherFrame, PostsOtherStep DEF taskVars
  <2>3. ASSUME NEW p \in Posts PROVE TaskInv(p)'
    BY <1>0, <1>3, OtherFrame, TaskFrame DEF taskVars
  <2>4. ASSUME NEW r \in Runs PROVE RunInv(r)'
    BY <1>0, <1>3, OtherFrame, RunFrame
  <2> QED BY <2>1, <2>2, <2>3, <2>4 DEF WorkInv
<1> QED BY <1>1, <1>2, <1>3 DEF Next, OtherStep

\* Every step keeps the slots balanced as well. A scored job attempted again
\* (its embed enqueue fails, or its worker dies) would release its slot twice.
LEMMA SlotsStep ==
    ASSUME "embed" \notin Faults, "workerCrash" \notin Faults, TypeInv, SlotsInv, [Next]_vars
    PROVE  SlotsInv'
<1>0. /\ OpenKept /\ RowsInv /\ PostsInv /\ \A p \in Posts : TaskInv(p)
      /\ \A r \in Runs : RunInv(r)
      /\ \A j \in Jobs : status[j] \in Open => Balanced(j)
  BY NeverReopens DEF SlotsInv
<1>1. WorkInv'
  BY WorkStep DEF SlotsInv, WorkInv
<1>2. ASSUME NEW j \in Jobs, status'[j] \in Open PROVE Balanced(j)'
  <2>1. RowsInv'
    BY <1>1 DEF WorkInv
  <2>2. ASSUME NEW r \in Runs, RunNext(r) PROVE Balanced(j)'
    BY <1>0, <1>2, <2>1, <2>2, RunBalance
  <2>3. ASSUME NEW p \in Posts, TaskNext(p) PROVE Balanced(j)'
    BY <1>0, <1>2, <2>1, <2>3, TaskBalance
  <2>4. CASE OtherStep
    BY <1>0, <1>2, <2>1, <2>4, OtherBalance
  <2> QED BY <2>2, <2>3, <2>4 DEF Next, OtherStep
<1> QED BY <1>1, <1>2 DEF SlotsInv, WorkInv

\* The slots invariant holds in every state.
LEMMA SlotsAlways ==
    ASSUME "embed" \notin Faults, "workerCrash" \notin Faults
    PROVE  Spec => [](TypeInv /\ SlotsInv)
<1>1. Init => TypeInv /\ SlotsInv
  BY TypeInvInit, SlotsInit
<1>2. TypeInv /\ SlotsInv /\ [Next]_vars => (TypeInv /\ SlotsInv)'
  BY TypeInvStep, SlotsStep
<1> QED BY <1>1, <1>2, PTL DEF Spec

\* An open job's inflight_runs covers everything that may still add a post to
\* it (reserveRetry, releaseRetry, leaveCycle), whatever else fails or dies: a
\* reservation is released once, and never before its holder is done. The
\* hypotheses are the two faults after which a scored post's job is attempted
\* again with its slot already released.
THEOREM SlotsAreCovered ==
    ASSUME "embed" \notin Faults, "workerCrash" \notin Faults
    PROVE  Spec => []SlotsCoverHolders
<1>1. SlotsInv => SlotsCoverHolders
  BY HoldersCount DEF SlotsInv, Balanced, SlotsCoverHolders
<1> QED BY <1>1, SlotsAlways, PTL

\* No slot leaks: unless a run's process dies, an open job's inflight_runs is
\* exactly the number of its holders, however enqueues, scoring attempts,
\* collections and bias checks fail.
THEOREM SlotsAreExact ==
    ASSUME "embed" \notin Faults, "workerCrash" \notin Faults, "runCrash" \notin Faults
    PROVE  Spec => []NoSlotLeaks
<1>1. SlotsInv => NoSlotLeaks
  BY HoldersCount DEF SlotsInv, Balanced, NoSlotLeaks
<1> QED BY <1>1, SlotsAlways, PTL

-----------------------------------------------------------------------------
(* One-shot jobs: each is in one hand, never claimed, and never a cycle.    *)
LEMMA OwnedInserted ==
    ASSUME TypeInv, RowsInv, NEW j \in Jobs, OneShotOwned(j)
    PROVE  j <= rows
BY RunsAssumption DEF OneShotOwned, RowsInv, Runs, OneShotRuns

\* Hands only let go, and what is still held keeps a fit status.
LEMMA OwnedFrame ==
    ASSUME TypeInv, RowsInv, OpenKept, OwnedInv, UNCHANGED <<refreshQ, reqJob>>,
           \A r \in OneShotRuns : runJob'[r] \in {runJob[r], NoJob},
           \A j \in Jobs : OneShotOwned(j) /\ OneShotOwned(j)' =>
               status'[j] \in {"running", "failed"} /\ \A c \in Closers : j \notin claimed'[c]
    PROVE  OwnedInv'
<1>0. /\ \A q \in Requests : reqJob[q] \in Jobs \cup {NoJob}
      /\ refreshQ \subseteq Jobs /\ \A j \in Jobs : NoJob # j
  BY DEF TypeInv, RequestsInv, RequestsOK, RunsInv, RunsOK, NoJob, Jobs
<1>1. ASSUME NEW j \in Jobs, OneShotOwned(j)'
      PROVE  OneShotOwned(j) /\ trigger'[j] = trigger[j]
  <2>1. OneShotOwned(j)
    BY <1>0, <1>1 DEF OneShotOwned
  <2> QED BY <2>1, OwnedInserted DEF OpenKept
<1>2. \A j \in Jobs : OneShotOwned(j)' =>
          /\ trigger'[j] # "cron" /\ status'[j] \in {"running", "failed"}
          /\ \A c \in Closers : j \notin claimed'[c]
  BY <1>1 DEF OwnedInv
<1>3. /\ \A r, s \in OneShotRuns : runJob'[r] = runJob'[s] /\ runJob'[r] # NoJob => r = s
      /\ \A r \in OneShotRuns : runJob'[r] \notin refreshQ'
      /\ \A r \in OneShotRuns, q \in Requests : reqJob'[q] = runJob'[r] => runJob'[r] = NoJob
      /\ \A q \in Requests : reqJob'[q] \notin refreshQ'
      /\ \A q, u \in Requests : reqJob'[q] = reqJob'[u] /\ reqJob'[q] # NoJob => q = u
  <2>1. \A r, s \in OneShotRuns : runJob'[r] = runJob'[s] /\ runJob'[r] # NoJob => r = s
    BY DEF OwnedInv
  <2>2. \A r \in OneShotRuns : runJob'[r] \notin refreshQ'
    BY <1>0 DEF OwnedInv
  <2>3. \A r \in OneShotRuns, q \in Requests : reqJob'[q] = runJob'[r] => runJob'[r] = NoJob
    BY DEF OwnedInv
  <2> QED BY <2>1, <2>2, <2>3 DEF OwnedInv
<1> QED BY <1>2, <1>3 DEF OwnedInv

\* A run's own step.
LEMMA OwnedRunStep ==
    ASSUME TypeInv, RowsInv, OpenKept, OwnedInv, NEW r \in Runs, RunInv(r), RunNext(r)
    PROVE  OwnedInv'
<1>0. /\ runPc \in [Runs -> RunPcs] /\ runJob \in [Runs -> Jobs \cup {NoJob}] /\ RunReady(r)
      /\ refreshQ \subseteq Jobs /\ status \in [Jobs -> Statuses] /\ trigger \in [Jobs -> Triggers]
      /\ \A q \in Requests : reqJob[q] \in Jobs \cup {NoJob}
      /\ \A j \in Jobs : NoJob # j
      /\ OneShotRuns \subseteq Runs
      /\ r \in OneShotRuns <=> r \notin CycleRuns
      /\ r \in OneShotRuns <=> r \in RefreshRuns \/ r \in ManualRuns
      /\ UNCHANGED <<claimed, reqJob>>
  BY RunsAssumption
     DEF TypeInv, JobsOK, RunsInv, RunsOK, RequestsInv, RequestsOK, Runs, OneShotRuns, NoJob, Jobs,
         RunNext, StartRun, BeginSource, EndSource, StorePost, StartRefresh, EnsureJob, ReadInline, ScoreInline,
         ScoredInline, FailInline, ReserveRetry, EnqueueIngest, EnqueueFails, Unreserve, EndRun, CountPosts, LookAtJob,
         CheckJob, CompleteJob, RunThrows, FailJob, LeaveCycle, CrashRun, closerVars, reqVars
<1>1. ASSUME NEW i \in Jobs, EnsureJob(r, i) PROVE OwnedInv'
  <2>0. /\ runJob' = [runJob EXCEPT ![r] = i] /\ UNCHANGED refreshQ
        /\ \A j \in Jobs : j <= rows => status'[j] = status[j] /\ trigger'[j] = trigger[j]
    <3>1. \A j \in Jobs : j <= rows => j # rows + 1
      BY JobsAssumption DEF TypeInv, JobsOK, Jobs
    <3> QED BY <3>1, <1>0, <1>1 DEF EnsureJob, InsertOneShot, InsertJob, CurrentCycleJob
  <2>1. CASE r \in CycleRuns
    <3>1. \A s \in OneShotRuns : runJob'[s] = runJob[s]
      BY <1>0, <2>0, <2>1
    <3>2. \A j \in Jobs : OneShotOwned(j) => status'[j] \in {"running", "failed"} /\ \A c \in Closers : j \notin claimed'[c]
      BY <1>0, <2>0, OwnedInserted DEF OwnedInv
    <3> QED BY <3>1, <3>2, <1>0, <2>0, OwnedFrame
  <2>2. CASE r \in ManualRuns
    <3>1. /\ i = rows + 1 /\ trigger'[i] = "manual" /\ status'[i] = "running"
          /\ \A j \in Jobs \cup {NoJob} : j <= rows => j # i
      BY <1>0, <1>1, <2>2, JobsAssumption
         DEF EnsureJob, InsertOneShot, InsertJob, TypeInv, JobsOK, Jobs, NoJob
    <3>2. /\ \A s \in OneShotRuns : runJob[s] # i
          /\ i \notin refreshQ
          /\ \A q \in Requests : reqJob[q] # i
          /\ \A c \in Closers : i \notin claimed[c]
      BY <3>1, <1>0 DEF RowsInv
    <3>3. ASSUME NEW j \in Jobs, OneShotOwned(j)'
          PROVE  /\ trigger'[j] # "cron" /\ status'[j] \in {"running", "failed"}
                 /\ \A c \in Closers : j \notin claimed'[c]
      <4>1. CASE j = i
        BY <4>1, <3>1, <3>2, <1>0
      <4>2. CASE j # i
        <5>1. OneShotOwned(j)
          BY <4>2, <3>3, <1>0, <2>0 DEF OneShotOwned
        <5> QED BY <5>1, <1>0, <2>0, OwnedInserted DEF OwnedInv
      <4> QED BY <4>1, <4>2
    <3>4. /\ \A s, t \in OneShotRuns : runJob'[s] = runJob'[t] /\ runJob'[s] # NoJob => s = t
          /\ \A s \in OneShotRuns : runJob'[s] \notin refreshQ'
          /\ \A s \in OneShotRuns, q \in Requests : reqJob'[q] = runJob'[s] => runJob'[s] = NoJob
          /\ \A q \in Requests : reqJob'[q] \notin refreshQ'
          /\ \A q, u \in Requests : reqJob'[q] = reqJob'[u] /\ reqJob'[q] # NoJob => q = u
      BY <3>2, <1>0, <2>0 DEF OwnedInv
    <3> QED BY <3>3, <3>4 DEF OwnedInv
  <2>3. r \notin RefreshRuns
    BY <1>0, <1>1 DEF EnsureJob, RunReady, RunInv
  <2> QED BY <2>1, <2>2, <2>3, <1>0
<1>2. ASSUME NEW i \in Jobs, StartRefresh(r, i) PROVE OwnedInv'
  <2>0. /\ runJob[r] = NoJob /\ i \in refreshQ /\ refreshQ' = refreshQ \ {i}
        /\ runJob' = runJob \/ runJob' = [runJob EXCEPT ![r] = i]
        /\ UNCHANGED <<status, trigger>> /\ r \in OneShotRuns
    BY <1>0, <1>2 DEF StartRefresh, RunReady, jobVars
  <2>1. \A j \in Jobs : OneShotOwned(j)' => OneShotOwned(j)
    BY <2>0, <1>0 DEF OneShotOwned
  <2>2. \A j \in Jobs : OneShotOwned(j)' =>
            /\ trigger'[j] # "cron" /\ status'[j] \in {"running", "failed"}
            /\ \A c \in Closers : j \notin claimed'[c]
    BY <2>0, <2>1, <1>0 DEF OwnedInv
  <2>3. /\ \A s, t \in OneShotRuns : runJob'[s] = runJob'[t] /\ runJob'[s] # NoJob => s = t
        /\ \A s \in OneShotRuns : runJob'[s] \notin refreshQ'
        /\ \A s \in OneShotRuns, q \in Requests : reqJob'[q] = runJob'[s] => runJob'[s] = NoJob
    BY <2>0, <1>0 DEF OwnedInv
  <2>4. /\ \A q \in Requests : reqJob'[q] \notin refreshQ'
        /\ \A q, u \in Requests : reqJob'[q] = reqJob'[u] /\ reqJob'[q] # NoJob => q = u
    BY <2>0, <1>0 DEF OwnedInv
  <2> QED BY <2>2, <2>3, <2>4 DEF OwnedInv
<1>3. CASE CrashRun(r)
  <2>0. /\ runJob' = [runJob EXCEPT ![r] = NoJob] /\ UNCHANGED <<status, trigger>>
        /\ r \in RefreshRuns => runJob[r] \in Jobs /\ refreshQ' = refreshQ \cup {runJob[r]}
        /\ r \notin RefreshRuns => refreshQ' = refreshQ
    BY <1>0, <1>3 DEF CrashRun, RunStops, RunReady, jobVars
  <2>1. \A j \in Jobs : OneShotOwned(j)' => OneShotOwned(j)
    BY <2>0, <1>0 DEF OneShotOwned
  <2>2. \A j \in Jobs : OneShotOwned(j)' =>
            /\ trigger'[j] # "cron" /\ status'[j] \in {"running", "failed"}
            /\ \A c \in Closers : j \notin claimed'[c]
    BY <2>0, <2>1, <1>0 DEF OwnedInv
  <2>3. \A s, t \in OneShotRuns : runJob'[s] = runJob'[t] /\ runJob'[s] # NoJob => s = t
    BY <2>0, <1>0 DEF OwnedInv
  <2>4. \A s \in OneShotRuns : runJob'[s] \notin refreshQ'
    <3>1. NoJob \notin refreshQ'
      BY <2>0, <1>0
    <3> QED BY <3>1, <2>0, <1>0 DEF OwnedInv
  <2>5. \A s \in OneShotRuns, q \in Requests : reqJob'[q] = runJob'[s] => runJob'[s] = NoJob
    BY <2>0, <1>0 DEF OwnedInv
  <2>6. \A q \in Requests : reqJob'[q] \notin refreshQ'
    BY <2>0, <1>0 DEF OwnedInv
  <2>7. \A q, u \in Requests : reqJob'[q] = reqJob'[u] /\ reqJob'[q] # NoJob => q = u
    BY <1>0 DEF OwnedInv
  <2> QED BY <2>2, <2>3, <2>4, <2>5, <2>6, <2>7 DEF OwnedInv
<1>4. CASE /\ UNCHANGED refreshQ
           /\ runJob' = runJob \/ runJob' = [runJob EXCEPT ![r] = NoJob]
           /\ \/ UNCHANGED status
              \/ r \in OneShotRuns /\ runJob[r] \in Jobs /\ runJob'[r] = NoJob
                 /\ \E s \in Statuses : SetStatus(runJob[r], s)
  <2>1. \A s \in OneShotRuns : runJob'[s] \in {runJob[s], NoJob}
    BY <1>4, <1>0
  <2>2. ASSUME NEW j \in Jobs, OneShotOwned(j), OneShotOwned(j)'
        PROVE  status'[j] \in {"running", "failed"} /\ \A c \in Closers : j \notin claimed'[c]
    <3>1. status'[j] = status[j]
      <4>1. CASE UNCHANGED status
        BY <4>1
      <4>2. CASE r \in OneShotRuns /\ runJob[r] \in Jobs /\ runJob'[r] = NoJob
                 /\ \E s \in Statuses : SetStatus(runJob[r], s)
        <5>1. j # runJob[r]
          <6>1. runJob' = [runJob EXCEPT ![r] = NoJob]
            BY <4>2, <1>0, <1>4
          <6>2. ASSUME j = runJob[r] PROVE FALSE
            <7>1. \A s \in OneShotRuns : runJob'[s] # j
              BY <6>1, <6>2, <4>2, <1>0 DEF OwnedInv
            <7>2. j \notin refreshQ /\ \A q \in Requests : reqJob[q] # j
              BY <6>2, <4>2, <1>0 DEF OwnedInv
            <7> QED BY <7>1, <7>2, <2>2, <1>0, <1>4 DEF OneShotOwned
          <6> QED BY <6>2
        <5> QED BY <5>1, <4>2, <1>0 DEF SetStatus
      <4> QED BY <1>4, <4>1, <4>2
    <3> QED BY <3>1, <2>2, <1>0 DEF OwnedInv
  <2>3. UNCHANGED <<refreshQ, reqJob>>
    BY <1>0, <1>4
  <2> QED BY <2>1, <2>2, <2>3, OwnedFrame
<1>5. CASE EndRun(r) \/ CompleteJob(r) \/ FailJob(r)
  <2>1. /\ UNCHANGED refreshQ
        /\ runJob' = runJob \/ runJob' = [runJob EXCEPT ![r] = NoJob]
    BY <1>5 DEF EndRun, CompleteJob, FailJob, RunStops
  <2>2. \/ UNCHANGED status
        \/ runJob'[r] = NoJob /\ r \in OneShotRuns /\ runJob[r] \in Jobs
           /\ \E s \in Statuses : SetStatus(runJob[r], s)
    <3>1. CASE EndRun(r)
      BY <3>1, <1>0 DEF EndRun, RunStops, AwaitsRetries, Statuses
    <3>2. CASE CompleteJob(r) \/ FailJob(r)
      <4>1. runPc[r] \in {"completing", "failing"} /\ runJob'[r] = NoJob /\ runJob[r] \in Jobs
        BY <3>2, <1>0 DEF CompleteJob, FailJob, RunStops, RunReady
      <4>2. UNCHANGED status \/ \E s \in Statuses : SetStatus(runJob[r], s)
        BY <3>2 DEF CompleteJob, FailJob, Statuses
      <4>3. CASE r \in OneShotRuns
        BY <4>1, <4>2, <4>3
      <4> QED BY <4>1, <4>3, <1>0 DEF RunInv
    <3> QED BY <1>5, <3>1, <3>2
  <2> QED BY <2>1, <2>2, <1>4
<1>6. \/ \E i \in Jobs : EnsureJob(r, i) \/ StartRefresh(r, i)
      \/ CrashRun(r) \/ EndRun(r) \/ CompleteJob(r) \/ FailJob(r)
      \/ /\ UNCHANGED <<refreshQ, status>>
         /\ runJob' = runJob \/ runJob' = [runJob EXCEPT ![r] = NoJob]
  BY DEF RunNext, StartRun, BeginSource, EndSource, StorePost, ReadInline, ScoreInline, ScoredInline, FailInline,
         ReserveRetry, EnqueueIngest, EnqueueFails, Unreserve, CountPosts, LookAtJob, CheckJob, RunThrows, LeaveCycle,
         RunStops, jobVars, runVars
<1> QED BY <1>1, <1>2, <1>3, <1>4, <1>5, <1>6

\* A scoring job's step.
LEMMA OwnedTaskStep ==
    ASSUME TypeInv, RowsInv, OpenKept, OwnedInv, NEW p \in Posts, TaskInv(p), TaskNext(p)
    PROVE  OwnedInv'
<1>1. UNCHANGED <<runJob, refreshQ, reqJob, claimed>>
  BY DEF TaskNext, TakeTask, ReleaseClosed, ChooseCycle, ReadForScore, ScoreStage, Scored, TextRemoved, FailOwn,
         FailTarget, ReleaseSlot, LeaveTarget, EmbedIfGated, EmbedFails, ReleaseFailed, CrashWorker,
         SweepUnscored, RemoveText, runVars, reqVars, closerVars
<1>2. ASSUME NEW j \in Jobs, j <= rows PROVE status'[j] = status[j]
  <2>1. ASSUME NEW i \in Jobs, ChooseCycle(p, i) PROVE status'[j] = status[j]
    <3>1. j # rows + 1
      BY <1>2, JobsAssumption DEF TypeInv, JobsOK, Jobs
    <3>2. CurrentCycleJob(i)
      BY <2>1, RetryJoinsCron
    <3> QED BY <3>1, <3>2, <1>2 DEF CurrentCycleJob, InsertJob, TypeInv, JobsOK
  <2>2. (\E i \in Jobs : ChooseCycle(p, i)) \/ UNCHANGED status
    BY DEF TaskNext, TakeTask, ReleaseClosed, ReadForScore, ScoreStage, Scored, TextRemoved, FailOwn, FailTarget,
           ReleaseSlot, LeaveTarget, EmbedIfGated, EmbedFails, ReleaseFailed, CrashWorker, SweepUnscored,
           RemoveText, jobVars
  <2> QED BY <2>1, <2>2
<1>3. ASSUME NEW j \in Jobs, OneShotOwned(j)
      PROVE  status'[j] \in {"running", "failed"} /\ \A c \in Closers : j \notin claimed'[c]
  BY <1>1, <1>2, <1>3, OwnedInserted DEF OwnedInv
<1>4. UNCHANGED <<refreshQ, reqJob>> /\ \A r \in OneShotRuns : runJob'[r] \in {runJob[r], NoJob}
  BY <1>1
<1> QED BY <1>3, <1>4, OwnedFrame

\* The closer claims no owned job: those are not cron jobs, nor awaiting retries.
LEMMA OwnedCloserStep ==
    ASSUME TypeInv, RowsInv, OpenKept, OwnedInv, NEW c \in Closers, CloserNext(c)
    PROVE  OwnedInv'
<1>0. /\ claimed \in [Closers -> SUBSET Jobs] /\ status \in [Jobs -> Statuses]
      /\ UNCHANGED <<runJob, refreshQ, reqJob>>
  BY DEF TypeInv, JobsOK, ClosersInv, ClosersOK, CloserNext, ClaimDueCycles, CloserCounts, CloserChecks,
         CloserCheckFails, CloserFinishes, CrashCloser, runVars, reqVars
<1>1. ASSUME NEW j \in Jobs, OneShotOwned(j)
      PROVE  status'[j] \in {"running", "failed"} /\ \A d \in Closers : j \notin claimed'[d]
  <2>0. /\ trigger[j] # "cron" /\ status[j] \in {"running", "failed"}
        /\ \A d \in Closers : j \notin claimed[d]
    BY <1>1 DEF OwnedInv
  <2>1. CASE ClaimDueCycles(c)
    BY <2>0, <2>1, <1>0 DEF ClaimDueCycles, DueJobs, Due
  <2>2. CASE CloserFinishes(c)
    <3>1. Current(c) \in claimed[c] /\ Current(c) \in Jobs
      BY <2>2, CurrentClaimed DEF CloserFinishes
    <3> QED BY <3>1, <2>0, <2>2, <1>0 DEF CloserFinishes, SetStatus
  <2>3. CASE CloserCounts(c) \/ CloserChecks(c) \/ CloserCheckFails(c) \/ CrashCloser(c)
    BY <2>0, <2>3, <1>0 DEF CloserCounts, CloserChecks, CloserCheckFails, CrashCloser, jobVars
  <2> QED BY <2>1, <2>2, <2>3 DEF CloserNext
<1>2. UNCHANGED <<refreshQ, reqJob>> /\ \A r \in OneShotRuns : runJob'[r] \in {runJob[r], NoJob}
  BY <1>0
<1> QED BY <1>1, <1>2, OwnedFrame

\* A request inserts its row and hands it to the queue, or fails it.
LEMMA OwnedRequestStep ==
    ASSUME TypeInv, RowsInv, OpenKept, OwnedInv, NEW q \in Requests, RequestNext(q)
    PROVE  OwnedInv'
<1>0. /\ reqJob \in [Requests -> Jobs \cup {NoJob}] /\ refreshQ \subseteq Jobs
      /\ status \in [Jobs -> Statuses] /\ trigger \in [Jobs -> Triggers]
      /\ \A r \in OneShotRuns : runJob[r] \in Jobs \cup {NoJob}
      /\ \A j \in Jobs : NoJob # j
      /\ reqPc[q] \in {"enqueue", "fail"} => reqJob[q] \in Jobs
      /\ UNCHANGED <<runJob, claimed>>
  BY RunsAssumption
     DEF TypeInv, JobsOK, RunsInv, RunsOK, RequestsInv, RequestsOK, RequestReady, Runs, OneShotRuns, NoJob, Jobs,
         RequestNext, PostRefresh, CheckRefresh, InsertRefresh, EnqueueRefresh, EnqueueRefreshFails,
         FailRefresh, runVars, closerVars
<1>1. CASE InsertRefresh(q) /\ InsertJob("api", 0) /\ reqJob' = [reqJob EXCEPT ![q] = rows + 1]
  <2>0. PICK i \in Jobs : i = rows + 1
    BY <1>1, InsertTyped DEF TypeInv, Triggers
  <2>1. /\ trigger'[i] = "api" /\ status'[i] = "running" /\ UNCHANGED refreshQ
        /\ \A j \in Jobs \cup {NoJob} : j <= rows => j # i
        /\ \A j \in Jobs : j # i => status'[j] = status[j] /\ trigger'[j] = trigger[j]
    BY <1>0, <1>1, <2>0, JobsAssumption
       DEF InsertRefresh, InsertJob, TypeInv, JobsOK, Jobs, NoJob, runVars
  <2>2. /\ \A s \in OneShotRuns : runJob[s] # i
        /\ i \notin refreshQ
        /\ \A u \in Requests : reqJob[u] # i
        /\ \A c \in Closers : i \notin claimed[c]
    BY <2>1, <1>0, RunsAssumption DEF RowsInv, Runs, OneShotRuns
  <2>3. ASSUME NEW j \in Jobs, OneShotOwned(j)'
        PROVE  /\ trigger'[j] # "cron" /\ status'[j] \in {"running", "failed"}
               /\ \A c \in Closers : j \notin claimed'[c]
    <3>1. CASE j = i
      BY <3>1, <2>1, <2>2, <1>0
    <3>2. CASE j # i
      <4>1. OneShotOwned(j)
        BY <3>2, <2>0, <2>1, <2>3, <1>0, <1>1 DEF OneShotOwned
      <4> QED BY <4>1, <3>2, <2>1, <1>0 DEF OwnedInv
    <3> QED BY <3>1, <3>2
  <2>4. /\ \A s, t \in OneShotRuns : runJob'[s] = runJob'[t] /\ runJob'[s] # NoJob => s = t
        /\ \A s \in OneShotRuns : runJob'[s] \notin refreshQ'
    BY <2>1, <1>0 DEF OwnedInv
  <2>5. \A s \in OneShotRuns, u \in Requests : reqJob'[u] = runJob'[s] => runJob'[s] = NoJob
    BY <2>0, <2>2, <1>0, <1>1 DEF OwnedInv
  <2>6. \A u \in Requests : reqJob'[u] \notin refreshQ'
    BY <2>0, <2>1, <2>2, <1>0, <1>1 DEF OwnedInv
  <2>7. \A u, v \in Requests : reqJob'[u] = reqJob'[v] /\ reqJob'[u] # NoJob => u = v
    BY <2>0, <2>2, <1>0, <1>1 DEF OwnedInv
  <2> QED BY <2>3, <2>4, <2>5, <2>6, <2>7 DEF OwnedInv
<1>2. CASE EnqueueRefresh(q) \/ FailRefresh(q)
  <2>0. PICK i \in Jobs : i = reqJob[q]
    BY <1>0, <1>2 DEF EnqueueRefresh, FailRefresh
  <2>1. /\ reqJob' = [reqJob EXCEPT ![q] = NoJob]
        /\ \/ refreshQ' = refreshQ \cup {i} /\ UNCHANGED <<status, trigger>>
           \/ refreshQ' = refreshQ /\ UNCHANGED trigger /\ status' = [status EXCEPT ![i] = "failed"]
    BY <1>2, <2>0 DEF EnqueueRefresh, FailRefresh, SetStatus, jobVars, runVars
  <2>2. ASSUME NEW j \in Jobs, OneShotOwned(j)'
        PROVE  /\ trigger'[j] # "cron" /\ status'[j] \in {"running", "failed"}
               /\ \A c \in Closers : j \notin claimed'[c]
    <3>1. OneShotOwned(j)
      BY <2>0, <2>1, <2>2, <1>0 DEF OneShotOwned
    <3> QED BY <3>1, <2>1, <1>0 DEF OwnedInv
  <2>3. \A s, t \in OneShotRuns : runJob'[s] = runJob'[t] /\ runJob'[s] # NoJob => s = t
    BY <1>0 DEF OwnedInv
  <2>4. \A s \in OneShotRuns : runJob'[s] \notin refreshQ'
    BY <2>0, <2>1, <1>0 DEF OwnedInv
  <2>5. \A s \in OneShotRuns, u \in Requests : reqJob'[u] = runJob'[s] => runJob'[s] = NoJob
    BY <2>1, <1>0 DEF OwnedInv
  <2>6. \A u \in Requests : reqJob'[u] \notin refreshQ'
    BY <2>0, <2>1, <1>0 DEF OwnedInv
  <2>7. \A u, v \in Requests : reqJob'[u] = reqJob'[v] /\ reqJob'[u] # NoJob => u = v
    BY <2>1, <1>0 DEF OwnedInv
  <2> QED BY <2>2, <2>3, <2>4, <2>5, <2>6, <2>7 DEF OwnedInv
<1>3. CASE /\ UNCHANGED <<refreshQ, reqJob>>
           /\ UNCHANGED status \/ (\E ts \in SUBSET Triggers : FailStale(ts))
  <2>1. \A j \in Jobs : OneShotOwned(j) =>
            status'[j] \in {"running", "failed"} /\ \A c \in Closers : j \notin claimed'[c]
    BY <1>0, <1>3 DEF OwnedInv, FailStale
  <2>2. \A r \in OneShotRuns : runJob'[r] \in {runJob[r], NoJob}
    BY <1>0
  <2> QED BY <2>1, <2>2, <1>3, OwnedFrame
<1>4. \/ InsertRefresh(q) /\ InsertJob("api", 0) /\ reqJob' = [reqJob EXCEPT ![q] = rows + 1]
      \/ EnqueueRefresh(q) \/ FailRefresh(q)
      \/ /\ UNCHANGED <<refreshQ, reqJob>>
         /\ UNCHANGED status \/ (\E ts \in SUBSET Triggers : FailStale(ts))
  <2>1. {"api"} \in SUBSET Triggers
    BY DEF Triggers
  <2> QED BY <2>1
      DEF RequestNext, PostRefresh, CheckRefresh, InsertRefresh, EnqueueRefreshFails, jobVars, runVars, reqVars
<1> QED BY <1>1, <1>2, <1>3, <1>4

\* Every step of the system.
LEMMA OwnedStep ==
    ASSUME TypeInv, RowsInv, OpenKept, OwnedInv, \A r \in Runs : RunInv(r), \A p \in Posts : TaskInv(p),
           [Next]_vars
    PROVE  OwnedInv'
<1>1. CASE /\ UNCHANGED <<runJob, refreshQ, reqJob, claimed>>
           /\ UNCHANGED status \/ (\E ts \in SUBSET Triggers : FailStale(ts))
  <2>1. status \in [Jobs -> Statuses]
    BY DEF TypeInv, JobsOK
  <2>2. \A j \in Jobs : OneShotOwned(j) =>
            status'[j] \in {"running", "failed"} /\ \A c \in Closers : j \notin claimed'[c]
    BY <1>1, <2>1 DEF OwnedInv, FailStale
  <2>3. UNCHANGED <<refreshQ, reqJob>> /\ \A r \in OneShotRuns : runJob'[r] \in {runJob[r], NoJob}
    BY <1>1
  <2> QED BY <2>2, <2>3, OwnedFrame
<1>2. ASSUME \/ \E p \in Posts, s \in Stages, j \in Jobs : LateSave(p, s, j)
             \/ SweepStaleJobs
             \/ \E j \in Jobs : Tick(j) \/ GoQuiet(j)
             \/ MinutePasses
             \/ UNCHANGED vars
      PROVE  /\ UNCHANGED <<runJob, refreshQ, reqJob, claimed>>
             /\ UNCHANGED status \/ (\E ts \in SUBSET Triggers : FailStale(ts))
  <2>1. {"api", "manual"} \in SUBSET Triggers
    BY DEF Triggers
  <2> QED BY <2>1, <1>2
      DEF LateSave, SweepStaleJobs, Tick, GoQuiet, MinutePasses, vars, jobVars, runVars, reqVars, closerVars
<1> QED BY <1>1, <1>2, OwnedRunStep, OwnedTaskStep, OwnedCloserStep, OwnedRequestStep DEF Next

-----------------------------------------------------------------------------
(* Closed jobs: nobody can add a post to a job that was claimed, or that its
   run is finalizing, with no slot held.                                    *)
\* Closers claim the jobs that are due, and give them up.
LEMMA ClaimsMove ==
    ASSUME TypeInv, [Next]_vars, NEW c \in Closers
    PROVE  \/ claimed'[c] \subseteq claimed[c]
           \/ ClaimDueCycles(c) /\ claimed'[c] = DueJobs
<1>0. claimed \in [Closers -> SUBSET Jobs]
  BY DEF TypeInv, ClosersInv, ClosersOK
<1>1. ASSUME NEW d \in Closers, CloserNext(d)
      PROVE  claimed'[c] \subseteq claimed[c] \/ (ClaimDueCycles(c) /\ claimed'[c] = DueJobs)
  BY <1>0, <1>1 DEF CloserNext, ClaimDueCycles, CloserCounts, CloserChecks, CloserCheckFails, CloserFinishes,
                    CrashCloser
<1>2. ASSUME NEW r \in Runs, RunNext(r) PROVE UNCHANGED claimed
  BY <1>2
     DEF RunNext, StartRun, BeginSource, EndSource, StorePost, StartRefresh, EnsureJob, ReadInline, ScoreInline,
         ScoredInline, FailInline, ReserveRetry, EnqueueIngest, EnqueueFails, Unreserve, EndRun, CountPosts, LookAtJob,
         CheckJob, CompleteJob, RunThrows, FailJob, LeaveCycle, CrashRun, closerVars
<1>3. ASSUME NEW p \in Posts, TaskNext(p) PROVE UNCHANGED claimed
  BY <1>3
     DEF TaskNext, TakeTask, ReleaseClosed, ChooseCycle, ReadForScore, ScoreStage, Scored, TextRemoved, FailOwn, FailTarget,
         ReleaseSlot, LeaveTarget, EmbedIfGated, EmbedFails, ReleaseFailed, CrashWorker, SweepUnscored,
         RemoveText, closerVars
<1>4. ASSUME NEW q \in Requests, RequestNext(q) PROVE UNCHANGED claimed
  BY <1>4
     DEF RequestNext, PostRefresh, CheckRefresh, InsertRefresh, EnqueueRefresh, EnqueueRefreshFails,
         FailRefresh, closerVars
<1>5. \/ \E d \in Closers : CloserNext(d)
      \/ UNCHANGED claimed
  BY <1>2, <1>3, <1>4 DEF Next, LateSave, SweepStaleJobs, Tick, GoQuiet, MinutePasses, vars, closerVars
<1> QED BY <1>1, <1>5

\* What a closer has claimed is not open, and stays so.
LEMMA ClaimedStep ==
    ASSUME TypeInv, RowsInv, RowsInv', OpenKept, ClaimedInv, TypeInv', [Next]_vars
    PROVE  ClaimedInv'
<1>0. /\ claimed \in [Closers -> SUBSET Jobs] /\ status' \in [Jobs -> Statuses]
      /\ rows \in Nat /\ rows' \in Nat
  BY DEF TypeInv, JobsOK, ClosersInv, ClosersOK
<1>1. \A c \in Closers : claimed'[c] \subseteq claimed[c] \/ (ClaimDueCycles(c) /\ claimed'[c] = DueJobs)
  BY ClaimsMove
<1>2. ASSUME NEW c \in Closers, NEW j \in claimed'[c]
      PROVE  status'[j] \in {"closing", "completed", "failed"}
  <2>1. CASE j \in claimed[c]
    <3>1. j \in Jobs /\ status[j] \in {"closing", "completed", "failed"} /\ j <= rows /\ j <= rows'
      BY <2>1, <1>0, <1>2 DEF ClaimedInv, RowsInv
    <3>2. status'[j] # "none" /\ status'[j] \notin Open
      BY <3>1, <1>0, JobsAssumption DEF RowsInv, Numbered, OpenKept, Open, Jobs
    <3> QED BY <3>1, <3>2, <1>0 DEF Statuses, Open
  <2>2. CASE ClaimDueCycles(c) /\ j \in DueJobs
    BY <2>2 DEF ClaimDueCycles, DueJobs
  <2> QED BY <1>1, <1>2, <2>1, <2>2
<1> QED BY <1>2 DEF ClaimedInv

\* An open job without slots in flight has no holder.
LEMMA EmptyIsUnheld ==
    ASSUME TypeInv, SlotsInv, NEW j \in Jobs, status[j] \in Open, inflight[j] = 0
    PROVE  NoHolders(j)
<1>1. Held(j) <= 0
  BY DEF SlotsInv, Balanced
<1>2. /\ Cardinality(RunSlots(j)) = 0 /\ Cardinality(ReserveSlots(j)) = 0 /\ Cardinality(TaskSlots(j)) = 0
      /\ Cardinality(HookSlots(j)) = 0 /\ Cardinality(TargetSlots(j)) = 0
  <2>1. /\ Cardinality(RunSlots(j)) \in Nat /\ Cardinality(ReserveSlots(j)) \in Nat
        /\ Cardinality(TaskSlots(j)) \in Nat /\ Cardinality(HookSlots(j)) \in Nat
        /\ Cardinality(TargetSlots(j)) \in Nat
    BY CountsNat
  <2> QED BY <1>1, <2>1 DEF Held
<1>3. RunSlots(j) = {} /\ ReserveSlots(j) = {} /\ TaskSlots(j) = {} /\ HookSlots(j) = {} /\ TargetSlots(j) = {}
  BY <1>2, SlotsFinite, FS_EmptySet
<1>4. \A r \in Runs : ~RunHolds(r, j) /\ ~Reserves(r, j)
  BY <1>3 DEF RunSlots, ReserveSlots
<1>5. ASSUME NEW p \in Posts PROVE ~TaskTied(p, j) /\ hook[p] # j /\ target[p] # j
  <2>0. taskPc[p] \in TaskPcs /\ NoJob # j /\ TaskInv(p)
    BY DEF SlotsInv, TypeInv, TasksInv, TasksOK, NoJob, Jobs
  <2>1. ~TaskHolds(p, j) /\ ~HookHolds(p, j) /\ ~TargetHolds(p, j)
    BY <1>3 DEF TaskSlots, HookSlots, TargetSlots
  <2>2. hook[p] # j
    BY <2>1 DEF HookHolds
  <2>3. target[p] # j
    BY <2>0, <2>1 DEF TargetHolds, TaskInv
  <2>4. ~TaskTied(p, j)
    BY <2>0, <2>1 DEF TaskTied, TaskHolds, TaskInv, Joined, TaskPcs
  <2> QED BY <2>2, <2>3, <2>4
<1> QED BY <1>4, <1>5 DEF NoHolders

\* No cycle that can be joined is closed.
LEMMA RunningCronIsOpen ==
    ASSUME ClaimedInv, OwnedInv, NEW j \in Jobs, status[j] = "running", trigger[j] = "cron"
    PROVE  ~Closed(j)
<1>1. ~Sealed(j)
  BY DEF Sealed, ClaimedInv
<1>2. ~Settling(j)
  BY DEF Settling, OwnedInv, OneShotOwned
<1> QED BY <1>1, <1>2 DEF Closed

\* Who joins the current cycle joins one that is open.
LEMMA JoinedIsOpen ==
    ASSUME TypeInv, NEW j \in Jobs, CurrentCycleJob(j)
    PROVE  status'[j] = "running" /\ trigger'[j] = "cron"
BY DEF CurrentCycleJob, OpenCycles, InsertJob, TypeInv, JobsOK

\* Only a job that is closed already, or open with no slot in flight, gets closed.
LEMMA ClosesUnheld ==
    ASSUME TypeInv, SlotsInv, OpenKept, OwnedInv, ClaimedInv, SealInv, [Next]_vars,
           NEW j \in Jobs, Closed(j)'
    PROVE  NoHolders(j)
<1>0. /\ status \in [Jobs -> Statuses] /\ forced \in [Jobs -> BOOLEAN] /\ claimed \in [Closers -> SUBSET Jobs]
      /\ runPc \in [Runs -> RunPcs] /\ runJob \in [Runs -> Jobs \cup {NoJob}]
      /\ inflight[j] \in Nat /\ NoJob # j /\ OneShotRuns \subseteq Runs
      /\ \A r \in Runs : RunInv(r) /\ runJob[r] <= rows
      /\ \A r \in OneShotRuns : r \notin CycleRuns
      /\ \A c \in Closers : \A i \in claimed[c] : i <= rows
  BY RunsAssumption
     DEF TypeInv, JobsOK, ClosersInv, ClosersOK, RunsInv, RunsOK, SlotsInv, RowsInv, OneShotRuns, Runs, NoJob, Jobs
<1>1. Closed(j) => NoHolders(j)
  BY DEF SealInv
<1>2. ASSUME NEW t, NEW n, InsertJob(t, n), UNCHANGED <<forced, claimed>>,
             \A r \in OneShotRuns : runJob'[r] = j /\ runPc'[r] \in {"counting", "looking", "checking", "completing"} =>
                 runJob[r] = j /\ runPc'[r] = runPc[r]
      PROVE  Closed(j)
  <2>1. CASE j = rows + 1
    <3>1. \A x \in Jobs \cup {NoJob} : x <= rows => x # j
      BY <2>1, JobsAssumption DEF TypeInv, JobsOK, Jobs, NoJob
    <3>2. status'[j] = "running"
      BY <1>2, <2>1, <1>0 DEF InsertJob
    <3>3. (\A c \in Closers : j \notin claimed[c]) /\ (\A r \in OneShotRuns : runJob[r] # j)
      BY <3>1, <1>0
    <3> QED BY <3>2, <3>3, <1>2 DEF Closed, Sealed, Settling
  <2>2. CASE j # rows + 1
    BY <2>2, <1>2, <1>0 DEF InsertJob, Closed, Sealed, Settling
  <2> QED BY <2>1, <2>2
<1>3. ASSUME NEW r \in Runs, RunNext(r) PROVE NoHolders(j)
  <2>0. UNCHANGED <<forced, claimed>> /\ \A s \in OneShotRuns \ {r} : runPc'[s] = runPc[s] /\ runJob'[s] = runJob[s]
    BY <1>0, <1>3
       DEF RunNext, StartRun, BeginSource, EndSource, StorePost, StartRefresh, EnsureJob, ReadInline, ScoreInline,
           ScoredInline, FailInline, ReserveRetry, EnqueueIngest, EnqueueFails, Unreserve, EndRun, CountPosts, LookAtJob,
           CheckJob, CompleteJob, RunThrows, FailJob, LeaveCycle, CrashRun, RunGoes, RunStops, runVars, jobVars,
           closerVars
  <2>1. ASSUME NEW i \in Jobs, EnsureJob(r, i) PROVE NoHolders(j)
    <3>1. runPc'[r] \notin {"counting", "looking", "checking", "completing"}
      BY <2>1, <1>0 DEF EnsureJob, RunGoes, QueuePc
    <3>2. CASE \E t, n : InsertJob(t, n)
      BY <3>1, <3>2, <2>0, <1>1, <1>2
    <3>3. CASE UNCHANGED status
      BY <3>1, <3>3, <2>0, <1>1 DEF Closed, Sealed, Settling
    <3> QED BY <3>2, <3>3, <2>1 DEF EnsureJob, InsertOneShot, CurrentCycleJob
  <2>2. CASE EndRun(r)
    <3>1. CASE status' = status /\ (r \in OneShotRuns => runJob[r] # j \/ runPc'[r] # "counting")
      BY <3>1, <2>2, <2>0, <1>0, <1>1
         DEF EndRun, RunGoes, RunStops, AwaitsRetries, SetStatus, Closed, Sealed, Settling
    <3>2. CASE r \in OneShotRuns /\ runJob[r] = j /\ runPc'[r] = "counting" /\ ~AwaitsRetries(j) /\ status' = status
      <4>1. CASE status[j] = "running"
        <5>1. inflight[j] = 0
          BY <4>1, <3>2, <1>0 DEF AwaitsRetries
        <5> QED BY <5>1, <4>1, EmptyIsUnheld DEF Open
      <4>2. CASE status[j] # "running"
        BY <4>2, <3>2, <2>0, <1>1 DEF Closed, Sealed, Settling
      <4> QED BY <4>1, <4>2
    <3>3. CASE /\ status' = [status EXCEPT ![runJob[r]] = "awaiting_retries"] /\ runJob[r] \in Jobs
               /\ runPc'[r] = "idle"
      BY <3>3, <2>0, <1>0, <1>1 DEF Closed, Sealed, Settling
    <3>4. \/ status' = status /\ (r \in OneShotRuns => runJob[r] # j \/ runPc'[r] # "counting")
          \/ r \in OneShotRuns /\ runJob[r] = j /\ runPc'[r] = "counting" /\ ~AwaitsRetries(j) /\ status' = status
          \/ /\ status' = [status EXCEPT ![runJob[r]] = "awaiting_retries"] /\ runJob[r] \in Jobs
             /\ runPc'[r] = "idle"
      BY <2>2, <1>0 DEF EndRun, RunGoes, RunStops, SetStatus, AwaitsRetries
    <3> QED BY <3>1, <3>2, <3>3, <3>4
  <2>3. CASE CompleteJob(r) \/ FailJob(r)
    <3>1. runPc'[r] = "idle" /\ runPc[r] \in {"completing", "failing"} /\ r \in OneShotRuns
      BY <2>3, <1>0 DEF CompleteJob, FailJob, RunStops, RunInv, Runs, OneShotRuns
    <3>2. \/ UNCHANGED status
          \/ /\ runPc[r] = "completing" /\ status[runJob[r]] = "running"
             /\ status' = [status EXCEPT ![runJob[r]] = "completed"]
          \/ status' = [status EXCEPT ![runJob[r]] = "failed"]
      BY <2>3 DEF CompleteJob, FailJob, SetStatus
    <3>3. CASE /\ runPc[r] = "completing" /\ status[runJob[r]] = "running" /\ runJob[r] = j
      BY <3>1, <3>3, <1>1 DEF Closed, Settling
    <3>4. CASE UNCHANGED status
      BY <3>1, <3>4, <2>0, <1>1 DEF Closed, Sealed, Settling
    <3>5. CASE status' = [status EXCEPT ![runJob[r]] = "failed"]
      BY <3>1, <3>5, <2>0, <1>0, <1>1 DEF Closed, Sealed, Settling
    <3>6. CASE status' = [status EXCEPT ![runJob[r]] = "completed"] /\ runJob[r] # j
      BY <3>1, <3>6, <2>0, <1>0, <1>1 DEF Closed, Sealed, Settling
    <3> QED BY <3>2, <3>3, <3>4, <3>5, <3>6
  <2>4. CASE CountPosts(r) \/ LookAtJob(r) \/ CheckJob(r)
    BY <2>4, <2>0, <1>0, <1>1 DEF CountPosts, LookAtJob, CheckJob, RunGoes, jobVars, Closed, Sealed, Settling
  <2>5. CASE UNCHANGED status /\ runPc'[r] \notin {"counting", "looking", "checking", "completing"}
    BY <2>5, <2>0, <1>1 DEF Closed, Sealed, Settling
  <2>6. CASE UNCHANGED <<status, runPc, runJob>>
    BY <2>6, <2>0, <1>1 DEF Closed, Sealed, Settling
  <2>7. \/ \E i \in Jobs : EnsureJob(r, i)
        \/ EndRun(r) \/ CompleteJob(r) \/ FailJob(r) \/ CountPosts(r) \/ LookAtJob(r) \/ CheckJob(r)
        \/ UNCHANGED status /\ runPc'[r] \notin {"counting", "looking", "checking", "completing"}
        \/ UNCHANGED <<status, runPc, runJob>>
    BY <1>3, <1>0
       DEF RunNext, StartRun, BeginSource, EndSource, StorePost, StartRefresh, ReadInline, ScoreInline, QueuePc,
           ScoredInline, FailInline, ReserveRetry, EnqueueIngest, EnqueueFails, Unreserve,
           RunThrows, LeaveCycle, CrashRun, RunGoes, RunStops, jobVars, runVars
  <2> QED BY <2>1, <2>2, <2>3, <2>4, <2>5, <2>6, <2>7
<1>4. ASSUME NEW p \in Posts, TaskNext(p) PROVE NoHolders(j)
  <2>0. UNCHANGED <<forced, claimed, runPc, runJob>>
    BY <1>4 DEF TaskNext, TakeTask, ReleaseClosed, ChooseCycle, ReadForScore, ScoreStage, Scored, TextRemoved, FailOwn,
             FailTarget, ReleaseSlot, LeaveTarget, EmbedIfGated, EmbedFails, ReleaseFailed, CrashWorker,
             SweepUnscored, RemoveText, runVars, closerVars, jobVars
  <2>1. UNCHANGED status \/ \E t, n : InsertJob(t, n)
    BY <1>4 DEF TaskNext, TakeTask, ReleaseClosed, ChooseCycle, RetryJobFor, CurrentCycleJob, ReadForScore, ScoreStage, Scored,
             TextRemoved, FailOwn, FailTarget, ReleaseSlot, LeaveTarget, EmbedIfGated, EmbedFails, ReleaseFailed,
             CrashWorker, SweepUnscored, RemoveText, jobVars
  <2>2. UNCHANGED status => Closed(j)
    BY <2>0 DEF Closed, Sealed, Settling
  <2> QED BY <2>0, <2>1, <2>2, <1>1, <1>2
<1>5. ASSUME NEW c \in Closers, CloserNext(c) PROVE NoHolders(j)
  <2>0. UNCHANGED <<runPc, runJob>>
    BY <1>5, OtherFrame DEF OtherStep
  <2>1. CASE ClaimDueCycles(c)
    <3>1. CASE j \in DueJobs /\ status[j] \in Open
      <4>1. ~forced'[j]
        BY <3>1, <2>1 DEF ClaimDueCycles, Closed, Sealed, Settling
      <4>2. inflight[j] = 0
        <5>1. ~(inflight[j] > 0 /\ age[j] >= CapAge)
          BY <3>1, <4>1, <2>1 DEF ClaimDueCycles
        <5>2. inflight[j] = 0 \/ age[j] >= CapAge
          BY <3>1 DEF DueJobs, Due, Open
        <5> QED BY <5>1, <5>2, <1>0
      <4> QED BY <4>2, <3>1, EmptyIsUnheld
    <3>2. CASE ~(j \in DueJobs /\ status[j] \in Open)
      <4>1. ~forced'[j] => ~forced[j]
        BY <2>1 DEF ClaimDueCycles
      <4>2. j \in DueJobs => status[j] = "closing"
        BY <3>2 DEF DueJobs, Due, Open
      <4>3. j \notin DueJobs => status'[j] = status[j]
        BY <2>1 DEF ClaimDueCycles
      <4>4. \A d \in Closers : j \in claimed'[d] => j \in claimed[d] \/ j \in DueJobs
        BY <2>1, <1>0 DEF ClaimDueCycles
      <4> QED BY <4>1, <4>2, <4>3, <4>4, <2>0, <2>1, <1>1 DEF ClaimDueCycles, Closed, Sealed, Settling
    <3> QED BY <3>1, <3>2
  <2>2. CASE CloserFinishes(c)
    <3>1. Current(c) \in claimed[c] /\ Current(c) \in Jobs
      BY <2>2, CurrentClaimed DEF CloserFinishes
    <3>2. /\ forced' = forced /\ \A d \in Closers : claimed'[d] \subseteq claimed[d]
          /\ j # Current(c) => status'[j] = status[j]
          /\ j = Current(c) => status'[j] # "running"
      BY <2>2, <3>1, <1>0 DEF CloserFinishes, SetStatus
    <3> QED BY <3>1, <3>2, <2>0, <1>1 DEF Closed, Sealed, Settling
  <2>3. CASE CloserCounts(c) \/ CloserChecks(c) \/ CloserCheckFails(c) \/ CrashCloser(c)
    <3>1. UNCHANGED <<status, forced>> /\ \A d \in Closers : claimed'[d] \subseteq claimed[d]
      BY <2>3, <1>0 DEF CloserCounts, CloserChecks, CloserCheckFails, CrashCloser, jobVars
    <3> QED BY <3>1, <2>0, <1>1 DEF Closed, Sealed, Settling
  <2> QED BY <1>5, <2>1, <2>2, <2>3 DEF CloserNext
<1>6. ASSUME /\ UNCHANGED <<forced, claimed, runPc, runJob>>
             /\ status'[j] = status[j] \/ status'[j] = "failed" \/ (\E t, n : InsertJob(t, n))
      PROVE  NoHolders(j)
  <2>1. CASE status'[j] = status[j] \/ status'[j] = "failed"
    BY <2>1, <1>6, <1>1 DEF Closed, Sealed, Settling
  <2> QED BY <1>6, <2>1, <1>1, <1>2
<1>7. ASSUME NEW q \in Requests, RequestNext(q) PROVE NoHolders(j)
  <2>1. UNCHANGED <<forced, claimed, runPc, runJob>>
    BY <1>7 DEF RequestNext, PostRefresh, CheckRefresh, InsertRefresh, EnqueueRefresh, EnqueueRefreshFails,
                FailRefresh, jobVars, runVars, closerVars
  <2>2. status'[j] = status[j] \/ status'[j] = "failed" \/ (\E t, n : InsertJob(t, n))
    BY <1>7, <1>0 DEF RequestNext, PostRefresh, CheckRefresh, InsertRefresh, EnqueueRefresh, EnqueueRefreshFails,
                FailRefresh, FailStale, SetStatus, jobVars
  <2> QED BY <2>1, <2>2, <1>6
<1>8. ASSUME \/ \E p \in Posts, s \in Stages, k \in Jobs : LateSave(p, s, k)
             \/ SweepStaleJobs
             \/ \E k \in Jobs : Tick(k) \/ GoQuiet(k)
             \/ MinutePasses
             \/ UNCHANGED vars
      PROVE  NoHolders(j)
  <2>1. UNCHANGED <<forced, claimed, runPc, runJob>> /\ (status'[j] = status[j] \/ status'[j] = "failed")
    BY <1>8 DEF LateSave, SweepStaleJobs, FailStale, Tick, GoQuiet, MinutePasses, vars, jobVars, runVars, closerVars
  <2> QED BY <2>1, <1>6
<1> QED BY <1>3, <1>4, <1>5, <1>7, <1>8 DEF Next

\* Nobody comes to hold a slot of a job that is closed.
LEMMA StaysUnheld ==
    ASSUME "embed" \notin Faults, "workerCrash" \notin Faults,
           TypeInv, SlotsInv, [Next]_vars, NEW j \in Jobs, NoHolders(j),
           ~(status'[j] = "running" /\ trigger'[j] = "cron"),
           \A r \in OneShotRuns : runJob'[r] = j => ~Reserves(r, j)'
    PROVE  NoHolders(j)'
<1>0. /\ runPc \in [Runs -> RunPcs] /\ runJob \in [Runs -> Jobs \cup {NoJob}]
      /\ taskPc \in [Posts -> TaskPcs] /\ taskJob \in [Posts -> Jobs \cup {NoJob}]
      /\ target \in [Posts -> Jobs \cup {NoJob}] /\ hook \in [Posts -> Jobs \cup {NoJob}]
      /\ NoJob # j
      /\ \A r \in Runs : r \in OneShotRuns <=> r \notin CycleRuns
      /\ \A r \in Runs : RunInv(r)
      /\ \A p \in Posts : TaskInv(p)
  BY RunsAssumption DEF TypeInv, RunsInv, RunsOK, TasksInv, TasksOK, Runs, OneShotRuns, SlotsInv, NoJob, Jobs
<1>1. ASSUME NEW i \in Jobs, CurrentCycleJob(i) PROVE i # j
  BY <1>1, JoinedIsOpen
<1>2. ASSUME NEW r \in Runs, RunNext(r) PROVE NoHolders(j)'
  <2>0. /\ \A s \in Runs \ {r} : runPc'[s] = runPc[s] /\ runJob'[s] = runJob[s]
        /\ UNCHANGED <<target, hook>>
    BY <1>0, <1>2
       DEF RunNext, StartRun, BeginSource, EndSource, StorePost, StartRefresh, EnsureJob, ReadInline, ScoreInline,
           ScoredInline, FailInline, ReserveRetry, EnqueueIngest, EnqueueFails, Unreserve, EndRun, CountPosts, LookAtJob,
           CheckJob, CompleteJob, RunThrows, FailJob, LeaveCycle, CrashRun, RunGoes, RunStops, runVars, taskVars
  <2>1. ~RunHolds(r, j) /\ ~Reserves(r, j)
    BY DEF NoHolders
  <2>2. ~RunHolds(r, j)' /\ ~Reserves(r, j)'
    <3>1. ASSUME NEW i \in Jobs, EnsureJob(r, i) PROVE ~RunHolds(r, j)' /\ ~Reserves(r, j)'
      <4>1. r \in CycleRuns => i # j
        BY <3>1, <1>1 DEF EnsureJob
      <4> QED BY <3>1, <4>1, <1>0 DEF EnsureJob, RunGoes, QueuePc, RunHolds, Reserves
    <3>2. CASE ReserveRetry(r)
      <4>1. ~RunHolds(r, j)'
        BY <2>1, <3>2 DEF ReserveRetry, RunHolds
      <4>2. CASE r \in CycleRuns
        BY <2>1, <3>2, <4>2, <4>1 DEF ReserveRetry, RunHolds, Reserves
      <4>3. CASE r \notin CycleRuns
        BY <4>1, <4>3, <1>0 DEF Reserves
      <4> QED BY <4>1, <4>2, <4>3
    <3>3. CASE EnqueueIngest(r) \/ Unreserve(r) \/ LeaveCycle(r) \/ CrashRun(r)
      BY <3>3, <2>1, <1>0
         DEF EnqueueIngest, Unreserve, LeaveCycle, CrashRun, RunGoes, RunStops, RunHolds, Reserves
    <3>4. CASE ~RunHandsOver(r)
      BY <3>4, <2>1, <1>0, <1>2, RunElsewhere
    <3> QED BY <3>1, <3>2, <3>3, <3>4 DEF RunHandsOver
  <2>3. ASSUME NEW p \in Posts PROVE ~TaskTied(p, j)'
    <3>1. CASE EnqueueIngest(r)
      <4>1. runJob[r] # j
        BY <2>1, <3>1 DEF EnqueueIngest, Reserves
      <4>2. ~TaskTied(p, j)
        BY DEF NoHolders
      <4> QED BY <4>1, <4>2, <3>1, <1>0 DEF EnqueueIngest, TaskTied
    <3>2. CASE UNCHANGED <<taskPc, taskJob>>
      BY <3>2 DEF NoHolders, TaskTied
    <3>3. EnqueueIngest(r) \/ UNCHANGED <<taskPc, taskJob>>
      BY <1>2 DEF RunNext, StartRun, BeginSource, EndSource, StorePost, StartRefresh, EnsureJob, ReadInline, ScoreInline,
           ScoredInline, FailInline, ReserveRetry, EnqueueFails, Unreserve, EndRun, CountPosts, LookAtJob,
           CheckJob, CompleteJob, RunThrows, FailJob, LeaveCycle, CrashRun, taskVars
    <3> QED BY <3>1, <3>2, <3>3
  <2>4. ASSUME NEW s \in Runs PROVE ~RunHolds(s, j)' /\ ~Reserves(s, j)'
    BY <2>0, <2>2 DEF NoHolders, RunHolds, Reserves
  <2> QED BY <2>0, <2>3, <2>4 DEF NoHolders
<1>3. ASSUME NEW p \in Posts, TaskNext(p) PROVE NoHolders(j)'
  <2>0. /\ \A o \in Posts \ {p} : /\ taskPc'[o] = taskPc[o] /\ taskJob'[o] = taskJob[o]
                                  /\ target'[o] = target[o] /\ hook'[o] = hook[o]
        /\ UNCHANGED <<runPc, runJob>>
    BY <1>0, <1>3, AttemptFailedMoves
       DEF TaskNext, TakeTask, ReleaseClosed, ChooseCycle, ReadForScore, ScoreStage, Scored, TextRemoved, FailOwn,
           FailTarget, ReleaseSlot, LeaveTarget, EmbedIfGated, EmbedFails, ReleaseFailed, CrashWorker,
           SweepUnscored, RemoveText, TaskGoes, TaskEnds, taskVars, runVars
  <2>1. ~TaskTied(p, j) /\ hook[p] # j /\ target[p] # j /\ TaskInv(p)
    BY <1>0 DEF NoHolders
  <2>2. ~TaskTied(p, j)' /\ hook'[p] # j /\ target'[p] # j
    <3>1. ASSUME NEW i \in Jobs, ChooseCycle(p, i) PROVE ~TaskTied(p, j)' /\ hook'[p] # j /\ target'[p] # j
      <4>1. i # j
        BY <3>1, <2>1, RetryJoinsCron, <1>1
      <4> QED BY <4>1, <3>1, <2>1, <1>0 DEF ChooseCycle, TaskGoes, TaskTied
    <3>2. CASE FailOwn(p)
      BY <3>2, <2>1, <1>0, AttemptFailedMoves DEF FailOwn, TaskTied
    <3>3. CASE LeaveTarget(p)
      BY <3>3, <2>1, <1>0, AttemptFailedMoves DEF LeaveTarget, TaskGoes, TaskEnds, TaskTied
    <3>4. CASE ReleaseClosed(p) \/ ReleaseSlot(p) \/ ReleaseFailed(p)
      BY <3>4, <2>1, <1>0 DEF ReleaseClosed, ReleaseSlot, ReleaseFailed, TaskGoes, TaskEnds, TaskTied
    <3>5. CASE TakeTask(p) \/ Scored(p) \/ TextRemoved(p) \/ FailTarget(p) \/ EmbedIfGated(p) \/ SweepUnscored(p)
      BY <3>5, <2>1, <1>0
         DEF TakeTask, Scored, TextRemoved, FailTarget, Scoring, EmbedIfGated, SweepUnscored, TaskGoes, TaskEnds, TaskTied
    <3>6. CASE (\E s \in Stages : ReadForScore(p, s) \/ ScoreStage(p, s)) \/ RemoveText(p)
      BY <3>6, <2>1 DEF ReadForScore, ScoreStage, RemoveText, TaskTied, taskVars
    <3>7. ~EmbedFails(p) /\ ~CrashWorker(p)
      BY DEF EmbedFails, CrashWorker, Spend
    <3> QED BY <1>3, <3>1, <3>2, <3>3, <3>4, <3>5, <3>6, <3>7 DEF TaskNext
  <2>3. ASSUME NEW s \in Runs PROVE ~RunHolds(s, j)' /\ ~Reserves(s, j)'
    BY <2>0 DEF NoHolders, RunHolds, Reserves
  <2>4. ASSUME NEW o \in Posts PROVE ~TaskTied(o, j)' /\ hook'[o] # j /\ target'[o] # j
    BY <2>0, <2>2 DEF NoHolders, TaskTied
  <2> QED BY <2>3, <2>4 DEF NoHolders
<1>4. CASE OtherStep
  BY <1>4, OtherFrame DEF NoHolders, RunHolds, Reserves, TaskTied, taskVars
<1> QED BY <1>2, <1>3, <1>4 DEF Next, OtherStep

\* So closed jobs have no holder, in every state.
LEMMA SealStep ==
    ASSUME "embed" \notin Faults, "workerCrash" \notin Faults,
           TypeInv, SlotsInv, OpenKept, OwnedInv, OwnedInv', ClaimedInv, ClaimedInv', SealInv, [Next]_vars
    PROVE  SealInv'
<1> SUFFICES ASSUME NEW j \in Jobs, Closed(j)' PROVE NoHolders(j)'
  BY DEF SealInv
<1>1. NoHolders(j)
  BY ClosesUnheld
<1>2. ~(status'[j] = "running" /\ trigger'[j] = "cron")
  <2>1. status'[j] = "running" => ~Sealed(j)'
    BY DEF Sealed, ClaimedInv
  <2>2. trigger'[j] = "cron" => ~Settling(j)'
    BY DEF Settling, OwnedInv, OneShotOwned
  <2> QED BY <2>1, <2>2 DEF Closed
<1>3. ASSUME NEW r \in OneShotRuns, runJob'[r] = j PROVE ~Reserves(r, j)'
  <2>1. status'[j] \in {"running", "failed"} /\ \A c \in Closers : j \notin claimed'[c]
    BY <1>3 DEF OwnedInv, OneShotOwned
  <2>2. Settling(j)'
    BY <2>1 DEF Closed, Sealed
  <2>3. NoJob # j
    BY DEF NoJob, Jobs
  <2>4. runPc'[r] \in {"counting", "looking", "checking", "completing"}
    BY <1>3, <2>2, <2>3 DEF Settling, OwnedInv
  <2> QED BY <2>4 DEF Reserves
<1> QED BY <1>1, <1>2, <1>3, StaysUnheld

-----------------------------------------------------------------------------
(* What a job's bias checks read.                                           *)
\* What a step may do to the results and to the writes under way.
StageRead == \E p \in Posts, s \in Stages :
    ReadStage(p, s) /\ UNCHANGED <<results, audit, late, outlived>>
StageSaved == \E p \in Posts, s \in Stages, j \in Jobs :
    SaveStage(p, s, j) /\ UNCHANGED <<late, outlived>>
AttemptOver(p, L) ==
    /\ L # {} => "straggle" \in Faults
    /\ \E j : (j \in Jobs \/ L = {}) /\ Outlive(p, j, L)
AttemptEnds ==
    /\ \E p \in Posts : \E L \in SUBSET Stages : AttemptOver(p, L)
    /\ UNCHANGED <<results, audit>>
StageLate == \E p \in Posts, s \in Stages, j \in Jobs : LateSave(p, s, j)

\* The end of an attempt, however it comes.
LEMMA FailureEnds ==
    ASSUME TypeInv, NEW p \in Posts, NEW j \in Jobs, UNCHANGED <<results, audit>>,
           \/ \E L \in SUBSET Stages : ScoringFails(p, j, L)
           \/ ScoringRefused(p, j)
    PROVE  AttemptEnds
<1>1. ASSUME NEW L \in SUBSET Stages, ScoringFails(p, j, L) PROVE AttemptEnds
  <2>1. AttemptOver(p, L)
    BY <1>1 DEF ScoringFails, Spend, AttemptOver
  <2> QED BY <2>1 DEF AttemptEnds
<1>2. CASE ScoringRefused(p, j)
  <2>1. writing[p] \in SUBSET Stages
    BY DEF TypeInv, PostsOK
  <2>2. AttemptOver(p, writing[p])
    BY <1>2 DEF ScoringRefused, Spend, AttemptOver
  <2> QED BY <2>1, <2>2 DEF AttemptEnds
<1> QED BY <1>1, <1>2

\* Every step does one of these to them.
LEMMA ScoreMoves ==
    ASSUME TypeInv, [Next]_vars
    PROVE  \/ StageRead \/ StageSaved \/ AttemptEnds \/ StageLate
           \/ UNCHANGED <<results, audit, scoreVars>>
<1>1. ASSUME NEW r \in Runs, RunNext(r)
      PROVE  StageRead \/ StageSaved \/ AttemptEnds \/ UNCHANGED <<results, audit, scoreVars>>
  <2>0. runPc[r] = "score" => runPost[r] \in Posts /\ runJob[r] \in Jobs
    BY DEF TypeInv, RunsInv, RunReady
  <2>1. ASSUME NEW s \in Stages, ReadInline(r, s) PROVE StageRead
    BY <2>0, <2>1 DEF ReadInline, StageRead
  <2>2. ASSUME NEW s \in Stages, ScoreInline(r, s) PROVE StageSaved
    BY <2>0, <2>2 DEF ScoreInline, StageSaved
  <2>3. CASE FailInline(r)
    BY <2>0, <2>3, FailureEnds DEF FailInline
  <2>4. CASE CrashRun(r)
    <3>1. CASE runPc[r] = "score"
      <4>1. AttemptOver(runPost[r], {})
        BY <2>4, <3>1 DEF CrashRun, AttemptOver
      <4> QED BY <2>0, <2>4, <3>1, <4>1 DEF CrashRun, AttemptEnds
    <3> QED BY <2>4, <3>1 DEF CrashRun
  <2>5. CASE UNCHANGED <<results, audit, scoreVars>>
    BY <2>5
  <2> QED BY <1>1, <2>1, <2>2, <2>3, <2>4, <2>5
     DEF RunNext, StartRun, BeginSource, EndSource, StorePost, StartRefresh, EnsureJob,
         ScoredInline, ReserveRetry, EnqueueIngest, EnqueueFails, Unreserve, EndRun, CountPosts, LookAtJob,
         CheckJob, CompleteJob, RunThrows, FailJob, LeaveCycle, postVars
<1>2. ASSUME NEW p \in Posts, TaskNext(p)
      PROVE  StageRead \/ StageSaved \/ AttemptEnds \/ UNCHANGED <<results, audit, scoreVars>>
  <2>0. Scoring(p) => ScoreJob(p) \in Jobs
    BY DEF Scoring, ScoreJob, TypeInv, TasksInv, TaskReady
  <2>1. ASSUME NEW s \in Stages, ReadForScore(p, s) PROVE StageRead
    BY <2>1 DEF ReadForScore, StageRead
  <2>2. ASSUME NEW s \in Stages, ScoreStage(p, s) PROVE StageSaved
    BY <2>0, <2>2 DEF ScoreStage, StageSaved
  <2>3. CASE TextRemoved(p)
    BY <2>0, <2>3, FailureEnds DEF TextRemoved
  <2>4. CASE FailOwn(p)
    <3>1. taskJob[p] \in Jobs
      BY <2>4 DEF FailOwn, TypeInv, TasksInv, TaskReady
    <3> QED BY <2>4, <3>1, FailureEnds DEF FailOwn
  <2>5. CASE FailTarget(p)
    <3>1. target[p] \in Jobs
      BY <2>5 DEF FailTarget, TypeInv, TasksInv, TaskReady
    <3> QED BY <2>5, <3>1, FailureEnds DEF FailTarget
  <2>6. CASE CrashWorker(p)
    <3>1. AttemptOver(p, {})
      BY <2>6 DEF CrashWorker, AttemptOver
    <3> QED BY <2>6, <3>1 DEF CrashWorker, AttemptEnds
  <2>7. CASE UNCHANGED <<results, audit, scoreVars>>
    BY <2>7
  <2> QED BY <1>2, <2>1, <2>2, <2>3, <2>4, <2>5, <2>6, <2>7
     DEF TaskNext, TakeTask, ReleaseClosed, ChooseCycle, Scored, ReleaseSlot, LeaveTarget, EmbedIfGated,
         EmbedFails, ReleaseFailed, SweepUnscored, RemoveText, postVars
<1>3. CASE OtherStep
  BY <1>3 DEF OtherStep, CloserNext, ClaimDueCycles, CloserCounts, CloserChecks, CloserCheckFails,
         CloserFinishes, CrashCloser, RequestNext, PostRefresh, CheckRefresh, InsertRefresh, EnqueueRefresh,
         EnqueueRefreshFails, FailRefresh, StageLate, SweepStaleJobs, Tick, GoQuiet, MinutePasses, vars, postVars
<1> QED BY <1>1, <1>2, <1>3 DEF Next, OtherStep

\* No straggler writes behind a failed attempt's back.
LEMMA NoneLate ==
    ASSUME "straggle" \notin Faults, TypeInv, NothingLate, [Next]_vars
    PROVE  NothingLate'
<1>0. writing \in [Posts -> SUBSET Stages] /\ results \in [Posts -> SUBSET Stages]
  BY DEF TypeInv, PostsOK
<1>1. CASE StageRead
  BY <1>0, <1>1 DEF StageRead, ReadStage, Unscored, NothingLate
<1>2. CASE StageSaved
  BY <1>0, <1>2 DEF StageSaved, SaveStage, NothingLate
<1>3. CASE AttemptEnds
  <2>1. PICK p \in Posts : \E L \in SUBSET Stages : AttemptOver(p, L)
    BY <1>3 DEF AttemptEnds
  <2>2. late' = late /\ writing' = [writing EXCEPT ![p] = {}]
    BY <2>1 DEF AttemptOver, Outlive
  <2> QED BY <1>0, <1>3, <2>2 DEF AttemptEnds, NothingLate
<1>4. CASE StageLate
  BY <1>4 DEF StageLate, LateSave, NothingLate
<1>5. CASE UNCHANGED <<results, audit, scoreVars>>
  BY <1>5 DEF scoreVars, NothingLate
<1> QED BY <1>1, <1>2, <1>3, <1>4, <1>5, ScoreMoves

\* Stages are decided one at a time, and never under a closed job.
Decides ==
    \E p \in Posts, s \in Stages, i \in Jobs :
        /\ SaveStage(p, s, i) /\ ~Closed(i) /\ status[i] # "none"
        /\ UNCHANGED <<status, forced, checked, runPc, runJob, closerPc, claimed>>

\* What something points at has been inserted.
LEMMA InsertedRow ==
    ASSUME TypeInv, RowsInv, NEW j \in Jobs, j <= rows
    PROVE  status[j] # "none"
BY DEF RowsInv, Numbered, TypeInv, JobsOK, Jobs

\* A step decides a stage under a job that is open, or decides nothing.
LEMMA AuditStep ==
    ASSUME TypeInv, SlotsInv, OwnedInv, SealInv, NothingLate, [Next]_vars
    PROVE  Decides \/ UNCHANGED <<results, audit>>
<1>1. ASSUME NEW r \in Runs, NEW s \in Stages, ScoreInline(r, s) PROVE Decides
  <2>0. runPost[r] \in Posts /\ runJob[r] \in Jobs /\ r \in OneShotRuns
    BY <1>1 DEF ScoreInline, TypeInv, RunsInv, RunReady, SlotsInv, RunInv, OneShotRuns
  <2>1. ~Sealed(runJob[r])
    BY <2>0 DEF Sealed, OwnedInv, OneShotOwned
  <2>2. ~Settling(runJob[r])
    <3>1. runJob[r] # NoJob
      BY <2>0 DEF NoJob, Jobs
    <3> QED BY <2>0, <3>1, <1>1 DEF Settling, OwnedInv, ScoreInline
  <2>3. SaveStage(runPost[r], s, runJob[r])
    BY <1>1 DEF ScoreInline
  <2>4. UNCHANGED <<status, forced, checked, runPc, runJob, closerPc, claimed>>
    BY <1>1 DEF ScoreInline, jobVars, runVars, closerVars
  <2>5. ~Closed(runJob[r])
    BY <2>1, <2>2 DEF Closed
  <2>6. status[runJob[r]] # "none"
    BY <2>0, InsertedRow DEF SlotsInv, RowsInv
  <2> QED BY <2>0, <2>3, <2>4, <2>5, <2>6 DEF Decides
<1>2. ASSUME NEW p \in Posts, NEW s \in Stages, ScoreStage(p, s) PROVE Decides
  <2>0. ScoreJob(p) \in Jobs
    BY <1>2 DEF ScoreStage, Scoring, ScoreJob, TypeInv, TasksInv, TaskReady
  <2>1. ~NoHolders(ScoreJob(p))
    BY <1>2 DEF ScoreStage, Scoring, ScoreJob, NoHolders, TaskTied
  <2>2. ~Closed(ScoreJob(p))
    BY <2>0, <2>1 DEF SealInv
  <2>3. SaveStage(p, s, ScoreJob(p))
    BY <1>2 DEF ScoreStage
  <2>4. UNCHANGED <<status, forced, checked, runPc, runJob, closerPc, claimed>>
    BY <1>2 DEF ScoreStage, jobVars, runVars, closerVars
  <2>5. status[ScoreJob(p)] # "none"
    <3>1. ScoreJob(p) <= rows
      BY DEF ScoreJob, SlotsInv, RowsInv
    <3> QED BY <2>0, <3>1, InsertedRow DEF SlotsInv
  <2> QED BY <2>0, <2>2, <2>3, <2>4, <2>5 DEF Decides
<1>3. ASSUME NEW r \in Runs, RunNext(r) PROVE Decides \/ UNCHANGED <<results, audit>>
  BY <1>1, <1>3
     DEF RunNext, ReadInline, StartRun, BeginSource, EndSource, StorePost, StartRefresh, EnsureJob,
         ScoredInline, FailInline, ReserveRetry, EnqueueIngest, EnqueueFails, Unreserve, EndRun, CountPosts, LookAtJob,
         CheckJob, CompleteJob, RunThrows, FailJob, LeaveCycle, CrashRun, postVars, scoreVars
<1>4. ASSUME NEW p \in Posts, TaskNext(p) PROVE Decides \/ UNCHANGED <<results, audit>>
  BY <1>2, <1>4
     DEF TaskNext, ReadForScore, TakeTask, ReleaseClosed, ChooseCycle, Scored, TextRemoved, FailOwn,
         FailTarget, ReleaseSlot, LeaveTarget, EmbedIfGated, EmbedFails, ReleaseFailed, CrashWorker,
         SweepUnscored, RemoveText, postVars, scoreVars
<1>5. CASE OtherStep
  BY <1>5 DEF OtherStep, CloserNext, ClaimDueCycles, CloserCounts, CloserChecks, CloserCheckFails,
         CloserFinishes, CrashCloser, RequestNext, PostRefresh, CheckRefresh, InsertRefresh, EnqueueRefresh,
         EnqueueRefreshFails, FailRefresh, NothingLate, LateSave, SweepStaleJobs, Tick, GoQuiet, MinutePasses, vars, postVars, scoreVars
<1> QED BY <1>3, <1>4, <1>5 DEF Next, OtherStep

\* A sample only grows, and that of a closed job not at all.
LEMMA SampleGrows ==
    ASSUME Decides \/ UNCHANGED <<results, audit>>, NEW j \in Jobs
    PROVE  /\ Sample(j) \subseteq Sample(j)'
           /\ Closed(j) => Sample(j)' = Sample(j)
<1>1. CASE UNCHANGED <<results, audit>>
  BY <1>1 DEF Sample
<1>2. CASE Decides
  <2>1. PICK p \in Posts, s \in Stages, i \in Jobs : SaveStage(p, s, i) /\ ~Closed(i)
    BY <1>2 DEF Decides
  <2>2. audit' = audit \cup {<<p, s, i>>}
    BY <2>1 DEF SaveStage
  <2>3. Closed(j) => j # i
    BY <2>1
  <2> QED BY <2>2, <2>3 DEF Sample
<1> QED BY <1>1, <1>2

\* The checks of a job add what they read.
Checks(i) == RunBiasChecks(i) /\ UNCHANGED audit

\* Only the checks of a job, by its run or by a closer, move what they record.
LEMMA CheckStep ==
    ASSUME TypeInv, [Next]_vars
    PROVE  \/ UNCHANGED <<checked, checks>>
           \/ \E r \in Runs : CheckJob(r) /\ runJob[r] \in Jobs /\ Checks(runJob[r])
           \/ \E c \in Closers : CloserChecks(c) /\ Current(c) \in Jobs /\ Checks(Current(c))
<1>1. ASSUME NEW r \in Runs, RunNext(r)
      PROVE  UNCHANGED <<checked, checks>> \/ (CheckJob(r) /\ runJob[r] \in Jobs /\ Checks(runJob[r]))
  <2>1. CheckJob(r) => runJob[r] \in Jobs /\ Checks(runJob[r])
    BY DEF CheckJob, TypeInv, RunsInv, RunReady, Checks, postVars, scoreVars
  <2> QED BY <1>1, <2>1
     DEF RunNext, StartRun, BeginSource, EndSource, StorePost, StartRefresh, EnsureJob, ReadInline, ScoreInline,
         ScoredInline, FailInline, ReserveRetry, EnqueueIngest, EnqueueFails, Unreserve, EndRun, CountPosts, LookAtJob,
         CompleteJob, RunThrows, FailJob, LeaveCycle, CrashRun, jobVars
<1>2. ASSUME NEW p \in Posts, TaskNext(p) PROVE UNCHANGED <<checked, checks>>
  BY <1>2
     DEF TaskNext, TakeTask, ReleaseClosed, ChooseCycle, ReadForScore, ScoreStage, Scored, TextRemoved, FailOwn,
         FailTarget, ReleaseSlot, LeaveTarget, EmbedIfGated, EmbedFails, ReleaseFailed, CrashWorker,
         SweepUnscored, RemoveText, jobVars
<1>3. ASSUME NEW c \in Closers, CloserNext(c)
      PROVE  UNCHANGED <<checked, checks>> \/ (CloserChecks(c) /\ Current(c) \in Jobs /\ Checks(Current(c)))
  <2>1. CloserChecks(c) => Current(c) \in Jobs /\ Checks(Current(c))
    BY CurrentClaimed DEF CloserChecks, Checks, postVars, scoreVars
  <2> QED BY <1>3, <2>1 DEF CloserNext, ClaimDueCycles, CloserCounts, CloserCheckFails, CloserFinishes,
                            CrashCloser, jobVars
<1>4. ASSUME NEW q \in Requests, RequestNext(q) PROVE UNCHANGED <<checked, checks>>
  BY <1>4 DEF RequestNext, PostRefresh, CheckRefresh, InsertRefresh, EnqueueRefresh, EnqueueRefreshFails,
              FailRefresh, jobVars
<1> QED BY <1>1, <1>2, <1>3, <1>4 DEF Next, LateSave, SweepStaleJobs, Tick, GoQuiet, MinutePasses, vars, jobVars

\* So a closed job that was checked in full stays checked in full.
LEMMA CheckedStays ==
    ASSUME TypeInv, CheckedInv, Decides \/ UNCHANGED <<results, audit>>, [Next]_vars, NEW j \in Jobs
    PROVE  /\ checked'[j] \subseteq Sample(j)'
           /\ Closed(j) /\ checked[j] = Sample(j) => checked'[j] = Sample(j)'
<1>0. checked[j] \subseteq Sample(j) /\ checked \in [Jobs -> SUBSET Posts]
  BY DEF CheckedInv, TypeInv, JobsOK
<1>1. CASE UNCHANGED checked
  BY <1>0, <1>1, SampleGrows
<1>2. ASSUME NEW i \in Jobs, Checks(i)
      PROVE  /\ checked'[j] \subseteq Sample(j)'
             /\ Closed(j) /\ checked[j] = Sample(j) => checked'[j] = Sample(j)'
  <2>1. Sample(j)' = Sample(j)
    BY <1>2 DEF Checks, Sample
  <2>2. checked'[j] = IF j = i THEN checked[j] \cup Sample(j) ELSE checked[j]
    BY <1>0, <1>2 DEF Checks, RunBiasChecks
  <2> QED BY <2>1, <2>2, <1>0
<1> QED BY <1>1, <1>2, CheckStep

\* A job without audit rows has an empty sample.
LEMMA NothingProcessed ==
    ASSUME NEW j, ~AnyProcessed(j)
    PROVE  Sample(j) = {}
<1>1. ASSUME NEW p \in Sample(j) PROVE FALSE
  <2>1. <<p, "sentiment", j>> \in audit
    BY DEF Sample
  <2> QED BY <2>1 DEF AnyProcessed
<1> QED BY <1>1

\* Only closers move in their own protocol.
LEMMA ForcedClaims ==
    ASSUME [Next]_vars
    PROVE  (\E d \in Closers : CloserNext(d)) \/ UNCHANGED <<closerPc, claimed, forced>>
<1>1. ASSUME NEW r \in Runs, RunNext(r) PROVE UNCHANGED <<closerPc, claimed, forced>>
  BY <1>1
     DEF RunNext, StartRun, BeginSource, EndSource, StorePost, StartRefresh, EnsureJob, ReadInline, ScoreInline,
         ScoredInline, FailInline, ReserveRetry, EnqueueIngest, EnqueueFails, Unreserve, EndRun, CountPosts, LookAtJob,
         CheckJob, CompleteJob, RunThrows, FailJob, LeaveCycle, CrashRun, jobVars, closerVars
<1>2. ASSUME NEW p \in Posts, TaskNext(p) PROVE UNCHANGED <<closerPc, claimed, forced>>
  BY <1>2
     DEF TaskNext, TakeTask, ReleaseClosed, ChooseCycle, ReadForScore, ScoreStage, Scored, TextRemoved, FailOwn,
         FailTarget, ReleaseSlot, LeaveTarget, EmbedIfGated, EmbedFails, ReleaseFailed, CrashWorker,
         SweepUnscored, RemoveText, jobVars, closerVars
<1>3. ASSUME NEW q \in Requests, RequestNext(q) PROVE UNCHANGED <<closerPc, claimed, forced>>
  BY <1>3 DEF RequestNext, PostRefresh, CheckRefresh, InsertRefresh, EnqueueRefresh, EnqueueRefreshFails,
              FailRefresh, jobVars, closerVars
<1> QED BY <1>1, <1>2, <1>3
        DEF Next, LateSave, SweepStaleJobs, Tick, GoQuiet, MinutePasses, vars, jobVars, closerVars

\* Every step keeps what completed, completing and claimed jobs have checked.
LEMMA CheckedStep ==
    ASSUME TypeInv, RowsInv, OpenKept, OwnedInv, OwnedInv', CheckedInv, [Next]_vars,
           \A r \in Runs : RunInv(r), Decides \/ UNCHANGED <<results, audit>>
    PROVE  CheckedInv'
<1>0. /\ status \in [Jobs -> Statuses] /\ forced \in [Jobs -> BOOLEAN] /\ claimed \in [Closers -> SUBSET Jobs]
      /\ runPc \in [Runs -> RunPcs] /\ runJob \in [Runs -> Jobs \cup {NoJob}]
      /\ closerPc \in [Closers -> CloserPcs]
      /\ OneShotRuns \subseteq Runs
      /\ \A r \in OneShotRuns : r \notin CycleRuns
  BY RunsAssumption
     DEF TypeInv, JobsOK, ClosersInv, ClosersOK, RunsInv, RunsOK, OneShotRuns, Runs
<1>1. \A j \in Jobs : checked'[j] \subseteq Sample(j)'
  BY CheckedStays
<1>2. \A j \in Jobs : Closed(j) /\ checked[j] = Sample(j) => checked'[j] = Sample(j)'
  BY CheckedStays
\* A completed job.
<1>3. ASSUME NEW j \in Jobs, status'[j] = "completed", ~forced'[j] PROVE checked'[j] = Sample(j)'
  <2>1. CASE status[j] = "completed" /\ ~forced[j]
    <3>1. checked[j] = Sample(j) /\ Closed(j)
      BY <2>1 DEF CheckedInv, Closed, Sealed
    <3> QED BY <3>1, <1>2
  <2>2. ASSUME NEW r \in Runs, CompleteJob(r), runJob[r] = j, status[j] = "running"
        PROVE  checked'[j] = Sample(j)'
    <3>1. runPc[r] = "completing" /\ r \in OneShotRuns
      BY <2>2, <1>0 DEF CompleteJob, RunInv, Runs, OneShotRuns
    <3>2. checked[j] = Sample(j) /\ Closed(j)
      BY <2>2, <3>1 DEF CheckedInv, Closed, Settling
    <3> QED BY <3>2, <1>2
  <2>3. ASSUME NEW c \in Closers, CloserFinishes(c), Current(c) = j, closerPc[c] = "completing"
        PROVE  checked'[j] = Sample(j)'
    <3>1. j \in claimed[c] /\ ~forced[j]
      BY <1>3, <2>3, CurrentClaimed DEF CloserFinishes
    <3>2. checked[j] = Sample(j) /\ Closed(j)
      BY <2>3, <3>1 DEF CheckedInv, Closed, Sealed
    <3> QED BY <3>2, <1>2
  <2>4. \/ status[j] = "completed" /\ ~forced[j]
        \/ \E r \in Runs : CompleteJob(r) /\ runJob[r] = j /\ status[j] = "running"
        \/ \E c \in Closers : CloserFinishes(c) /\ Current(c) = j /\ closerPc[c] = "completing"
    <3>1. ASSUME NEW t, NEW n, InsertJob(t, n) PROVE status[j] = "completed"
      BY <1>0, <1>3, <3>1 DEF InsertJob
    <3>2. ASSUME NEW r \in Runs, RunNext(r)
          PROVE  \/ status[j] = "completed" /\ ~forced[j]
                 \/ CompleteJob(r) /\ runJob[r] = j /\ status[j] = "running"
      <4>1. ~forced[j]
        BY <1>3, <3>2
           DEF RunNext, StartRun, BeginSource, EndSource, StorePost, StartRefresh, EnsureJob, ReadInline, ScoreInline,
               ScoredInline, FailInline, ReserveRetry, EnqueueIngest, EnqueueFails, Unreserve, EndRun, CountPosts, LookAtJob,
               CheckJob, CompleteJob, RunThrows, FailJob, LeaveCycle, CrashRun, jobVars
      <4>2. CASE EndRun(r) \/ CompleteJob(r) \/ FailJob(r)
        BY <4>1, <4>2, <1>0, <1>3 DEF EndRun, CompleteJob, FailJob, SetStatus
      <4>3. CASE \E i \in Jobs : EnsureJob(r, i)
        BY <4>1, <4>3, <3>1, <1>3 DEF EnsureJob, CurrentCycleJob, InsertOneShot
      <4>4. CASE UNCHANGED status
        BY <4>1, <4>4, <1>3
      <4>5. EndRun(r) \/ CompleteJob(r) \/ FailJob(r) \/ (\E i \in Jobs : EnsureJob(r, i)) \/ UNCHANGED status
        BY <3>2
           DEF RunNext, StartRun, BeginSource, EndSource, StorePost, StartRefresh, ReadInline, ScoreInline,
               ScoredInline, FailInline, ReserveRetry, EnqueueIngest, EnqueueFails, Unreserve, CountPosts, LookAtJob,
               CheckJob, RunThrows, LeaveCycle, CrashRun, jobVars
      <4> QED BY <4>2, <4>3, <4>4, <4>5
    <3>3. ASSUME NEW p \in Posts, TaskNext(p) PROVE status[j] = "completed" /\ ~forced[j]
      <4>1. forced' = forced /\ (UNCHANGED status \/ \E t, n : InsertJob(t, n))
        BY <3>3 DEF TaskNext, TakeTask, ReleaseClosed, ChooseCycle, RetryJobFor, CurrentCycleJob, ReadForScore, ScoreStage,
             Scored, TextRemoved, FailOwn, FailTarget, ReleaseSlot, LeaveTarget, EmbedIfGated, EmbedFails,
             ReleaseFailed, CrashWorker, SweepUnscored, RemoveText, jobVars
      <4> QED BY <4>1, <3>1, <1>3
    <3>4. ASSUME NEW c \in Closers, CloserNext(c)
          PROVE  \/ status[j] = "completed" /\ ~forced[j]
                 \/ CloserFinishes(c) /\ Current(c) = j /\ closerPc[c] = "completing"
      <4>1. CASE ClaimDueCycles(c)
        BY <4>1, <1>0, <1>3 DEF ClaimDueCycles
      <4>2. CASE CloserFinishes(c)
        BY <4>2, <1>0, <1>3 DEF CloserFinishes, SetStatus
      <4>3. CASE UNCHANGED <<status, forced>>
        BY <4>3, <1>3
      <4> QED BY <3>4, <4>1, <4>2, <4>3 DEF CloserNext, CloserCounts, CloserChecks, CloserCheckFails, CrashCloser, jobVars
    <3>5. ASSUME NEW q \in Requests, RequestNext(q) PROVE status[j] = "completed" /\ ~forced[j]
      <4>1. forced' = forced
        BY <3>5 DEF RequestNext, PostRefresh, CheckRefresh, InsertRefresh, EnqueueRefresh, EnqueueRefreshFails,
                    FailRefresh, jobVars
      <4>2. status'[j] = status[j] \/ status'[j] = "failed" \/ (\E t, n : InsertJob(t, n))
        BY <3>5, <1>0 DEF RequestNext, PostRefresh, CheckRefresh, InsertRefresh, EnqueueRefresh,
                    EnqueueRefreshFails, FailRefresh, FailStale, SetStatus, jobVars
      <4> QED BY <4>1, <4>2, <3>1, <1>3
    <3>6. ASSUME \/ \E p \in Posts, s \in Stages, k \in Jobs : LateSave(p, s, k)
                 \/ SweepStaleJobs
                 \/ \E k \in Jobs : Tick(k) \/ GoQuiet(k)
                 \/ MinutePasses
                 \/ UNCHANGED vars
          PROVE  status[j] = "completed" /\ ~forced[j]
      BY <3>6, <1>3 DEF LateSave, SweepStaleJobs, FailStale, Tick, GoQuiet, MinutePasses, vars, jobVars
    <3> QED BY <3>2, <3>3, <3>4, <3>5, <3>6 DEF Next
  <2> QED BY <2>1, <2>2, <2>3, <2>4
\* A job its own run is about to complete.
<1>4. ASSUME NEW r \in OneShotRuns, runPc'[r] = "completing", status'[runJob'[r]] = "running"
      PROVE  checked'[runJob'[r]] = Sample(runJob[r])' /\ runJob'[r] = runJob[r]
  <2>1. \/ runPc[r] = "completing" /\ runJob'[r] = runJob[r]
        \/ CountPosts(r) \/ LookAtJob(r) \/ CheckJob(r)
    <3>1. ASSUME NEW s \in Runs, RunNext(s) PROVE (runPc[r] = "completing" /\ runJob'[r] = runJob[r]) \/ CountPosts(r) \/ LookAtJob(r) \/ CheckJob(r)
      BY <1>0, <1>4, <3>1
         DEF RunNext, StartRun, BeginSource, EndSource, StorePost, StartRefresh, EnsureJob, ReadInline, ScoreInline, QueuePc,
             ScoredInline, FailInline, ReserveRetry, EnqueueIngest, EnqueueFails, Unreserve, EndRun,
             CompleteJob, RunThrows, FailJob, LeaveCycle, CrashRun, CountPosts, LookAtJob, CheckJob, RunGoes, RunStops, runVars
    <3>2. ASSUME NEW p \in Posts, TaskNext(p) PROVE UNCHANGED <<runPc, runJob>>
      BY <3>2 DEF TaskNext, TakeTask, ReleaseClosed, ChooseCycle, ReadForScore, ScoreStage, Scored, TextRemoved, FailOwn,
             FailTarget, ReleaseSlot, LeaveTarget, EmbedIfGated, EmbedFails, ReleaseFailed, CrashWorker,
             SweepUnscored, RemoveText, runVars
    <3>3. OtherStep => UNCHANGED <<runPc, runJob>>
      BY OtherFrame
    <3> QED BY <3>1, <3>2, <3>3, <1>4 DEF Next, OtherStep
  <2>2. runJob'[r] = runJob[r] /\ runJob[r] \in Jobs
    <3>1. runPc[r] \in {"completing", "counting", "looking", "checking"} /\ runJob'[r] = runJob[r]
      BY <2>1 DEF CountPosts, LookAtJob, CheckJob
    <3> QED BY <3>1, <1>0 DEF TypeInv, RunsInv, RunReady
  <2>3. PICK j \in Jobs : j = runJob[r] /\ j <= rows
    BY <2>2, <1>0 DEF RowsInv
  <2>4. status[j] = "running"
    BY <1>4, <2>2, <2>3 DEF OpenKept, Open, OwnedInv, OneShotOwned
  <2>5. checked'[j] = Sample(j)'
    <3>1. CASE runPc[r] = "completing"
      <4>1. checked[j] = Sample(j) /\ Closed(j)
        BY <3>1, <2>3, <2>4 DEF CheckedInv, Closed, Settling
      <4> QED BY <4>1, <1>2
    <3>2. CASE CountPosts(r)
      <4>1. ~AnyProcessed(j) /\ UNCHANGED <<audit, checked>>
        BY <3>2, <1>0, <1>4, <2>3, <2>4 DEF CountPosts, RunGoes, jobVars, postVars
      <4>2. Sample(j)' = Sample(j) /\ Sample(j) = {} /\ checked[j] \subseteq Sample(j)
        BY <4>1, NothingProcessed DEF Sample, CheckedInv
      <4> QED BY <4>1, <4>2
    <3>4. CASE LookAtJob(r)
      <4>1. runPc'[r] = "checking"
        BY <3>4, <1>0, <2>3, <2>4 DEF LookAtJob, RunGoes
      <4> QED BY <4>1, <1>4
    <3>3. CASE CheckJob(r)
      <4>1. RunBiasChecks(j) /\ UNCHANGED audit /\ checked[j] \subseteq Sample(j)
        BY <3>3, <2>3 DEF CheckJob, postVars, scoreVars, CheckedInv
      <4> QED BY <4>1 DEF RunBiasChecks, Sample, TypeInv, JobsOK
    <3> QED BY <2>1, <3>1, <3>2, <3>3, <3>4
  <2>6. Sample(runJob[r])' = Sample(j)'
    BY <2>2, <2>3 DEF Sample
  <2> QED BY <2>2, <2>3, <2>5, <2>6
\* A job a closer is about to complete.
<1>5. ASSUME NEW c \in Closers, closerPc'[c] = "completing", ~forced'[Current(c)']
      PROVE  checked'[Current(c)'] = Sample(Current(c))'
  <2>1. \/ closerPc[c] = "completing" /\ claimed'[c] = claimed[c] /\ (forced[Current(c)] => forced'[Current(c)])
        \/ CloserCounts(c) \/ CloserChecks(c)
    <3>1. ASSUME NEW d \in Closers, CloserNext(d)
          PROVE  \/ closerPc[c] = "completing" /\ claimed'[c] = claimed[c] /\ (forced[Current(c)] => forced'[Current(c)])
                 \/ CloserCounts(c) \/ CloserChecks(c)
      <4>1. CASE d = c
        BY <1>0, <1>5, <3>1, <4>1
           DEF CloserNext, ClaimDueCycles, CloserCounts, CloserChecks, CloserCheckFails, CloserFinishes, CrashCloser,
               CloserGoes
      <4>2. CASE d # c
        <5>1. closerPc'[c] = closerPc[c] /\ claimed'[c] = claimed[c]
          BY <1>0, <3>1, <4>2
             DEF CloserNext, ClaimDueCycles, CloserCounts, CloserChecks, CloserCheckFails, CloserFinishes, CrashCloser,
                 CloserGoes
        <5>2. Current(c) \in Jobs
          BY <1>5, <5>1, CurrentClaimed
        <5>3. forced[Current(c)] => forced'[Current(c)]
          BY <3>1, <5>2
             DEF CloserNext, ClaimDueCycles, CloserCounts, CloserChecks, CloserCheckFails, CloserFinishes, CrashCloser,
                 jobVars
        <5> QED BY <5>1, <5>3, <1>5
      <4> QED BY <4>1, <4>2
    <3>2. (\E d \in Closers : CloserNext(d)) \/ UNCHANGED <<closerPc, claimed, forced>>
      BY ForcedClaims
    <3> QED BY <3>1, <3>2, <1>5
  <2>2. closerPc[c] # "idle" /\ claimed'[c] = claimed[c]
    BY <2>1 DEF CloserCounts, CloserChecks
  <2>3. PICK j \in Jobs : j = Current(c) /\ j \in claimed[c]
    BY <2>2, CurrentClaimed
  <2>4. Current(c)' = j
    BY <2>2, <2>3 DEF Current
  <2>5. ~forced[j]
    BY <1>5, <2>1, <2>3, <2>4 DEF CloserCounts, CloserChecks, jobVars
  <2>6. checked'[j] = Sample(j)'
    <3>1. CASE closerPc[c] = "completing"
      <4>1. checked[j] = Sample(j) /\ Closed(j)
        BY <3>1, <2>3, <2>5 DEF CheckedInv, Closed, Sealed
      <4> QED BY <4>1, <1>2
    <3>2. CASE CloserCounts(c)
      <4>1. ~AnyProcessed(j) /\ UNCHANGED <<audit, checked>>
        BY <3>2, <1>0, <1>5, <2>3 DEF CloserCounts, CloserGoes, jobVars, postVars, scoreVars
      <4>2. Sample(j)' = Sample(j) /\ Sample(j) = {} /\ checked[j] \subseteq Sample(j)
        BY <4>1, NothingProcessed DEF Sample, CheckedInv
      <4> QED BY <4>1, <4>2
    <3>3. CASE CloserChecks(c)
      <4>1. RunBiasChecks(j) /\ UNCHANGED audit /\ checked[j] \subseteq Sample(j)
        BY <3>3, <2>3 DEF CloserChecks, postVars, scoreVars, CheckedInv
      <4> QED BY <4>1 DEF RunBiasChecks, Sample, TypeInv, JobsOK
    <3> QED BY <2>1, <3>1, <3>2, <3>3
  <2>7. Sample(Current(c))' = Sample(j)'
    BY <2>4 DEF Sample
  <2> QED BY <2>4, <2>6, <2>7
<1>6. ASSUME NEW r \in OneShotRuns, runPc'[r] = "completing", status'[runJob'[r]] = "running"
      PROVE  checked'[runJob'[r]] = Sample(runJob[r])'
  BY <1>4, <1>6
<1> QED BY <1>1, <1>3, <1>5, <1>6 DEF CheckedInv

\* The invariant, in every state.
LEMMA SampleInit ==
    ASSUME Init
    PROVE  SampleInv
<1>0. /\ NothingLate /\ refreshQ = {} /\ audit = {}
      /\ \A j \in Jobs : status[j] = "none" /\ NoJob # j
      /\ \A r \in OneShotRuns : runJob[r] = NoJob /\ runPc[r] = "idle"
      /\ \A q \in Requests : reqJob[q] = NoJob
      /\ \A c \in Closers : claimed[c] = {} /\ closerPc[c] = "idle"
      /\ \A j \in Jobs : checked[j] = {}
  BY DEF Init, NothingLate, Runs, OneShotRuns, NoJob, Jobs
<1>1. OwnedInv
  BY <1>0 DEF OwnedInv, OneShotOwned
<1>2. SealInv
  BY <1>0 DEF SealInv, Closed, Sealed, Settling
<1>3. ClaimedInv
  BY <1>0 DEF ClaimedInv
<1>4. CheckedInv
  BY <1>0 DEF CheckedInv, Sample
<1> QED BY <1>0, <1>1, <1>2, <1>3, <1>4 DEF SampleInv

\* Every step keeps the invariant, unless one of the three faults is possible.
LEMMA SampleStep ==
    ASSUME "embed" \notin Faults, "workerCrash" \notin Faults, "straggle" \notin Faults,
           TypeInv, TypeInv', SlotsInv, SlotsInv', SampleInv, [Next]_vars
    PROVE  SampleInv'
<1>0. /\ OpenKept /\ RowsInv /\ RowsInv'
      /\ \A r \in Runs : RunInv(r)
      /\ \A p \in Posts : TaskInv(p)
      /\ NothingLate /\ OwnedInv /\ SealInv /\ ClaimedInv /\ CheckedInv
  BY NeverReopens DEF SlotsInv, SampleInv
<1>1. NothingLate'
  BY <1>0, NoneLate
<1>2. OwnedInv'
  BY <1>0, OwnedStep
<1>3. ClaimedInv'
  BY <1>0, ClaimedStep
<1>4. SealInv'
  BY <1>0, <1>2, <1>3, SealStep
<1>5. CheckedInv'
  BY <1>0, <1>2, AuditStep, CheckedStep
<1> QED BY <1>1, <1>2, <1>3, <1>4, <1>5 DEF SampleInv

\* So it holds in every state.
LEMMA SampleAlways ==
    ASSUME "embed" \notin Faults, "workerCrash" \notin Faults, "straggle" \notin Faults
    PROVE  Spec => [](TypeInv /\ SlotsInv /\ SampleInv)
<1>1. Init => TypeInv /\ SlotsInv /\ SampleInv
  BY TypeInvInit, SlotsInit, SampleInit
<1>2. TypeInv /\ SlotsInv /\ SampleInv /\ [Next]_vars => (TypeInv /\ SlotsInv /\ SampleInv)'
  BY TypeInvStep, SlotsStep, SampleStep
<1> QED BY <1>1, <1>2, PTL DEF Spec

\* The bias checks of a completed job read every post decided under it, unless
\* the hard cap closed it - whoever completes it, its run or a closer, and
\* whatever crashes on the way. The hypotheses are the faults that let a post
\* be decided under a job that is closing: a straggling stage of a failed
\* attempt, and a scored post's job attempted again.
THEOREM ChecksReadTheWholeSample ==
    ASSUME "embed" \notin Faults, "workerCrash" \notin Faults, "straggle" \notin Faults
    PROVE  Spec => []ChecksSeeEveryPost
<1>1. SampleInv => ChecksSeeEveryPost
  BY DEF SampleInv, CheckedInv, ChecksSeeEveryPost
<1> QED BY <1>1, SampleAlways, PTL

\* Under the same hypotheses dying runs and closers leak slots but never take
\* another's, and the checks still read the whole sample.
THEOREM CrashesAreSafe ==
    ASSUME "embed" \notin Faults, "workerCrash" \notin Faults, "straggle" \notin Faults
    PROVE  Spec => []CrashSafe
<1>1. SlotsInv => SlotsCoverHolders
  BY HoldersCount DEF SlotsInv, Balanced, SlotsCoverHolders
<1>2. SampleInv => ChecksSeeEveryPost
  BY DEF SampleInv, CheckedInv, ChecksSeeEveryPost
<1>3. SlotsInv /\ SampleInv => CrashSafe
  BY <1>1, <1>2 DEF CrashSafe
<1> QED BY <1>3, SampleAlways, PTL

\* No stage is decided under a job that was claimed, or completed, without the
\* hard cap: what its checks have read is what its sample will ever be.
THEOREM NothingIsScoredOnceClosing ==
    ASSUME "embed" \notin Faults, "workerCrash" \notin Faults, "straggle" \notin Faults
    PROVE  Spec => NoScoringOnceClosing
<1>1. ASSUME TypeInv, SlotsInv, SampleInv, [Next]_vars
      PROVE  \A row \in audit' \ audit : ~(status[row[3]] \in {"closing", "completed"} /\ ~forced[row[3]])
  <2>1. CASE Decides
    <3>1. PICK p \in Posts, s \in Stages, i \in Jobs : SaveStage(p, s, i) /\ ~Closed(i)
      BY <2>1 DEF Decides
    <3>2. \A row \in audit' \ audit : row[3] = i
      BY <3>1 DEF SaveStage
    <3> QED BY <3>1, <3>2 DEF Closed, Sealed
  <2>2. CASE UNCHANGED <<results, audit>>
    BY <2>2
  <2> QED BY <1>1, <2>1, <2>2, AuditStep DEF SampleInv
<1>2. TypeInv /\ SlotsInv /\ SampleInv /\ [Next]_vars =>
          [\A row \in audit' \ audit : ~(status[row[3]] \in {"closing", "completed"} /\ ~forced[row[3]])]_vars
  BY <1>1
<1> QED BY <1>2, SampleAlways, PTL DEF Spec, NoScoringOnceClosing

-----------------------------------------------------------------------------
(* One decision per stage of a post. A stage that was found without a
   result is still without one when it is written, unless a write outlived an
   attempt on its post: that is what makes the look and the write, two
   transactions, as good as one.                                            *)
DecidedInv ==
    /\ \A a \in audit : a \in Posts \X Stages \X Jobs /\ a[2] \in results[a[1]]
    /\ \A a \in late : a[1] \in outlived
    /\ \A p \in Posts \ outlived : writing[p] \cap results[p] = {}
    /\ OneDecision

\* Every step keeps it.
LEMMA DecidedStep ==
    ASSUME TypeInv, DecidedInv, [Next]_vars
    PROVE  DecidedInv'
<1>0. /\ results \in [Posts -> SUBSET Stages] /\ writing \in [Posts -> SUBSET Stages]
      /\ outlived \subseteq Posts
  BY DEF TypeInv, PostsOK
\* A row for a stage that has none, or of a post whose write outlived its attempt.
<1>1. ASSUME NEW p \in Posts, NEW s \in Stages, NEW j \in Jobs,
             results' = [results EXCEPT ![p] = @ \cup {s}], audit' \subseteq audit \cup {<<p, s, j>>},
             outlived' = outlived, s \notin results[p] \/ p \in outlived
      PROVE  /\ \A a \in audit' : a \in Posts \X Stages \X Jobs /\ a[2] \in results'[a[1]]
             /\ OneDecision'
  <2>1. \A o \in Posts : results[o] \subseteq results'[o]
    BY <1>0, <1>1
  <2>2. s \in results'[p]
    BY <1>0, <1>1
  <2>3. \A a \in audit' : a \in Posts \X Stages \X Jobs /\ a[2] \in results'[a[1]]
    <3>1. ASSUME NEW a \in audit PROVE a \in Posts \X Stages \X Jobs /\ a[2] \in results'[a[1]]
      <4>1. a \in Posts \X Stages \X Jobs /\ a[2] \in results[a[1]]
        BY DEF DecidedInv
      <4>2. a[1] \in Posts
        BY <4>1
      <4> QED BY <4>1, <4>2, <2>1
    <3> QED BY <1>1, <2>2, <3>1
  <2>4. \A a \in audit : a[1] = p /\ a[2] = s => p \in outlived
    BY <1>1 DEF DecidedInv
  <2>5. OneDecision'
    BY <1>1, <2>4 DEF DecidedInv, OneDecision
  <2> QED BY <2>3, <2>5
<1>2. CASE StageRead
  <2>1. PICK p \in Posts, s \in Stages : ReadStage(p, s) /\ UNCHANGED <<results, audit, late, outlived>>
    BY <1>2 DEF StageRead
  <2>2. \A o \in Posts \ outlived : writing'[o] \cap results[o] = {}
    BY <1>0, <2>1 DEF ReadStage, Unscored, DecidedInv
  <2> QED BY <2>1, <2>2 DEF DecidedInv, OneDecision
<1>3. CASE StageSaved
  <2>1. PICK p \in Posts, s \in Stages, j \in Jobs : SaveStage(p, s, j) /\ UNCHANGED <<late, outlived>>
    BY <1>3 DEF StageSaved
  <2>2. s \notin results[p] \/ p \in outlived
    BY <2>1 DEF SaveStage, DecidedInv
  <2>3. \A o \in Posts \ outlived : writing'[o] \cap results'[o] = {}
    BY <1>0, <2>1 DEF SaveStage, DecidedInv
  <2>4. /\ \A a \in audit' : a \in Posts \X Stages \X Jobs /\ a[2] \in results'[a[1]]
        /\ OneDecision'
    BY <1>1, <2>1, <2>2 DEF SaveStage
  <2> QED BY <2>1, <2>3, <2>4 DEF DecidedInv
<1>4. CASE AttemptEnds
  <2>1. PICK p \in Posts, L \in SUBSET Stages : AttemptOver(p, L)
    BY <1>4 DEF AttemptEnds
  <2>2. PICK j : Outlive(p, j, L)
    BY <2>1 DEF AttemptOver
  <2>3. \A a \in late' : a[1] \in outlived'
    BY <2>2 DEF Outlive, DecidedInv
  <2>4. outlived \subseteq outlived'
    BY <2>2 DEF Outlive
  <2>5. \A o \in Posts \ outlived' : writing'[o] \cap results'[o] = {}
    BY <1>0, <1>4, <2>2, <2>4 DEF Outlive, AttemptEnds, DecidedInv
  <2> QED BY <1>4, <2>3, <2>4, <2>5 DEF AttemptEnds, DecidedInv, OneDecision
<1>5. CASE StageLate
  <2>1. PICK p \in Posts, s \in Stages, j \in Jobs : LateSave(p, s, j)
    BY <1>5 DEF StageLate
  <2>2. p \in outlived /\ UNCHANGED <<writing, outlived>>
    BY <2>1 DEF LateSave, DecidedInv
  <2>3. /\ \A a \in audit' : a \in Posts \X Stages \X Jobs /\ a[2] \in results'[a[1]]
        /\ OneDecision'
    BY <1>1, <2>1, <2>2 DEF LateSave
  <2>4. \A o \in Posts \ outlived : writing[o] \cap results'[o] = {}
    BY <1>0, <2>1, <2>2 DEF LateSave, DecidedInv
  <2>5. \A a \in late' : a[1] \in outlived
    BY <2>1 DEF LateSave, DecidedInv
  <2> QED BY <2>2, <2>3, <2>4, <2>5 DEF DecidedInv
<1>6. CASE UNCHANGED <<results, audit, scoreVars>>
  BY <1>6 DEF scoreVars, DecidedInv, OneDecision
<1> QED BY <1>2, <1>3, <1>4, <1>5, <1>6, ScoreMoves

\* Whatever fails, dies, is retried or swept, and whoever scores the post - run,
\* queue or sweep - a stage of it is decided under one job, although every
\* attempt looks for a result in one transaction and writes in another, with an
\* audit row it writes whether or not the result is there by then: unless an
\* attempt on the post ended with a write still under way.
THEOREM StagesAreDecidedOnce == Spec => []OneDecision
<1>1. Init => DecidedInv
  BY DEF Init, DecidedInv, OneDecision
<1>2. TypeInv /\ DecidedInv /\ [Next]_vars => (TypeInv /\ DecidedInv)'
  BY TypeInvStep, DecidedStep
<1>3. DecidedInv => OneDecision
  BY DEF DecidedInv
<1> QED BY <1>1, <1>2, <1>3, TypeInvInit, PTL DEF Spec

-----------------------------------------------------------------------------
(* Finished rows.                                                           *)
(* No row is in the hands of two closers: nobody claims a row that another
   closer still holds. A single closer is always exclusive.                 *)
Exclusive == \A c, d \in Closers : c # d => claimed[c] \cap claimed[d] = {}

\* What a step does to the status of a row: its run settles it while it is
\* running, a closer claims or finishes it, or nothing.
LEMMA StatusStep ==
    ASSUME TypeInv, WorkInv, OwnedInv, [Next]_vars, NEW j \in Jobs, status[j] # "none"
    PROVE  \/ status'[j] = status[j]
           \/ status[j] = "running" /\ status'[j] \in {"awaiting_retries", "completed", "failed"}
           \/ \E c \in Closers : ClaimDueCycles(c) /\ j \in DueJobs
           \/ \E c \in Closers : CloserFinishes(c) /\ j = Current(c)
<1>0. /\ status \in [Jobs -> Statuses] /\ rows + 1 # j
      /\ \A r \in OneShotRuns : runJob[r] \in Jobs \cup {NoJob}
  BY RunsAssumption, JobsAssumption
     DEF TypeInv, JobsOK, WorkInv, RowsInv, Numbered, RunsInv, RunsOK, OneShotRuns, Runs, Jobs
<1>1. ASSUME NEW t, NEW n, InsertJob(t, n) PROVE status'[j] = status[j]
  BY <1>0, <1>1 DEF InsertJob
<1>2. ASSUME NEW r \in Runs, RunNext(r)
      PROVE  \/ status'[j] = status[j]
             \/ status[j] = "running" /\ status'[j] \in {"awaiting_retries", "completed", "failed"}
  <2>1. CASE EndRun(r) \/ CompleteJob(r) \/ FailJob(r)
    BY <2>1, <1>0 DEF EndRun, CompleteJob, FailJob, SetStatus, AwaitsRetries
  <2>2. CASE \E i \in Jobs : EnsureJob(r, i)
    BY <2>2, <1>1 DEF EnsureJob, CurrentCycleJob, InsertOneShot
  <2>3. EndRun(r) \/ CompleteJob(r) \/ FailJob(r) \/ (\E i \in Jobs : EnsureJob(r, i)) \/ UNCHANGED status
    BY <1>2
       DEF RunNext, StartRun, BeginSource, EndSource, StorePost, StartRefresh, ReadInline, ScoreInline,
           ScoredInline, FailInline, ReserveRetry, EnqueueIngest, EnqueueFails, Unreserve, CountPosts, LookAtJob,
           CheckJob, RunThrows, LeaveCycle, CrashRun, jobVars
  <2> QED BY <2>1, <2>2, <2>3
<1>3. ASSUME NEW p \in Posts, TaskNext(p) PROVE status'[j] = status[j]
  <2>1. UNCHANGED status \/ \E t, n : InsertJob(t, n)
    BY <1>3 DEF TaskNext, TakeTask, ReleaseClosed, ChooseCycle, RetryJobFor, CurrentCycleJob, ReadForScore, ScoreStage, Scored,
             TextRemoved, FailOwn, FailTarget, ReleaseSlot, LeaveTarget, EmbedIfGated, EmbedFails, ReleaseFailed,
             CrashWorker, SweepUnscored, RemoveText, jobVars
  <2> QED BY <2>1, <1>1
<1>4. ASSUME NEW c \in Closers, CloserNext(c)
      PROVE  \/ status'[j] = status[j]
             \/ ClaimDueCycles(c) /\ j \in DueJobs
             \/ CloserFinishes(c) /\ j = Current(c)
  BY <1>0, <1>4 DEF CloserNext, ClaimDueCycles, CloserCounts, CloserChecks, CloserCheckFails, CloserFinishes,
                    CrashCloser, SetStatus, jobVars
<1>5. ASSUME NEW ts, FailStale(ts)
      PROVE  status'[j] = status[j] \/ (status[j] = "running" /\ status'[j] = "failed")
  BY <1>5 DEF FailStale, StaleJobs
<1>6. ASSUME NEW q \in Requests, RequestNext(q)
      PROVE  \/ status'[j] = status[j]
             \/ status[j] = "running" /\ status'[j] = "failed"
  <2>1. CASE FailRefresh(q) /\ j = reqJob[q]
    <3>1. OneShotOwned(j)
      BY <2>1 DEF OneShotOwned
    <3>2. status'[j] = "failed"
      BY <2>1, <1>0 DEF FailRefresh, SetStatus
    <3> QED BY <3>1, <3>2 DEF OwnedInv
  <2>2. CASE FailRefresh(q) /\ j # reqJob[q]
    BY <2>2, <1>0 DEF FailRefresh, SetStatus
  <2>3. FailRefresh(q) \/ UNCHANGED status \/ (\E ts : FailStale(ts)) \/ (\E t, n : InsertJob(t, n))
    BY <1>6 DEF RequestNext, PostRefresh, CheckRefresh, InsertRefresh, EnqueueRefresh, EnqueueRefreshFails, jobVars
  <2> QED BY <2>1, <2>2, <2>3, <1>1, <1>5
<1>7. CASE SweepStaleJobs
  BY <1>5, <1>7 DEF SweepStaleJobs
<1>8. ASSUME \/ \E p \in Posts, s \in Stages, k \in Jobs : LateSave(p, s, k)
             \/ \E k \in Jobs : Tick(k) \/ GoQuiet(k)
             \/ MinutePasses
             \/ UNCHANGED vars
      PROVE  status'[j] = status[j]
  BY <1>8 DEF LateSave, Tick, GoQuiet, MinutePasses, vars, jobVars
<1> QED BY <1>2, <1>3, <1>4, <1>6, <1>7, <1>8 DEF Next

\* A closer that shares no row keeps what it has claimed for itself, and so
\* nobody writes to a row that is finished.
LEMMA ClosingStep ==
    ASSUME Exclusive, TypeInv, WorkInv, OwnedInv, ClosingInv, [Next]_vars
    PROVE  /\ ClosingInv'
           /\ \A j \in Jobs : status[j] \in Terminal => status'[j] = status[j]
<1>0. claimed \in [Closers -> SUBSET Jobs]
  BY DEF TypeInv, ClosersInv, ClosersOK
<1>1. ASSUME NEW c \in Closers, CloserFinishes(c)
      PROVE  /\ Current(c) \in claimed[c] /\ status[Current(c)] = "closing"
             /\ claimed'[c] = claimed[c] \ {Current(c)}
  BY <1>0, <1>1, CurrentClaimed DEF CloserFinishes, ClosingInv
<1>2. ASSUME NEW j \in Jobs, status[j] \in Terminal PROVE status'[j] = status[j]
  <2>1. status[j] \notin {"none", "running", "closing"} /\ j \notin DueJobs
    BY <1>2 DEF Terminal, DueJobs, Due
  <2> QED BY <2>1, <1>1, StatusStep
<1>3. ASSUME NEW c \in Closers, NEW j \in claimed'[c] PROVE status'[j] = "closing"
  <2>1. CASE ClaimDueCycles(c) /\ claimed'[c] = DueJobs
    BY <2>1, <1>3 DEF ClaimDueCycles, DueJobs
  <2>2. CASE j \in claimed[c]
    <3>1. j \in Jobs /\ status[j] = "closing"
      BY <2>2, <1>0 DEF ClosingInv
    <3>2. ASSUME NEW d \in Closers, CloserFinishes(d), j = Current(d) PROVE FALSE
      <4>1. CASE d = c
        BY <4>1, <3>2, <1>1, <1>3
      <4>2. CASE d # c
        BY <4>2, <3>2, <2>2, <1>1 DEF Exclusive
      <4> QED BY <4>1, <4>2
    <3>3. ASSUME NEW d \in Closers, ClaimDueCycles(d), j \in DueJobs PROVE status'[j] = "closing"
      BY <3>1, <3>3 DEF ClaimDueCycles
    <3> QED BY <3>1, <3>2, <3>3, StatusStep
  <2> QED BY <2>1, <2>2, <1>3, ClaimsMove
<1> QED BY <1>2, <1>3 DEF ClosingInv

\* The invariants of the hands a job is in, without counting slots.
HandsInv == TypeInv /\ WorkInv /\ OwnedInv /\ ClosingInv

\* They hold initially.
LEMMA HandsInit == Init => HandsInv
<1> SUFFICES ASSUME Init PROVE HandsInv
  OBVIOUS
<1>1. TypeInv /\ SlotsInv /\ SampleInv
  BY TypeInvInit, SlotsInit, SampleInit
<1>2. ClosingInv
  BY DEF Init, ClosingInv
<1> QED BY <1>1, <1>2 DEF HandsInv, WorkInv, SlotsInv, SampleInv

\* Every step keeps them, with any fault, as long as no row is shared.
LEMMA HandsStep ==
    ASSUME Exclusive, HandsInv, [Next]_vars
    PROVE  HandsInv'
<1>0. /\ TypeInv /\ WorkInv /\ RowsInv /\ OwnedInv /\ ClosingInv /\ OpenKept
      /\ \A r \in Runs : RunInv(r)
      /\ \A p \in Posts : TaskInv(p)
  BY NeverReopens DEF HandsInv, WorkInv
<1>1. TypeInv'
  BY <1>0, TypeInvStep
<1>2. WorkInv'
  BY <1>0, WorkStep
<1>3. OwnedInv'
  BY <1>0, OwnedStep
<1>4. ClosingInv'
  BY <1>0, ClosingStep
<1> QED BY <1>1, <1>2, <1>3, <1>4 DEF HandsInv

\* A row of processing_jobs that is completed or failed stays as it is, with
\* every fault and crash and any number of closers, as long as no two of them
\* hold one row: a second one may claim a row whose closer is slow, and both
\* finish it (claimDueCycles; when that can be is SharedRowsAreOverdue).
THEOREM FinishedRowsStay == Spec /\ []Exclusive => FinishedIsFinal
<1>1. HandsInv /\ Exclusive /\ [Next]_vars => HandsInv'
  BY HandsStep
<1>2. HandsInv /\ Exclusive /\ [Next]_vars =>
          [\A j \in Jobs : status[j] \in Terminal => status'[j] = status[j]]_vars
  BY ClosingStep DEF HandsInv
<1> QED BY <1>1, <1>2, HandsInit, PTL DEF Spec, FinishedIsFinal

-----------------------------------------------------------------------------
(* Rows in the hands of several closers, with every fault and crash.        *)
(* A cycle still unfinished at twice the hard cap: its closer counts as dead. *)
Overdue(j) == trigger[j] = "cron" /\ age[j] = DeadCloserAge

(* Closers share overdue rows only, and what a closer holds is being closed,
   unless one that shared it has finished it.                               *)
SharedAreOverdue ==
    \A c, d \in Closers : c # d => \A j \in claimed[c] \cap claimed[d] : Overdue(j)

HeldInv ==
    /\ SharedAreOverdue
    /\ \A c \in Closers : \A j \in claimed[c] :
          status[j] = "closing" \/ (status[j] \in Terminal /\ Overdue(j))

(* The hands a job is in, without the closers'.                             *)
RowsInHand == TypeInv /\ WorkInv /\ OwnedInv

LEMMA RowsInHandInit == Init => RowsInHand /\ HeldInv
<1> SUFFICES ASSUME Init PROVE RowsInHand /\ HeldInv
  OBVIOUS
<1>1. HandsInv
  BY HandsInit
<1>2. HeldInv
  BY DEF Init, HeldInv, SharedAreOverdue
<1> QED BY <1>1, <1>2 DEF HandsInv, RowsInHand

LEMMA RowsInHandStep ==
    ASSUME RowsInHand, [Next]_vars
    PROVE  RowsInHand'
<1>0. /\ TypeInv /\ WorkInv /\ RowsInv /\ OwnedInv /\ OpenKept
      /\ \A r \in Runs : RunInv(r)
      /\ \A p \in Posts : TaskInv(p)
  BY NeverReopens DEF RowsInHand, WorkInv
<1> QED BY <1>0, TypeInvStep, WorkStep, OwnedStep DEF RowsInHand

\* Time does not run backwards.
LEMMA AgeStep ==
    ASSUME TypeInv, [Next]_vars, NEW j \in Jobs
    PROVE  age'[j] = age[j] \/ (age[j] < DeadCloserAge /\ age'[j] = age[j] + 1)
<1>1. ASSUME NEW r \in Runs, RunNext(r) PROVE UNCHANGED age
  BY <1>1
     DEF RunNext, StartRun, BeginSource, EndSource, StorePost, StartRefresh, EnsureJob, ReadInline, ScoreInline,
         ScoredInline, FailInline, ReserveRetry, EnqueueIngest, EnqueueFails, Unreserve, EndRun, CountPosts, LookAtJob,
         CheckJob, CompleteJob, RunThrows, FailJob, LeaveCycle, CrashRun, jobVars
<1>2. ASSUME NEW p \in Posts, TaskNext(p) PROVE UNCHANGED age
  BY <1>2
     DEF TaskNext, TakeTask, ReleaseClosed, ChooseCycle, ReadForScore, ScoreStage, Scored, TextRemoved, FailOwn, FailTarget,
         ReleaseSlot, LeaveTarget, EmbedIfGated, EmbedFails, ReleaseFailed, CrashWorker, SweepUnscored,
         RemoveText, jobVars
<1>3. ASSUME NEW c \in Closers, CloserNext(c) PROVE UNCHANGED age
  BY <1>3 DEF CloserNext, ClaimDueCycles, CloserCounts, CloserChecks, CloserCheckFails, CloserFinishes,
              CrashCloser, jobVars
<1>4. ASSUME NEW q \in Requests, RequestNext(q) PROVE UNCHANGED age
  BY <1>4 DEF RequestNext, PostRefresh, CheckRefresh, InsertRefresh, EnqueueRefresh, EnqueueRefreshFails,
              FailRefresh, jobVars
<1>5. ASSUME NEW i \in Jobs, Tick(i)
      PROVE  age'[j] = age[j] \/ (age[j] < DeadCloserAge /\ age'[j] = age[j] + 1)
  BY <1>5 DEF Tick, TypeInv, JobsOK
<1>6. (\E i \in Jobs : Tick(i)) \/ UNCHANGED age
  BY <1>1, <1>2, <1>3, <1>4 DEF Next, LateSave, SweepStaleJobs, GoQuiet, MinutePasses, vars, jobVars
<1> QED BY <1>5, <1>6

\* An overdue row stays overdue.
LEMMA OverdueStays ==
    ASSUME TypeInv, [Next]_vars, NEW j \in Jobs, j <= rows, Overdue(j)
    PROVE  Overdue(j)'
BY AgeStep, NeverReopens DEF Overdue, DeadCloserAge, OpenKept

\* Only a closer that holds a row has its claim on it end, and only a row that
\* is due is claimed.
LEMMA SharedStep ==
    ASSUME RowsInHand, RowsInHand', HeldInv, [Next]_vars
    PROVE  SharedAreOverdue'
<1>0. /\ TypeInv /\ RowsInv
      /\ claimed \in [Closers -> SUBSET Jobs] /\ age \in [Jobs -> Ages]
      /\ \A c \in Closers : \A j \in claimed[c] : j \in Jobs /\ j <= rows
  BY DEF RowsInHand, WorkInv, RowsInv, TypeInv, JobsOK, ClosersInv, ClosersOK
<1>1. ASSUME NEW c \in Closers, NEW d \in Closers, c # d, NEW j, j \in claimed[c], j \in DueJobs
      PROVE  Overdue(j)
  <2>1. status[j] \in {"closing", "completed", "failed"}
    BY <1>1 DEF HeldInv, Terminal
  <2>2. trigger[j] = "cron" /\ age[j] >= DeadCloserAge /\ age[j] \in Ages
    BY <2>1, <1>1, <1>0 DEF DueJobs, Due
  <2> QED BY <2>2 DEF Overdue, Ages, DeadCloserAge
<1>2. ASSUME NEW c \in Closers, NEW d \in Closers, c # d, ClaimDueCycles(c)
      PROVE  claimed'[d] = claimed[d]
  BY <1>2, <1>0 DEF ClaimDueCycles
<1>3. ASSUME NEW c \in Closers, NEW d \in Closers, c # d, NEW j, j \in claimed'[c], j \in claimed'[d]
      PROVE  j \in Jobs /\ j <= rows /\ Overdue(j)
  <2>1. CASE claimed'[c] \subseteq claimed[c] /\ claimed'[d] \subseteq claimed[d]
    BY <2>1, <1>0, <1>3 DEF HeldInv, SharedAreOverdue
  <2>2. CASE ClaimDueCycles(c) /\ claimed'[c] = DueJobs
    <3>1. j \in claimed[d] /\ j \in DueJobs
      BY <2>2, <1>2, <1>3
    <3> QED BY <3>1, <1>0, <1>1, <1>3
  <2>3. CASE ClaimDueCycles(d) /\ claimed'[d] = DueJobs
    <3>1. j \in claimed[c] /\ j \in DueJobs
      BY <2>3, <1>2, <1>3
    <3> QED BY <3>1, <1>0, <1>1, <1>3
  <2> QED BY <1>0, <2>1, <2>2, <2>3, ClaimsMove
<1> QED BY <1>0, <1>3, OverdueStays DEF SharedAreOverdue

\* What becomes of a row that is finished, or about to be, by the step of a
\* closer: unless it is overdue, only the closer that holds it finishes it.
LEMMA HeldStep ==
    ASSUME RowsInHand, RowsInHand', HeldInv, [Next]_vars
    PROVE  /\ HeldInv'
           /\ \A j \in Jobs : status[j] \in Terminal /\ ~Overdue(j) => status'[j] = status[j]
<1>0. /\ TypeInv /\ WorkInv /\ OwnedInv /\ RowsInv
      /\ claimed \in [Closers -> SUBSET Jobs] /\ status \in [Jobs -> Statuses]
      /\ \A c \in Closers : \A j \in claimed[c] : j \in Jobs /\ j <= rows
  BY DEF RowsInHand, WorkInv, RowsInv, TypeInv, JobsOK, ClosersInv, ClosersOK
<1>1. ASSUME NEW c \in Closers, CloserFinishes(c)
      PROVE  /\ Current(c) \in claimed[c] /\ Current(c) \in Jobs
             /\ claimed'[c] = claimed[c] \ {Current(c)}
             /\ status'[Current(c)] \in Terminal
  BY <1>0, <1>1, CurrentClaimed DEF CloserFinishes, SetStatus, Terminal
<1>2. ASSUME NEW j \in Jobs, status[j] \in Terminal
      PROVE  /\ status'[j] = status[j] \/ \E d \in Closers : CloserFinishes(d) /\ j = Current(d)
             /\ status'[j] \in Terminal
             /\ ~Overdue(j) => status'[j] = status[j]
  <2>1. status[j] \notin {"none", "running", "closing"} /\ j \notin DueJobs
    BY <1>2 DEF Terminal, DueJobs, Due
  <2>2. status'[j] = status[j] \/ \E d \in Closers : CloserFinishes(d) /\ j = Current(d)
    BY <2>1, <1>0, StatusStep
  <2>3. ASSUME NEW d \in Closers, CloserFinishes(d), j = Current(d) PROVE Overdue(j)
    BY <2>1, <2>3, <1>1 DEF HeldInv
  <2> QED BY <2>2, <2>3, <1>1, <1>2
<1>3. ASSUME NEW c \in Closers, NEW j \in claimed'[c]
      PROVE  status'[j] = "closing" \/ (status'[j] \in Terminal /\ Overdue(j)')
  <2>1. CASE ClaimDueCycles(c) /\ claimed'[c] = DueJobs
    BY <2>1, <1>3 DEF ClaimDueCycles, DueJobs
  <2>2. CASE j \in claimed[c]
    <3>0. j \in Jobs /\ j <= rows
      BY <2>2, <1>0
    <3>1. CASE status[j] = "closing"
      <4>1. ASSUME NEW d \in Closers, CloserFinishes(d), j = Current(d)
            PROVE  status'[j] \in Terminal /\ Overdue(j)'
        <5>1. d # c
          BY <4>1, <1>1, <1>3
        <5>2. Overdue(j)
          BY <5>1, <4>1, <2>2, <1>1 DEF HeldInv, SharedAreOverdue
        <5> QED BY <5>2, <4>1, <3>0, <1>0, <1>1, OverdueStays
      <4>2. ASSUME NEW d \in Closers, ClaimDueCycles(d) PROVE status'[j] = "closing"
        BY <3>0, <3>1, <4>2 DEF ClaimDueCycles
      <4> QED BY <3>0, <3>1, <4>1, <4>2, <1>0, StatusStep
    <3>2. CASE status[j] \in Terminal /\ Overdue(j)
      BY <3>0, <3>2, <1>0, <1>2, OverdueStays
    <3> QED BY <2>2, <3>1, <3>2 DEF HeldInv
  <2> QED BY <2>1, <2>2, <1>0, <1>3, ClaimsMove
<1> QED BY <1>2, <1>3, SharedStep DEF HeldInv

\* So both always hold.
LEMMA HeldAlways == Spec => [](RowsInHand /\ HeldInv)
<1>1. RowsInHand /\ HeldInv /\ [Next]_vars => (RowsInHand /\ HeldInv)'
  BY RowsInHandStep, HeldStep
<1> QED BY <1>1, RowsInHandInit, PTL DEF Spec

\* Two closers never hold one row unless it is a cycle past twice the hard cap,
\* where claimDueCycles takes its closer for dead: with any number of closers,
\* every fault and every crash.
THEOREM SharedRowsAreOverdue == Spec => []SharedAreOverdue
<1>1. HeldInv => SharedAreOverdue
  BY DEF HeldInv
<1> QED BY <1>1, HeldAlways, PTL

\* Closers that are done with a cycle before that age hold no row together:
\* what the theorems under Exclusive suppose is a matter of their speed alone.
THEOREM PromptClosersExclude ==
    Spec /\ [](\A c \in Closers : \A j \in claimed[c] : ~Overdue(j)) => []Exclusive
<1>1. SharedAreOverdue /\ (\A c \in Closers : \A j \in claimed[c] : ~Overdue(j)) => Exclusive
  BY DEF SharedAreOverdue, Exclusive
<1> QED BY <1>1, SharedRowsAreOverdue, PTL

\* A row finished before that age is final, whatever the closers, the runs, the
\* sweeper and the route do, and whoever dies: only an overdue cycle can be
\* finished twice.
THEOREM RowsFinishedInTimeStay ==
    Spec => [][\A j \in Jobs : status[j] \in Terminal /\ ~Overdue(j) => status'[j] = status[j]]_vars
<1>1. RowsInHand /\ HeldInv /\ (RowsInHand /\ HeldInv)' /\ [Next]_vars =>
          [\A j \in Jobs : status[j] \in Terminal /\ ~Overdue(j) => status'[j] = status[j]]_vars
  BY HeldStep
<1> QED BY <1>1, HeldAlways, PTL DEF Spec

\* A finished row that no closer holds any more is out of everybody's hands for
\* good, overdue or not: nobody claims it again and nobody writes its status.
THEOREM ReleasedRowsStay ==
    Spec => [][\A j \in Jobs :
                  status[j] \in Terminal /\ (\A c \in Closers : j \notin claimed[c]) =>
                      status'[j] = status[j] /\ (\A c \in Closers : j \notin claimed'[c])]_vars
<1>1. ASSUME RowsInHand, [Next]_vars, NEW j \in Jobs, status[j] \in Terminal,
             \A c \in Closers : j \notin claimed[c]
      PROVE  status'[j] = status[j] /\ (\A c \in Closers : j \notin claimed'[c])
  <2>1. status[j] \notin {"none", "running", "closing"} /\ j \notin DueJobs
    BY <1>1 DEF Terminal, DueJobs, Due
  <2>2. TypeInv /\ WorkInv /\ OwnedInv
    BY <1>1 DEF RowsInHand
  <2>3. \A c \in Closers : CloserFinishes(c) => j # Current(c)
    BY <1>1, <2>2, CurrentClaimed DEF CloserFinishes
  <2>4. status'[j] = status[j]
    BY <1>1, <2>1, <2>2, <2>3, StatusStep
  <2> QED BY <1>1, <2>1, <2>2, <2>4, ClaimsMove
<1>2. RowsInHand /\ [Next]_vars =>
          [\A j \in Jobs :
              status[j] \in Terminal /\ (\A c \in Closers : j \notin claimed[c]) =>
                  status'[j] = status[j] /\ (\A c \in Closers : j \notin claimed'[c])]_vars
  BY <1>1
<1> QED BY <1>2, HeldAlways, PTL DEF Spec

-----------------------------------------------------------------------------
(* A job's checks run once.                                                 *)
\* A run at its last steps settles its row, unless the sweeper has.
LEMMA RunSettles ==
    ASSUME "runCrash" \notin Faults, TypeInv, OwnedInv, [Next]_vars, NEW r \in OneShotRuns,
           runJob[r] # NoJob, runPc[r] \in LastSteps
    PROVE  \/ status'[runJob[r]] \in Terminal
           \/ runJob'[r] = runJob[r] /\ runPc'[r] \in LastSteps
<1>0. /\ runPc \in [Runs -> RunPcs] /\ runJob \in [Runs -> Jobs \cup {NoJob}] /\ status \in [Jobs -> Statuses]
      /\ OneShotRuns \subseteq Runs /\ r \in Runs /\ runJob[r] \in Jobs
  BY RunsAssumption DEF TypeInv, JobsOK, RunsInv, RunsOK, OneShotRuns, Runs
<1>1. status[runJob[r]] \in {"running", "failed"}
  BY <1>0 DEF OwnedInv, OneShotOwned
<1>2. CASE CompleteJob(r) \/ FailJob(r)
  BY <1>0, <1>1, <1>2 DEF CompleteJob, FailJob, SetStatus, Terminal
<1>3. ASSUME NEW s \in Runs, RunNext(s)
      PROVE  \/ CompleteJob(r) \/ FailJob(r)
             \/ runJob'[r] = runJob[r] /\ runPc'[r] \in LastSteps
  <2>1. CASE s = r
    BY <2>1, <1>3, <1>0
       DEF RunNext, StartRun, BeginSource, EndSource, StorePost, StartRefresh, EnsureJob, ReadInline, ScoreInline,
           ScoredInline, FailInline, ReserveRetry, EnqueueIngest, EnqueueFails, Unreserve, EndRun, CountPosts, LookAtJob,
           CheckJob, RunThrows, LeaveCycle, CrashRun, RunGoes, RunStops, Spend, LastSteps
  <2>2. CASE s # r
    BY <2>2, <1>3, <1>0
       DEF RunNext, StartRun, BeginSource, EndSource, StorePost, StartRefresh, EnsureJob, ReadInline, ScoreInline,
           ScoredInline, FailInline, ReserveRetry, EnqueueIngest, EnqueueFails, Unreserve, EndRun, CountPosts, LookAtJob,
           CheckJob, CompleteJob, RunThrows, FailJob, LeaveCycle, CrashRun, RunGoes, RunStops, runVars
  <2> QED BY <2>1, <2>2
<1>4. ASSUME NEW p \in Posts, TaskNext(p) PROVE UNCHANGED <<runPc, runJob>>
  BY <1>4 DEF TaskNext, TakeTask, ReleaseClosed, ChooseCycle, ReadForScore, ScoreStage, Scored, TextRemoved, FailOwn,
           FailTarget, ReleaseSlot, LeaveTarget, EmbedIfGated, EmbedFails, ReleaseFailed, CrashWorker,
           SweepUnscored, RemoveText, runVars
<1>5. OtherStep => UNCHANGED <<runPc, runJob>>
  BY OtherFrame
<1> QED BY <1>2, <1>3, <1>4, <1>5 DEF Next, OtherStep

\* A row that is being finished goes on to be: its run settles it, unless the
\* sweeper has, or the closer that claimed it finishes it.
LEMMA FinalizedStays ==
    ASSUME "runCrash" \notin Faults, "closerCrash" \notin Faults, Exclusive,
           HandsInv, HandsInv', [Next]_vars, NEW j \in Jobs, Finalized(j)
    PROVE  Finalized(j)'
<1>0. /\ TypeInv /\ OwnedInv /\ ClosingInv
      /\ runPc \in [Runs -> RunPcs] /\ runJob \in [Runs -> Jobs \cup {NoJob}] /\ status \in [Jobs -> Statuses]
      /\ claimed \in [Closers -> SUBSET Jobs] /\ closerPc \in [Closers -> CloserPcs]
      /\ NoJob # j /\ OneShotRuns \subseteq Runs
  BY RunsAssumption
     DEF HandsInv, TypeInv, JobsOK, RunsInv, RunsOK, ClosersInv, ClosersOK, OneShotRuns, Runs, NoJob, Jobs
<1>1. CASE status[j] \in Terminal
  BY <1>1, ClosingStep DEF HandsInv, Finalized
<1>2. ASSUME NEW r \in OneShotRuns, runJob[r] = j, runPc[r] \in LastSteps PROVE Finalized(j)'
  BY <1>0, <1>2, RunSettles DEF Finalized
<1>3. ASSUME NEW c \in Closers, j \in claimed[c], j = Current(c), closerPc[c] \in LastSteps PROVE Finalized(j)'
  <2>1. CASE CloserFinishes(c)
    <3>1. status'[j] \in Terminal
      BY <2>1, <1>0, <1>3 DEF CloserFinishes, SetStatus, Terminal
    <3> QED BY <3>1 DEF Finalized
  <2>2. CASE claimed'[c] = claimed[c] /\ closerPc'[c] = closerPc[c]
    BY <2>2, <1>3 DEF Finalized, Current
  <2>3. ASSUME NEW d \in Closers, CloserNext(d)
        PROVE  CloserFinishes(c) \/ (claimed'[c] = claimed[c] /\ closerPc'[c] = closerPc[c])
    <3>1. CASE d = c
      BY <3>1, <2>3, <1>0, <1>3
         DEF CloserNext, ClaimDueCycles, CloserCounts, CloserChecks, CloserCheckFails, CrashCloser, Spend, LastSteps
    <3>2. CASE d # c
      BY <3>2, <2>3, <1>0
         DEF CloserNext, ClaimDueCycles, CloserCounts, CloserChecks, CloserCheckFails, CloserFinishes, CrashCloser,
             CloserGoes
    <3> QED BY <3>1, <3>2
  <2> QED BY <2>1, <2>2, <2>3, ForcedClaims
<1> QED BY <1>1, <1>2, <1>3 DEF Finalized


\* The runs of one-shot jobs take and leave their job: a run keeps the job it
\* is at until it stops, and starts on one whose checks are still to run.
LEMMA RunTakesOpen ==
    ASSUME TypeInv, WorkInv, OwnedInv, [Next]_vars, NEW r \in OneShotRuns,
           runJob'[r] # NoJob, runPc'[r] \notin LastSteps
    PROVE  \/ runJob'[r] = runJob[r] /\ runPc[r] \notin LastSteps
           \/ /\ runJob'[r] \in Jobs /\ ~Finalized(runJob'[r]) /\ status[runJob'[r]] # "closing"
              /\ UNCHANGED <<checked, checks>>
<1>0. /\ runPc \in [Runs -> RunPcs] /\ runJob \in [Runs -> Jobs \cup {NoJob}]
      /\ RowsInv /\ RunInv(r) /\ rows \in Nat /\ r \in Runs /\ r \notin CycleRuns
      /\ OneShotRuns \subseteq Runs /\ claimed \in [Closers -> SUBSET Jobs]
  BY RunsAssumption DEF TypeInv, JobsOK, RunsInv, RunsOK, ClosersInv, ClosersOK, WorkInv, OneShotRuns, Runs
<1>00. runPc[r] # "leaving"
  BY <1>0 DEF RunInv
<1>1. ASSUME NEW j \in Jobs, StartRefresh(r, j), runJob'[r] # runJob[r]
      PROVE  runJob'[r] = j /\ ~Finalized(j) /\ status[j] # "closing" /\ UNCHANGED <<checked, checks>>
  <2>1. runJob'[r] = j /\ status[j] = "running" /\ j \in refreshQ /\ UNCHANGED <<checked, checks>>
    BY <1>1, <1>0 DEF StartRefresh, jobVars
  <2>2. OneShotOwned(j)
    BY <2>1 DEF OneShotOwned
  <2>3. /\ \A c \in Closers : j \notin claimed[c]
        /\ \A s \in OneShotRuns : runJob[s] # j
    BY <2>1, <2>2 DEF OwnedInv
  <2> QED BY <2>1, <2>3 DEF Finalized, Terminal
<1>2. ASSUME NEW j \in Jobs, EnsureJob(r, j)
      PROVE  runJob'[r] = j /\ ~Finalized(j) /\ status[j] # "closing" /\ UNCHANGED <<checked, checks>>
  <2>1. runJob'[r] = j /\ j = rows + 1 /\ UNCHANGED <<checked, checks>>
    BY <1>2, <1>0 DEF EnsureJob
  <2>2. status[j] = "none"
    BY <2>1, <1>0 DEF RowsInv, Numbered
  <2>3. \A x \in Jobs \cup {NoJob} : x <= rows => x # j
    BY <2>1, <1>0, JobsAssumption DEF Jobs, NoJob
  <2>4. /\ \A c \in Closers : j \notin claimed[c]
        /\ \A s \in OneShotRuns : runJob[s] # j
    BY <2>3, <1>0 DEF RowsInv
  <2> QED BY <2>1, <2>2, <2>4 DEF Finalized, Terminal
<1>3. ASSUME RunNext(r), \A j \in Jobs : ~StartRefresh(r, j) /\ ~EnsureJob(r, j)
      PROVE  runJob'[r] = runJob[r] /\ runPc[r] \notin LastSteps
  <2>1. ~RunStops(r)
    BY <1>0 DEF RunStops
  <2>2. CASE EndRun(r) \/ RunThrows(r)
    BY <2>1, <2>2, <1>0, <1>00 DEF EndRun, RunThrows, RunGoes, LastSteps
  <2>3. ~CompleteJob(r) /\ ~FailJob(r) /\ ~CrashRun(r) /\ ~LeaveCycle(r)
    BY <2>1 DEF CompleteJob, FailJob, CrashRun, LeaveCycle
  <2>4. CASE \/ StartRun(r) \/ BeginSource(r) \/ EndSource(r) \/ (\E p \in Posts : StorePost(r, p))
             \/ (\E s \in Stages : ReadInline(r, s) \/ ScoreInline(r, s)) \/ ScoredInline(r) \/ FailInline(r)
    BY <2>1, <2>4, <1>0 DEF StartRun, BeginSource, EndSource, StorePost, ReadInline, ScoreInline, ScoredInline, FailInline,
                      runVars, LastSteps
  <2>5. CASE \/ ReserveRetry(r) \/ EnqueueIngest(r) \/ EnqueueFails(r) \/ Unreserve(r) \/ CountPosts(r) \/ LookAtJob(r)
             \/ CheckJob(r)
    BY <2>1, <2>5, <1>0 DEF ReserveRetry, EnqueueIngest, EnqueueFails, Unreserve, CountPosts, LookAtJob, CheckJob, LastSteps
  <2> QED BY <1>3, <2>2, <2>3, <2>4, <2>5 DEF RunNext
<1>4. ASSUME NEW j \in Jobs, StartRefresh(r, j), runJob'[r] = runJob[r]
      PROVE  runPc[r] \notin LastSteps
  BY <1>4 DEF StartRefresh, LastSteps
<1>5. RunNext(r) \/ (runJob'[r] = runJob[r] /\ runPc'[r] = runPc[r])
  <2>1. ASSUME NEW s \in Runs \ {r}, RunNext(s) PROVE runJob'[r] = runJob[r] /\ runPc'[r] = runPc[r]
    BY <2>1, <1>0
       DEF RunNext, StartRun, BeginSource, EndSource, StorePost, StartRefresh, EnsureJob, ReadInline, ScoreInline,
           ScoredInline, FailInline, ReserveRetry, EnqueueIngest, EnqueueFails, Unreserve, EndRun, CountPosts, LookAtJob,
           CheckJob, CompleteJob, RunThrows, FailJob, LeaveCycle, CrashRun, RunGoes, RunStops, runVars
  <2>2. ASSUME NEW p \in Posts, TaskNext(p) PROVE UNCHANGED <<runPc, runJob>>
    BY <2>2 DEF TaskNext, TakeTask, ReleaseClosed, ChooseCycle, ReadForScore, ScoreStage, Scored, TextRemoved, FailOwn,
             FailTarget, ReleaseSlot, LeaveTarget, EmbedIfGated, EmbedFails, ReleaseFailed, CrashWorker,
             SweepUnscored, RemoveText, runVars
  <2>3. OtherStep => UNCHANGED <<runPc, runJob>>
    BY OtherFrame
  <2> QED BY <2>1, <2>2, <2>3 DEF Next, OtherStep
<1> QED BY <1>1, <1>2, <1>3, <1>4, <1>5

\* Every step keeps the count of checks, unless their runner can die.
LEMMA OnceStep ==
    ASSUME "runCrash" \notin Faults, "closerCrash" \notin Faults, Exclusive,
           HandsInv, HandsInv', OnceInv, [Next]_vars
    PROVE  OnceInv'
<1>0. /\ TypeInv /\ WorkInv /\ OwnedInv /\ ClosingInv
      /\ checks \in [Jobs -> 0 .. 2] /\ NoJob \notin Jobs
      /\ runPc \in [Runs -> RunPcs] /\ runJob \in [Runs -> Jobs \cup {NoJob}]
      /\ closerPc \in [Closers -> CloserPcs]
      /\ \A r \in Runs : RunInv(r)
      /\ OneShotRuns \subseteq Runs
      /\ \A r \in Runs : r \notin CycleRuns => r \in OneShotRuns
  BY RunsAssumption
     DEF HandsInv, WorkInv, TypeInv, JobsOK, RunsInv, RunsOK, ClosersInv, ClosersOK, OneShotRuns, Runs, NoJob, Jobs
<1>1. \A j \in Jobs : Finalized(j) => Finalized(j)'
  BY FinalizedStays
\* Whoever runs the checks is the first to, and is at its last steps then.
<1>2. ASSUME NEW r \in Runs, CheckJob(r)
      PROVE  /\ r \in OneShotRuns /\ checks[runJob[r]] = 0 /\ runJob'[r] = runJob[r] /\ runPc'[r] \in LastSteps
             /\ Finalized(runJob[r])'
  <2>1. r \in OneShotRuns
    BY <1>0, <1>2 DEF CheckJob, RunInv
  <2>2. runJob[r] # NoJob
    BY <1>0, <1>2 DEF CheckJob, TypeInv, RunsInv, RunReady
  <2>3. checks[runJob[r]] = 0
    BY <1>2, <2>1, <2>2 DEF OnceInv, CheckJob, LastSteps
  <2>4. runJob'[r] = runJob[r] /\ runPc'[r] \in LastSteps
    BY <1>0, <1>2 DEF CheckJob, RunGoes, LastSteps
  <2> QED BY <2>1, <2>3, <2>4 DEF Finalized
<1>3. ASSUME NEW c \in Closers, CloserChecks(c)
      PROVE  /\ Current(c) \in claimed[c] /\ checks[Current(c)] = 0 /\ Finalized(Current(c))'
             /\ UNCHANGED <<runPc, runJob>>
  <2>1. Current(c) \in claimed[c] /\ Current(c) \in Jobs
    BY <1>0, <1>3, CurrentClaimed DEF CloserChecks
  <2>2. status[Current(c)] = "closing" /\ ~OneShotOwned(Current(c))
    BY <1>0, <2>1 DEF ClosingInv, OwnedInv
  <2>3. ~Finalized(Current(c))
    <3>1. ASSUME NEW d \in Closers, Current(c) \in claimed[d] PROVE closerPc[d] \notin LastSteps
      BY <3>1, <2>1, <1>3 DEF Exclusive, CloserChecks, LastSteps
    <3> QED BY <2>2, <3>1 DEF Finalized, Terminal, OneShotOwned
  <2>4. checks[Current(c)] = 0
    BY <2>1, <2>3 DEF OnceInv
  <2>5. claimed' = claimed /\ closerPc'[c] = "completing" /\ UNCHANGED <<runPc, runJob>>
    BY <1>0, <1>3 DEF CloserChecks, CloserGoes, runVars
  <2>6. PICK k \in Jobs : k = Current(c)
    BY <2>1
  <2>7. Current(c)' = k
    BY <2>5, <2>6 DEF Current
  <2>8. k \in claimed'[c] /\ closerPc'[c] \in LastSteps
    BY <2>1, <2>5, <2>6 DEF LastSteps
  <2>9. Finalized(k)'
    BY <2>7, <2>8 DEF Finalized
  <2> QED BY <2>1, <2>4, <2>5, <2>6, <2>7, <2>9
<1>4. ASSUME NEW j \in Jobs PROVE checks'[j] <= 1 /\ (checks'[j] # 0 => Finalized(j)')
  <2>1. CASE UNCHANGED checks
    BY <2>1, <1>1 DEF OnceInv
  <2>2. ASSUME NEW i \in Jobs, Checks(i), checks[i] = 0, Finalized(i)'
        PROVE  checks'[j] <= 1 /\ (checks'[j] # 0 => Finalized(j)')
    <3>1. checks'[j] = IF j = i THEN 1 ELSE checks[j]
      BY <2>2, <1>0 DEF Checks, RunBiasChecks
    <3> QED BY <3>1, <2>2, <1>1 DEF OnceInv
  <2>3. ASSUME NEW r \in Runs, CheckJob(r), runJob[r] \in Jobs, Checks(runJob[r])
        PROVE  checks'[j] <= 1 /\ (checks'[j] # 0 => Finalized(j)')
    <3>1. PICK i \in Jobs : i = runJob[r]
      BY <2>3
    <3>2. runJob'[r] = i /\ runPc'[r] \in LastSteps /\ r \in OneShotRuns /\ checks[i] = 0
      BY <2>3, <3>1, <1>2
    <3>3. Finalized(i)'
      BY <3>2 DEF Finalized
    <3> QED BY <2>2, <2>3, <3>1, <3>2, <3>3
  <2>4. ASSUME NEW c \in Closers, CloserChecks(c), Current(c) \in Jobs, Checks(Current(c))
        PROVE  checks'[j] <= 1 /\ (checks'[j] # 0 => Finalized(j)')
    <3>1. PICK i \in Jobs : i = Current(c)
      BY <2>4
    <3>2. i = Current(c)' /\ checks[i] = 0
      <4>1. claimed' = claimed
        BY <2>4 DEF CloserChecks
      <4> QED BY <4>1, <3>1, <2>4, <1>3 DEF Current
    <3>3. Finalized(i)'
      BY <2>4, <3>2, <1>3
    <3> QED BY <2>2, <2>4, <3>1, <3>2, <3>3
  <2> QED BY <1>0, <2>1, <2>3, <2>4, CheckStep
<1>5. ASSUME NEW r \in OneShotRuns, runJob'[r] # NoJob, runPc'[r] \notin LastSteps PROVE checks'[runJob'[r]] = 0
  <2>1. CASE runJob'[r] = runJob[r] /\ runPc[r] \notin LastSteps
    <3>0. PICK j \in Jobs : j = runJob[r]
      BY <2>1, <1>5, <1>0
    <3>1. checks[j] = 0 /\ OneShotOwned(j)
      BY <3>0, <2>1, <1>5, <1>0 DEF OnceInv, OneShotOwned
    <3>2. ASSUME NEW i \in Jobs, Checks(i), i # j PROVE checks'[j] = checks[j]
      BY <3>2, <1>0 DEF Checks, RunBiasChecks
    <3>3. ASSUME NEW s \in Runs, CheckJob(s), runJob[s] = j PROVE FALSE
      BY <3>0, <3>3, <1>0, <1>2, <1>5 DEF OwnedInv
    <3>4. ASSUME NEW c \in Closers, CloserChecks(c), Current(c) = j PROVE FALSE
      BY <3>1, <3>4, <1>0, <1>3 DEF OwnedInv
    <3>5. checks'[j] = checks[j]
      BY <1>0, <3>2, <3>3, <3>4, CheckStep
    <3> QED BY <2>1, <3>0, <3>1, <3>5
  <2>2. CASE runJob'[r] \in Jobs /\ ~Finalized(runJob'[r]) /\ UNCHANGED <<checked, checks>>
    BY <2>2 DEF OnceInv
  <2> QED BY <1>0, <1>5, <2>1, <2>2, RunTakesOpen
<1> QED BY <1>4, <1>5 DEF OnceInv

\* The bias checks of a job run once, whoever runs them - the run of a one-shot
\* job or one of the closers - with every failure the code handles, the
\* stragglers of failed attempts included, as long as no process dies between
\* writing the checks and settling the row, and no two closers hold one row.
THEOREM ChecksRunOnce ==
    ASSUME "runCrash" \notin Faults, "closerCrash" \notin Faults
    PROVE  Spec /\ []Exclusive => []ChecksOnce
<1>1. Init => HandsInv /\ OnceInv
  <2> SUFFICES ASSUME Init PROVE OnceInv
    BY HandsInit
  <2>1. (\A j \in Jobs : checks[j] = 0) /\ (\A r \in OneShotRuns : runJob[r] = NoJob)
    BY DEF Init, OneShotRuns, Runs
  <2> QED BY <2>1 DEF OnceInv
<1>2. HandsInv /\ OnceInv /\ Exclusive /\ [Next]_vars => (HandsInv /\ OnceInv)'
  BY HandsStep, OnceStep
<1>3. OnceInv => ChecksOnce
  BY DEF OnceInv, ChecksOnce
<1> QED BY <1>1, <1>2, <1>3, PTL DEF Spec

\* The three promises of a job together - no leaked slot, checks once, checks
\* of every post - for any number of workers, closers, requests, posts, rows
\* and handled failures, as long as no two closers hold one row.
THEOREM OneShotIsSafe ==
    ASSUME "embed" \notin Faults, "workerCrash" \notin Faults, "straggle" \notin Faults,
           "runCrash" \notin Faults, "closerCrash" \notin Faults
    PROVE  Spec /\ []Exclusive => []OneShotSafe
<1>1. SlotsInv => NoSlotLeaks
  BY HoldersCount DEF SlotsInv, Balanced, NoSlotLeaks
<1>2. SampleInv => ChecksSeeEveryPost
  BY DEF SampleInv, CheckedInv, ChecksSeeEveryPost
<1>3. SlotsInv /\ SampleInv /\ ChecksOnce => OneShotSafe
  BY <1>1, <1>2 DEF OneShotSafe
<1> QED BY <1>3, SampleAlways, ChecksRunOnce, PTL

-----------------------------------------------------------------------------
(* Which checks may run twice, with any number of closers, every fault and
   crash.                                                                   *)
(* A row whose checks may be repeated: an overdue cycle, or the job of a run,
   once runs may die with their checks written and the row still running.   *)
Repeatable(j) == Overdue(j) \/ (trigger[j] # "cron" /\ "runCrash" \in Faults)

ChecksRepeatOnlyIfRepeatable == \A j \in Jobs : checks[j] <= 1 \/ Repeatable(j)

(* A row that nobody will check again before it is overdue: it is being
   finished, or the closer that held it is gone.                            *)
Spent(j) == Finalized(j) \/ (status[j] = "closing" /\ \A c \in Closers : j \notin claimed[c])

SpentInv ==
    /\ \A j \in Jobs : ~Repeatable(j) => checks[j] <= 1 /\ (checks[j] # 0 => Spent(j))
    /\ \A r \in OneShotRuns, j \in Jobs : runJob[r] = j /\ runPc[r] \notin LastSteps /\ ~Repeatable(j) =>
          checks[j] = 0
    /\ \A j \in Jobs : status[j] = "none" => checks[j] = 0

\* A row that has become repeatable remains so.
LEMMA RepeatableStays ==
    ASSUME TypeInv, [Next]_vars, NEW j \in Jobs, j <= rows, ~Repeatable(j)'
    PROVE  ~Repeatable(j)
BY OverdueStays, NeverReopens DEF Repeatable, OpenKept

\* A row without a closer stays without one, and one in its last steps is
\* settled or left behind.
LEMMA SpentStays ==
    ASSUME RowsInHand, RowsInHand', HeldInv, [Next]_vars, NEW j \in Jobs, j <= rows, Spent(j),
           ~Repeatable(j), ~Repeatable(j)'
    PROVE  Spent(j)'
<1>0. /\ TypeInv /\ WorkInv /\ OwnedInv
      /\ runPc \in [Runs -> RunPcs] /\ runJob \in [Runs -> Jobs \cup {NoJob}] /\ status \in [Jobs -> Statuses]
      /\ claimed \in [Closers -> SUBSET Jobs] /\ closerPc \in [Closers -> CloserPcs] /\ age \in [Jobs -> Ages]
      /\ NoJob # j /\ OneShotRuns \subseteq Runs /\ ~Overdue(j)
  BY RunsAssumption
     DEF RowsInHand, TypeInv, JobsOK, RunsInv, RunsOK, ClosersInv, ClosersOK, OneShotRuns, Runs, NoJob, Jobs,
         Repeatable
<1>1. CASE status[j] \in Terminal
  BY <1>0, <1>1, HeldStep DEF Spent, Finalized
<1>2. CASE status[j] = "closing" /\ \A c \in Closers : j \notin claimed[c]
  <2>1. j \notin DueJobs
    BY <1>0, <1>2 DEF DueJobs, Due, Overdue, Ages, DeadCloserAge
  <2>2. \A c \in Closers : j \notin claimed'[c]
    BY <1>2, <2>1, <1>0, ClaimsMove
  <2>3. \A c \in Closers : CloserFinishes(c) => j # Current(c)
    BY <1>0, <1>2, CurrentClaimed DEF CloserFinishes
  <2>4. status'[j] = status[j]
    BY <1>0, <1>2, <2>1, <2>3, StatusStep
  <2> QED BY <1>2, <2>2, <2>4 DEF Spent
<1>3. ASSUME NEW r \in OneShotRuns, runJob[r] = j, runPc[r] \in LastSteps PROVE Spent(j)'
  <2>1. "runCrash" \notin Faults
    BY <1>0, <1>3 DEF OwnedInv, OneShotOwned, Repeatable
  <2> QED BY <2>1, <1>0, <1>3, RunSettles DEF Finalized, Spent
<1>4. ASSUME NEW c \in Closers, j \in claimed[c], j = Current(c), closerPc[c] \in LastSteps PROVE Spent(j)'
  <2>1. CASE CloserFinishes(c)
    <3>1. status'[j] \in Terminal
      BY <2>1, <1>0, <1>4 DEF CloserFinishes, SetStatus, Terminal
    <3> QED BY <3>1 DEF Finalized, Spent
  <2>2. CASE CrashCloser(c)
    <3>1. status[j] = "closing" /\ \A d \in Closers : d # c => j \notin claimed[d]
      BY <1>0, <1>4 DEF HeldInv, SharedAreOverdue
    <3>2. status'[j] = "closing" /\ \A d \in Closers : j \notin claimed'[d]
      BY <2>2, <3>1, <1>0 DEF CrashCloser, jobVars
    <3> QED BY <3>2 DEF Spent
  <2>3. CASE claimed'[c] = claimed[c] /\ closerPc'[c] = closerPc[c]
    BY <2>3, <1>4 DEF Finalized, Current, Spent
  <2>4. ASSUME NEW d \in Closers, CloserNext(d)
        PROVE  CloserFinishes(c) \/ CrashCloser(c) \/ (claimed'[c] = claimed[c] /\ closerPc'[c] = closerPc[c])
    <3>1. CASE d = c
      BY <3>1, <2>4, <1>0, <1>4
         DEF CloserNext, ClaimDueCycles, CloserCounts, CloserChecks, CloserCheckFails, LastSteps
    <3>2. CASE d # c
      BY <3>2, <2>4, <1>0
         DEF CloserNext, ClaimDueCycles, CloserCounts, CloserChecks, CloserCheckFails, CloserFinishes, CrashCloser,
             CloserGoes
    <3> QED BY <3>1, <3>2
  <2> QED BY <2>1, <2>2, <2>3, <2>4, ForcedClaims
<1> QED BY <1>1, <1>2, <1>3, <1>4 DEF Spent, Finalized

\* Every step keeps the count of the checks that may not be repeated.
LEMMA SpentStep ==
    ASSUME RowsInHand, RowsInHand', HeldInv, SpentInv, [Next]_vars
    PROVE  SpentInv'
<1>0. /\ TypeInv /\ WorkInv /\ OwnedInv /\ RowsInv
      /\ checks \in [Jobs -> 0 .. 2] /\ NoJob \notin Jobs
      /\ runPc \in [Runs -> RunPcs] /\ runJob \in [Runs -> Jobs \cup {NoJob}]
      /\ closerPc \in [Closers -> CloserPcs]
      /\ \A r \in Runs : RunInv(r)
      /\ OneShotRuns \subseteq Runs
      /\ \A r \in Runs : r \notin CycleRuns => r \in OneShotRuns
  BY RunsAssumption
     DEF RowsInHand, WorkInv, TypeInv, JobsOK, RunsInv, RunsOK, ClosersInv, ClosersOK, OneShotRuns, Runs, NoJob, Jobs
<1>1. ASSUME NEW j \in Jobs, ~Repeatable(j)', j <= rows, checks[j] # 0 PROVE checks[j] <= 1 /\ Spent(j)'
  BY <1>0, <1>1, RepeatableStays, SpentStays DEF SpentInv
\* Whoever runs the checks is the first to, and is at its last steps then.
<1>2. ASSUME NEW r \in Runs, CheckJob(r)
      PROVE  /\ r \in OneShotRuns /\ runJob[r] \in Jobs /\ runJob[r] <= rows
             /\ runJob'[r] = runJob[r] /\ runPc'[r] \in LastSteps
             /\ ~Repeatable(runJob[r]) => checks[runJob[r]] = 0
             /\ Spent(runJob[r])'
  <2>1. r \in OneShotRuns
    BY <1>0, <1>2 DEF CheckJob, RunInv
  <2>2. runJob[r] \in Jobs /\ runJob[r] # NoJob /\ runJob[r] <= rows
    BY <1>0, <1>2 DEF CheckJob, TypeInv, RunsInv, RunReady, RowsInv
  <2>3. ~Repeatable(runJob[r]) => checks[runJob[r]] = 0
    BY <1>2, <2>1, <2>2 DEF SpentInv, CheckJob, LastSteps
  <2>4. runJob'[r] = runJob[r] /\ runPc'[r] \in LastSteps
    BY <1>0, <1>2 DEF CheckJob, RunGoes, LastSteps
  <2> QED BY <2>1, <2>2, <2>3, <2>4 DEF Finalized, Spent
<1>3. ASSUME NEW c \in Closers, CloserChecks(c)
      PROVE  /\ Current(c) \in claimed[c] /\ Current(c) \in Jobs /\ Current(c) <= rows
             /\ ~Repeatable(Current(c)) => checks[Current(c)] = 0
             /\ Spent(Current(c))'
  <2>1. Current(c) \in claimed[c] /\ Current(c) \in Jobs /\ Current(c) <= rows
    BY <1>0, <1>3, CurrentClaimed DEF CloserChecks, RowsInv
  <2>2. ~OneShotOwned(Current(c))
    BY <1>0, <2>1 DEF OwnedInv
  <2>3. ASSUME ~Repeatable(Current(c)) PROVE checks[Current(c)] = 0
    <3>1. ~Overdue(Current(c)) /\ status[Current(c)] = "closing"
      BY <2>1, <2>3 DEF Repeatable, HeldInv
    <3>2. \A d \in Closers : Current(c) \in claimed[d] => d = c
      BY <2>1, <3>1 DEF HeldInv, SharedAreOverdue
    <3>3. closerPc[c] \notin LastSteps
      BY <1>3 DEF CloserChecks, LastSteps
    <3>4. ~Finalized(Current(c))
      BY <2>2, <3>1, <3>2, <3>3 DEF Finalized, Terminal, OneShotOwned
    <3> QED BY <2>1, <2>3, <3>4 DEF SpentInv, Spent
  <2>4. claimed' = claimed /\ closerPc'[c] = "completing"
    BY <1>0, <1>3 DEF CloserChecks, CloserGoes
  <2>5. PICK k \in Jobs : k = Current(c)
    BY <2>1
  <2>6. Current(c)' = k /\ k \in claimed'[c] /\ closerPc'[c] \in LastSteps
    BY <2>1, <2>4, <2>5 DEF Current, LastSteps
  <2>7. Spent(k)'
    BY <2>6 DEF Finalized, Spent
  <2> QED BY <2>1, <2>3, <2>5, <2>6, <2>7
<1>4. ASSUME NEW i \in Jobs, Checks(i), NEW j \in Jobs
      PROVE  checks'[j] = IF j # i THEN checks[j] ELSE IF checks[j] < 2 THEN checks[j] + 1 ELSE 2
  BY <1>0, <1>4 DEF Checks, RunBiasChecks
<1>5. ASSUME NEW j \in Jobs
      PROVE  \/ checks'[j] = checks[j]
             \/ j <= rows /\ Spent(j)' /\ (~Repeatable(j) => checks'[j] = 1)
  <2>1. ASSUME NEW r \in Runs, CheckJob(r), runJob[r] \in Jobs, Checks(runJob[r])
        PROVE  \/ checks'[j] = checks[j]
               \/ j <= rows /\ Spent(j)' /\ (~Repeatable(j) => checks'[j] = 1)
    <3>1. PICK i \in Jobs : i = runJob[r]
      BY <2>1
    <3>2. Spent(i)'
      <4>1. runJob'[r] = i /\ runPc'[r] \in LastSteps /\ r \in OneShotRuns
        BY <2>1, <3>1, <1>2
      <4> QED BY <4>1 DEF Spent, Finalized
    <3> QED BY <2>1, <3>1, <3>2, <1>2, <1>4
  <2>2. ASSUME NEW c \in Closers, CloserChecks(c), Current(c) \in Jobs, Checks(Current(c))
        PROVE  \/ checks'[j] = checks[j]
               \/ j <= rows /\ Spent(j)' /\ (~Repeatable(j) => checks'[j] = 1)
    <3>1. PICK i \in Jobs : i = Current(c)
      BY <2>2
    <3>2. i = Current(c)'
      <4>1. claimed' = claimed
        BY <2>2 DEF CloserChecks
      <4> QED BY <4>1, <3>1 DEF Current
    <3>3. Spent(i)'
      BY <2>2, <3>2, <1>3
    <3> QED BY <2>2, <3>1, <3>3, <1>3, <1>4
  <2> QED BY <2>1, <2>2, CheckStep, <1>0
<1>6. ASSUME NEW j \in Jobs, ~Repeatable(j)' PROVE checks'[j] <= 1 /\ (checks'[j] # 0 => Spent(j)')
  <2>1. CASE j <= rows
    <3>1. ~Repeatable(j)
      BY <1>0, <1>6, <2>1, RepeatableStays
    <3> QED BY <3>1, <2>1, <1>0, <1>1, <1>5, <1>6
  <2>2. CASE ~(j <= rows)
    <3>1. status[j] = "none"
      BY <2>2, <1>0 DEF TypeInv, JobsOK, Jobs, RowsInv, Numbered
    <3> QED BY <3>1, <2>2, <1>5 DEF SpentInv
  <2> QED BY <2>1, <2>2
<1>7. ASSUME NEW j \in Jobs, status'[j] = "none" PROVE checks'[j] = 0
  <2>1. ASSUME NEW c \in Closers PROVE ~(ClaimDueCycles(c) /\ j \in DueJobs) /\ ~(CloserFinishes(c) /\ j = Current(c))
    BY <1>0, <1>7 DEF ClaimDueCycles, CloserFinishes, SetStatus, TypeInv, JobsOK
  <2>2. status[j] = "none"
    BY <1>0, <1>7, <2>1, StatusStep
  <2>3. ~(j <= rows)
    BY <2>2, <1>0 DEF TypeInv, JobsOK, Jobs, RowsInv, Numbered
  <2> QED BY <2>2, <2>3, <1>5 DEF SpentInv
<1>8. ASSUME NEW r \in OneShotRuns, NEW j \in Jobs, runJob'[r] = j, runPc'[r] \notin LastSteps, ~Repeatable(j)'
      PROVE  checks'[j] = 0
  <2>1. CASE runJob'[r] = runJob[r] /\ runPc[r] \notin LastSteps
    <3>0. j = runJob[r]
      BY <2>1, <1>8
    <3>1. j <= rows /\ ~Repeatable(j)
      BY <3>0, <2>1, <1>0, <1>8, RepeatableStays DEF RowsInv
    <3>2. checks[j] = 0 /\ OneShotOwned(j)
      BY <3>0, <3>1, <2>1, <1>8, <1>0 DEF SpentInv, OneShotOwned
    <3>3. ASSUME NEW s \in Runs, CheckJob(s), runJob[s] = j PROVE FALSE
      BY <3>0, <3>3, <2>1, <1>0, <1>2, <1>8 DEF OwnedInv
    <3>4. ASSUME NEW c \in Closers, CloserChecks(c), Current(c) = j PROVE FALSE
      BY <3>2, <3>4, <1>0, <1>3 DEF OwnedInv
    <3>5. checks'[j] = checks[j]
      BY <1>0, <1>4, <3>3, <3>4, CheckStep
    <3> QED BY <3>2, <3>5
  <2>2. CASE /\ runJob'[r] \in Jobs /\ ~Finalized(runJob'[r]) /\ status[runJob'[r]] # "closing"
             /\ UNCHANGED <<checked, checks>>
    <3>1. ~Spent(j) /\ checks'[j] = checks[j]
      BY <1>8, <2>2 DEF Spent
    <3>2. CASE j <= rows
      <4>1. ~Repeatable(j)
        BY <1>0, <3>2, <1>8, RepeatableStays
      <4> QED BY <3>1, <4>1 DEF SpentInv
    <3>3. CASE ~(j <= rows)
      <4>1. status[j] = "none"
        BY <3>3, <1>0 DEF TypeInv, JobsOK, Jobs, RowsInv, Numbered
      <4> QED BY <4>1, <3>1 DEF SpentInv
    <3> QED BY <3>2, <3>3
  <2>3. runJob'[r] # NoJob
    BY <1>0, <1>8
  <2> QED BY <1>0, <1>8, <2>1, <2>2, <2>3, RunTakesOpen
<1> QED BY <1>6, <1>7, <1>8 DEF SpentInv

\* Whatever fails and whoever dies, and with any number of closers, the checks
\* of a job run twice only if it is a cycle that was not finished by twice the
\* hard cap, or the job of a run that may have died: a row's closer dying alone
\* never repeats them before (their assessment rows and alerts would be doubled).
THEOREM ChecksRepeatOnlyLate == Spec => []ChecksRepeatOnlyIfRepeatable
<1>1. Init => SpentInv
  <2>1. Init => (\A j \in Jobs : checks[j] = 0) /\ (\A r \in OneShotRuns : runJob[r] = NoJob)
    BY DEF Init, OneShotRuns, Runs
  <2> QED BY <2>1 DEF SpentInv
<1>2. SpentInv /\ RowsInHand /\ HeldInv /\ (RowsInHand /\ HeldInv)' /\ [Next]_vars => SpentInv'
  BY SpentStep
<1>3. SpentInv => ChecksRepeatOnlyIfRepeatable
  BY DEF SpentInv, ChecksRepeatOnlyIfRepeatable
<1> QED BY <1>1, <1>2, <1>3, HeldAlways, PTL DEF Spec

-----------------------------------------------------------------------------
(* The life of a job, as JobLife promises it.                               *)
\* A row that was not inserted yet is inserted running, and untouched otherwise.
LEMMA NewRowRuns ==
    ASSUME TypeInv, RowsInv, [Next]_vars, NEW j \in Jobs, status[j] = "none"
    PROVE  status'[j] \in {"none", "running"}
<1>0. /\ status \in [Jobs -> Statuses] /\ j > rows /\ rows \in Nat
      /\ \A r \in Runs : runJob[r] \in Jobs \cup {NoJob} /\ runJob[r] # j
      /\ \A q \in Requests : reqJob[q] # j
      /\ \A c \in Closers : closerPc[c] # "idle" => Current(c) # j
  <2>1. \A i \in Jobs \cup {NoJob} : i <= rows => i # j
    BY JobsAssumption DEF TypeInv, JobsOK, RowsInv, Numbered, Jobs, NoJob
  <2>2. ASSUME NEW c \in Closers, closerPc[c] # "idle" PROVE Current(c) # j
    <3>1. Current(c) \in claimed[c] /\ Current(c) \in Jobs
      BY <2>2, CurrentClaimed
    <3> QED BY <3>1, <2>1 DEF RowsInv
  <2>3. /\ \A r \in Runs : runJob[r] \in Jobs \cup {NoJob} /\ runJob[r] <= rows
        /\ \A q \in Requests : reqJob[q] \in Jobs \cup {NoJob} /\ reqJob[q] <= rows
    BY DEF TypeInv, RunsInv, RunsOK, RequestsInv, RequestsOK, RowsInv
  <2>4. status \in [Jobs -> Statuses] /\ j > rows /\ rows \in Nat
    BY DEF TypeInv, JobsOK, RowsInv, Numbered
  <2> QED BY <2>1, <2>2, <2>3, <2>4
<1>1. ASSUME NEW t, NEW n, InsertJob(t, n) PROVE status'[j] \in {"none", "running"}
  BY <1>0, <1>1 DEF InsertJob
<1>2. ASSUME NEW ts, FailStale(ts) PROVE status'[j] = "none"
  BY <1>2 DEF FailStale, StaleJobs
<1>3. ASSUME NEW r \in Runs, RunNext(r) PROVE status'[j] \in {"none", "running"}
  <2>1. CASE EndRun(r) \/ CompleteJob(r) \/ FailJob(r)
    BY <2>1, <1>0 DEF EndRun, CompleteJob, FailJob, SetStatus
  <2>2. CASE \E i \in Jobs : EnsureJob(r, i)
    BY <2>2, <1>1 DEF EnsureJob, CurrentCycleJob, InsertOneShot
  <2>3. EndRun(r) \/ CompleteJob(r) \/ FailJob(r) \/ (\E i \in Jobs : EnsureJob(r, i)) \/ UNCHANGED status
    BY <1>3
       DEF RunNext, StartRun, BeginSource, EndSource, StorePost, StartRefresh, ReadInline, ScoreInline,
           ScoredInline, FailInline, ReserveRetry, EnqueueIngest, EnqueueFails, Unreserve, CountPosts, LookAtJob,
           CheckJob, RunThrows, LeaveCycle, CrashRun, jobVars
  <2> QED BY <2>1, <2>2, <2>3
<1>4. ASSUME NEW p \in Posts, TaskNext(p) PROVE status'[j] \in {"none", "running"}
  <2>1. UNCHANGED status \/ \E t, n : InsertJob(t, n)
    BY <1>4 DEF TaskNext, TakeTask, ReleaseClosed, ChooseCycle, RetryJobFor, CurrentCycleJob, ReadForScore, ScoreStage, Scored,
             TextRemoved, FailOwn, FailTarget, ReleaseSlot, LeaveTarget, EmbedIfGated, EmbedFails, ReleaseFailed,
             CrashWorker, SweepUnscored, RemoveText, jobVars
  <2> QED BY <2>1, <1>1
<1>5. ASSUME NEW c \in Closers, CloserNext(c) PROVE status'[j] = "none"
  <2>1. CASE CloserFinishes(c)
    <3>1. Current(c) # j
      BY <2>1, <1>0 DEF CloserFinishes
    <3> QED BY <2>1, <3>1, <1>0 DEF CloserFinishes, SetStatus
  <2>2. CASE ClaimDueCycles(c)
    BY <2>2 DEF ClaimDueCycles, DueJobs, Due
  <2>3. CloserFinishes(c) \/ ClaimDueCycles(c) \/ UNCHANGED status
    BY <1>5 DEF CloserNext, CloserCounts, CloserChecks, CloserCheckFails, CrashCloser, jobVars
  <2> QED BY <2>1, <2>2, <2>3
<1>6. ASSUME NEW q \in Requests, RequestNext(q) PROVE status'[j] \in {"none", "running"}
  <2>1. CASE FailRefresh(q)
    BY <2>1, <1>0 DEF FailRefresh, SetStatus
  <2>2. FailRefresh(q) \/ UNCHANGED status \/ (\E ts : FailStale(ts)) \/ (\E t, n : InsertJob(t, n))
    BY <1>6 DEF RequestNext, PostRefresh, CheckRefresh, InsertRefresh, EnqueueRefresh, EnqueueRefreshFails, jobVars
  <2> QED BY <2>1, <2>2, <1>1, <1>2
<1>7. CASE SweepStaleJobs
  BY <1>2, <1>7 DEF SweepStaleJobs
<1> QED BY <1>3, <1>4, <1>5, <1>6, <1>7
        DEF Next, LateSave, Tick, GoQuiet, MinutePasses, vars, jobVars

\* What JobLife sees of job j.
LifeOf(j) == IF status[j] \in Open THEN "open" ELSE status[j]

Unmoved(j) == UNCHANGED <<LifeOf(j), forced[j], Sample(j), checked[j]>>

\* The invariants of the refinement.
LifeInv == TypeInv /\ SlotsInv /\ SampleInv /\ ClosingInv

\* A decision reaches the sample of a job that is open, has failed, or was
\* closed by the hard cap.
LEMMA DecisionsAllowed ==
    ASSUME LifeInv, Decides, NEW j \in Jobs
    PROVE  Unmoved(j) \/ Life!Decides(j)
<1>0. status \in [Jobs -> Statuses] /\ forced \in [Jobs -> BOOLEAN]
  BY DEF LifeInv, TypeInv, JobsOK
<1>1. PICK p \in Posts, s \in Stages, i \in Jobs :
          /\ SaveStage(p, s, i) /\ ~Closed(i) /\ status[i] # "none"
          /\ UNCHANGED <<status, forced, checked>>
  BY DEF Decides
<1>2. CASE j # i
  <2>1. Sample(j)' = Sample(j)
    BY <1>1, <1>2 DEF SaveStage, Sample
  <2> QED BY <1>1, <2>1 DEF Unmoved, LifeOf
<1>3. CASE j = i
  <2>1. Sample(j) \subseteq Sample(j)'
    BY <1>1 DEF SaveStage, Sample
  <2>2. LifeOf(j) \in {"open", "failed"} \/ (LifeOf(j) # "none" /\ forced[j])
    BY <1>0, <1>1, <1>3 DEF Closed, Sealed, LifeOf, Statuses, Open
  <2> QED BY <1>1, <2>1, <2>2 DEF Life!Decides, LifeOf
<1> QED BY <1>2, <1>3

\* The checks read the sample of a job that is not completed.
LEMMA ChecksAllowed ==
    ASSUME LifeInv, NEW i \in Jobs, Checks(i), NEW j \in Jobs,
           \/ \E r \in Runs : CheckJob(r) /\ runJob[r] = i
           \/ \E c \in Closers : CloserChecks(c) /\ Current(c) = i
    PROVE  Unmoved(j) \/ Life!Checks(j)
<1>0. /\ checked \in [Jobs -> SUBSET Posts] /\ UNCHANGED <<status, forced>>
      /\ Sample(j)' = Sample(j)
      /\ checked'[j] = IF j = i THEN checked[j] \cup Sample(j) ELSE checked[j]
  <2>1. UNCHANGED <<status, forced>>
    BY DEF CheckJob, CloserChecks
  <2>2. Sample(j)' = Sample(j)
    BY DEF Checks, Sample
  <2>3. checked \in [Jobs -> SUBSET Posts]
    BY DEF LifeInv, TypeInv, JobsOK
  <2>4. checked' = [checked EXCEPT ![i] = @ \cup Sample(i)]
    BY DEF Checks, RunBiasChecks
  <2> QED BY <2>1, <2>2, <2>3, <2>4
<1>1. status[i] \in {"running", "failed", "closing"}
  <2>1. ASSUME NEW r \in Runs, CheckJob(r), runJob[r] = i PROVE status[i] \in {"running", "failed"}
    <3>1. r \in OneShotRuns
      BY <2>1 DEF CheckJob, LifeInv, SlotsInv, RunInv, OneShotRuns, Runs
    <3> QED BY <2>1, <3>1 DEF LifeInv, SampleInv, OwnedInv, OneShotOwned
  <2>2. ASSUME NEW c \in Closers, CloserChecks(c), Current(c) = i PROVE status[i] = "closing"
    <3>1. Current(c) \in claimed[c]
      BY <2>2, CurrentClaimed DEF CloserChecks, LifeInv
    <3> QED BY <2>2, <3>1 DEF LifeInv, ClosingInv
  <2> QED BY <2>1, <2>2
<1>2. CASE j # i
  BY <1>0, <1>2 DEF Unmoved, LifeOf
<1>3. CASE j = i
  <2>1. LifeOf(j) \in {"open", "closing", "failed"}
    BY <1>1, <1>3 DEF LifeOf, Open
  <2> QED BY <1>0, <1>3, <2>1 DEF Life!Checks, LifeOf
<1> QED BY <1>2, <1>3

\* A claim takes due jobs, which are open or those of a dead closer.
LEMMA ClaimsAllowed ==
    ASSUME LifeInv, NEW c \in Closers, ClaimDueCycles(c), NEW j \in Jobs
    PROVE  Unmoved(j) \/ Life!Claims(j)
<1>0. /\ status'[j] = IF j \in DueJobs THEN "closing" ELSE status[j]
      /\ forced'[j] = (forced[j] \/ (j \in DueJobs /\ inflight[j] > 0 /\ age[j] >= CapAge))
      /\ forced[j] \in BOOLEAN
      /\ Sample(j)' = Sample(j) /\ checked'[j] = checked[j]
  BY DEF ClaimDueCycles, LifeInv, TypeInv, JobsOK, Sample, postVars, scoreVars
<1>1. CASE j \in DueJobs
  <2>1. LifeOf(j) \in {"open", "closing"} /\ LifeOf(j)' = "closing"
    BY <1>0, <1>1 DEF DueJobs, Due, LifeOf, Open
  <2> QED BY <1>0, <2>1 DEF Life!Claims, LifeOf
<1>2. CASE j \notin DueJobs
  BY <1>0, <1>2 DEF Unmoved, LifeOf
<1> QED BY <1>1, <1>2

\* A job is opened, completed once its checks have read the sample, or failed.
LEMMA SettlingAllowed ==
    ASSUME LifeInv, LifeInv', [Next]_vars, UNCHANGED <<audit, checked, forced>>, NEW j \in Jobs,
           \A c \in Closers : ~ClaimDueCycles(c)
    PROVE  Unmoved(j) \/ Life!Opens(j) \/ Life!Completes(j) \/ Life!Fails(j)
<1>0. /\ status[j] \in Statuses /\ status'[j] \in Statuses
      /\ Sample(j)' = Sample(j) /\ checked'[j] = checked[j] /\ forced'[j] = forced[j]
      /\ forced[j] \in BOOLEAN
  BY DEF LifeInv, TypeInv, JobsOK, Sample
<1>1. CASE status'[j] = status[j]
  BY <1>0, <1>1 DEF Unmoved, LifeOf
<1>2. CASE status[j] = "none"
  <2>1. status'[j] \in {"none", "running"}
    BY <1>2, NewRowRuns DEF LifeInv, SlotsInv
  <2>2. status'[j] = "running" => LifeOf(j) = "none" /\ LifeOf(j)' = "open"
    BY <1>2 DEF LifeOf, Open
  <2> QED BY <1>0, <1>1, <1>2, <2>1, <2>2 DEF Life!Opens, LifeOf
<1>3. CASE status[j] # "none" /\ status'[j] # status[j]
  <2>1. /\ status[j] \in {"running", "closing"}
        /\ status'[j] \in {"awaiting_retries", "completed", "failed"}
        /\ status[j] = "closing" => status'[j] # "awaiting_retries"
    <3>1. ASSUME NEW c \in Closers, CloserFinishes(c), j = Current(c)
          PROVE  status[j] = "closing" /\ status'[j] \in {"completed", "failed"}
      <4>1. j \in claimed[c]
        BY <3>1, CurrentClaimed DEF CloserFinishes, LifeInv
      <4> QED BY <3>1, <4>1 DEF LifeInv, ClosingInv, TypeInv, JobsOK, CloserFinishes, SetStatus
    <3>2. WorkInv /\ OwnedInv /\ TypeInv
      BY DEF LifeInv, SlotsInv, SampleInv, WorkInv
    <3> QED BY <1>3, <3>1, <3>2, StatusStep
  <2>2. CASE status'[j] = "awaiting_retries"
    BY <1>0, <2>1, <2>2 DEF Unmoved, LifeOf, Open
  <2>3. CASE status'[j] = "completed"
    <3>1. forced[j] \/ checked[j] = Sample(j)
      BY <1>0, <2>3 DEF LifeInv, SampleInv, CheckedInv
    <3>2. LifeOf(j) \in {"open", "closing"} /\ LifeOf(j)' = "completed"
      BY <2>1, <2>3 DEF LifeOf, Open
    <3> QED BY <1>0, <3>1, <3>2 DEF Life!Completes, LifeOf
  <2>4. CASE status'[j] = "failed"
    <3>1. LifeOf(j) \in {"open", "closing"} /\ LifeOf(j)' = "failed"
      BY <2>1, <2>4 DEF LifeOf, Open
    <3> QED BY <1>0, <3>1 DEF Life!Fails, LifeOf
  <2> QED BY <2>1, <2>2, <2>3, <2>4
<1> QED BY <1>1, <1>2, <1>3

\* So every step is one of JobLife's, for each job.
LEMMA LifeMoves ==
    ASSUME LifeInv, LifeInv', [Next]_vars, NEW j \in Jobs
    PROVE  \/ Unmoved(j) \/ Life!Opens(j) \/ Life!Decides(j) \/ Life!Claims(j)
           \/ Life!Checks(j) \/ Life!Completes(j) \/ Life!Fails(j)
<1>1. CASE Decides
  BY <1>1, DecisionsAllowed
<1>2. ASSUME NEW i \in Jobs, Checks(i),
             \/ \E r \in Runs : CheckJob(r) /\ runJob[r] = i
             \/ \E c \in Closers : CloserChecks(c) /\ Current(c) = i
      PROVE  Unmoved(j) \/ Life!Checks(j)
  BY <1>2, ChecksAllowed
<1>3. CASE \E c \in Closers : ClaimDueCycles(c)
  BY <1>3, ClaimsAllowed
<1>4. CASE UNCHANGED <<audit, checked>> /\ \A c \in Closers : ~ClaimDueCycles(c)
  <2>1. \A c \in Closers : CloserNext(c) => UNCHANGED forced
    BY <1>4 DEF CloserNext, CloserCounts, CloserChecks, CloserCheckFails, CloserFinishes, CrashCloser, jobVars
  <2>2. UNCHANGED forced
    BY <2>1, ForcedClaims
  <2> QED BY <1>4, <2>2, SettlingAllowed
<1>5. Decides \/ UNCHANGED <<results, audit>>
  BY AuditStep DEF LifeInv, SampleInv
<1>6. \/ UNCHANGED <<checked, checks>>
      \/ \E r \in Runs : CheckJob(r) /\ runJob[r] \in Jobs /\ Checks(runJob[r])
      \/ \E c \in Closers : CloserChecks(c) /\ Current(c) \in Jobs /\ Checks(Current(c))
  BY CheckStep DEF LifeInv
<1> QED BY <1>1, <1>2, <1>3, <1>4, <1>5, <1>6

\* The row of a job keeps the promise of JobLife for any number of runs, posts,
\* requests, rows and closers, whatever fails and whoever dies, without the
\* faults that let a post be decided behind a closing job's back and as long as
\* no two closers hold one row:
\* whoever claims, checks, settles or sweeps the row, it is opened once, is
\* settled once, and is completed only with every post of its sample read.
THEOREM JobsLiveAsPromised ==
    ASSUME "embed" \notin Faults, "workerCrash" \notin Faults, "straggle" \notin Faults
    PROVE  Spec /\ []Exclusive => JobLifeKept
<1>1. Init => Life!Init
  BY DEF Init, Life!Init, Sample, Open
<1>2. LifeInv /\ LifeInv' /\ [Next]_vars =>
          [Life!Next]_<<[j \in Jobs |-> IF status[j] \in Open THEN "open" ELSE status[j]], forced,
                        [j \in Jobs |-> Sample(j)], checked>>
  <2> SUFFICES ASSUME LifeInv, LifeInv', [Next]_vars PROVE Life!Next
    OBVIOUS
  <2>1. /\ status' \in [Jobs -> Statuses] /\ forced' \in [Jobs -> BOOLEAN]
        /\ checked' \in [Jobs -> SUBSET Posts] /\ \A j \in Jobs : Sample(j)' \subseteq Posts
    BY DEF LifeInv, TypeInv, JobsOK, Sample
  <2>2. \A j \in Jobs : LifeOf(j)' \in Life!Lives
    BY <2>1 DEF LifeOf, Life!Lives, Statuses, Open
  <2>3. \A j \in Jobs : Unmoved(j) => Life!Stays(j)
    BY DEF Unmoved, LifeOf, Life!Stays
  <2> QED BY <2>1, <2>2, <2>3, LifeMoves DEF Life!Next, LifeOf
<1>3. Init => LifeInv
  BY TypeInvInit, SlotsInit, SampleInit, HandsInit DEF LifeInv, HandsInv
<1>4. LifeInv /\ Exclusive /\ [Next]_vars => LifeInv'
  <2> SUFFICES ASSUME LifeInv, Exclusive, [Next]_vars PROVE LifeInv'
    OBVIOUS
  <2>1. TypeInv' /\ SlotsInv' /\ SampleInv'
    BY TypeInvStep, SlotsStep, SampleStep DEF LifeInv
  <2>2. ClosingInv'
    BY ClosingStep DEF LifeInv, SlotsInv, SampleInv, WorkInv
  <2> QED BY <2>1, <2>2 DEF LifeInv
<1> QED BY <1>1, <1>2, <1>3, <1>4, PTL DEF Spec, JobLifeKept, Life!Spec
=============================================================================
