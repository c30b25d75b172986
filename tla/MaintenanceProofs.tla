------------------------ MODULE MaintenanceProofs -------------------------
(***************************************************************************)
(* Proofs about what keeps the collection going in the background.         *)
(*                                                                         *)
(* RedditJobs, for any number of processes and posts, any cap and any      *)
(* lease: its types, the room left to the collection runs, one runner of a *)
(* job while nobody outlives a lease, and what a re-check that is marked   *)
(* complete has blanked.                                                   *)
(*                                                                         *)
(* Scheduling, for any number of overlapping passes, any routes, any       *)
(* environments and any number of switches and failures: one undisturbed   *)
(* pass settles the source, and does not repeat its last gate event.       *)
(*                                                                         *)
(* Maintenance, for any number of jobs, rows and checks, any batch size    *)
(* and any faults: the rows of source_runs are conserved over rollups that *)
(* cross, and a success is recorded only of a job that did its work.       *)
(***************************************************************************)
EXTENDS RedditJobs, Scheduling, Maintenance, FiniteSetTheorems, WellFoundedInduction, TLAPS

-----------------------------------------------------------------------------
(* RedditJobs.                                                              *)

LEMMA RedditTypesInit == RedditInit => RedditTypeOK
<1>1. ASSUME RedditInit PROVE RedditTypeOK
  <2>1. /\ 1 \in 1 .. LastUnit /\ 1 \in 0 .. LastUnit /\ 0 \in 0 .. LastUnit /\ 0 \in 0 .. BudgetCap
        /\ 0 \in 0 .. LastUnit + 1 /\ 0 \in 0 .. RjMaxCrashes /\ "recheck" \in Jobs
    BY RedditAssumption DEF Jobs
  <2>2. budget \in [start : 0 .. LastUnit, used : 0 .. BudgetCap, blocked : 0 .. LastUnit + 1]
    BY <1>1, <2>1 DEF RedditInit, Unset
  <2>3. jobs \in [Jobs -> [started : 0 .. LastUnit, completed : 0 .. LastUnit]]
    BY <1>1, <2>1 DEF RedditInit, Unset
  <2> QED BY <1>1, <2>1, <2>2, <2>3 DEF RedditInit, RedditTypeOK
<1> QED BY <1>1

\* A granted request keeps the budget within its type.
LEMMA GrantTyped ==
    ASSUME RedditTypeOK, NEW reserve \in Nat, Grantable(reserve)
    PROVE  /\ Granted \in [start : 0 .. LastUnit, used : 0 .. BudgetCap, blocked : 0 .. LastUnit + 1]
           /\ Granted.used + reserve <= BudgetCap /\ Granted.used = UsedNow + 1
           /\ UsedNow \in 0 .. BudgetCap
<1>1. budget.start \in 0 .. LastUnit /\ budget.used \in 0 .. BudgetCap /\ unit \in 1 .. LastUnit
  BY DEF RedditTypeOK
<1>2. UsedNow \in 0 .. BudgetCap /\ UsedNow + 1 <= BudgetCap /\ UsedNow + 1 + reserve <= BudgetCap
  BY <1>1, RedditAssumption DEF UsedNow, Grantable
<1>3. (IF Rolled THEN unit ELSE budget.start) \in 0 .. LastUnit BY <1>1
<1>4. /\ Granted \in [start : 0 .. LastUnit, used : 0 .. BudgetCap, blocked : 0 .. LastUnit + 1]
      /\ Granted.used = UsedNow + 1
  <2>1. UsedNow + 1 \in 0 .. BudgetCap BY <1>2, RedditAssumption
  <2> QED BY <1>3, <2>1 DEF Granted, RedditTypeOK
<1> QED BY <1>2, <1>4

\* A process that leaves its job has forgotten it.
LEMMA LeavesTyped ==
    ASSUME RedditTypeOK, NEW p \in RjProcs, NEW where \in {"idle", "claim"}, NEW next \in Jobs,
           Leaves(p, where, next)
    PROVE  /\ rjAt' \in [RjProcs -> {"idle", "claim", "ask", "wait", "blank", "finish"}]
           /\ job' \in [RjProcs -> Jobs] /\ asking' \in [RjProcs -> SUBSET RjPosts]
           /\ toBlank' \in [RjProcs -> SUBSET RjPosts] /\ complete' \in [RjProcs -> BOOLEAN]
           /\ claimedAt' \in [RjProcs -> 0 .. LastUnit] /\ goneBefore' \in [RjProcs -> SUBSET RjPosts]
<1>1. /\ rjAt' = [rjAt EXCEPT ![p] = where] /\ job' = [job EXCEPT ![p] = next]
      /\ asking' = [asking EXCEPT ![p] = {}] /\ toBlank' = [toBlank EXCEPT ![p] = {}]
      /\ complete' = [complete EXCEPT ![p] = TRUE] /\ claimedAt' = [claimedAt EXCEPT ![p] = 0]
      /\ goneBefore' = [goneBefore EXCEPT ![p] = {}]
  BY DEF Leaves, RjGoes
<1> QED BY <1>1, RedditAssumption DEF RedditTypeOK

LEMMA RedditTypesStep == RedditTypeOK /\ [RedditNext]_RedditVars => RedditTypeOK'
<1> SUFFICES ASSUME RedditTypeOK, [RedditNext]_RedditVars PROVE RedditTypeOK'
    OBVIOUS
<1>0. unit \in 1 .. LastUnit /\ background \in Nat /\ LastUnit \in Nat
  BY RedditAssumption DEF RedditTypeOK
<1>1. CASE CollectorTakes
  <2>1. Grantable(0) /\ budget' = Granted /\ background' = BackgroundNow BY <1>1 DEF CollectorTakes
  <2>2. budget' \in [start : 0 .. LastUnit, used : 0 .. BudgetCap, blocked : 0 .. LastUnit + 1]
    BY <2>1, GrantTyped
  <2>3. background' \in Nat BY <1>0, <2>1 DEF BackgroundNow
  <2> QED BY <1>1, <2>2, <2>3 DEF CollectorTakes, RedditTypeOK, rjRun
<1>2. CASE UpstreamSpent
  <2>1. budget' = [budget EXCEPT !.blocked = unit + 1] BY <1>2 DEF UpstreamSpent
  <2>2. budget' \in [start : 0 .. LastUnit, used : 0 .. BudgetCap, blocked : 0 .. LastUnit + 1]
    BY <1>0, <2>1 DEF RedditTypeOK
  <2> QED BY <1>2, <2>2 DEF UpstreamSpent, RedditTypeOK, rjRun
<1>3. CASE UnitPasses BY <1>0, <1>3 DEF UnitPasses, RedditTypeOK, rjRun
<1>4. ASSUME NEW post \in RjPosts, DeletedUpstream(post) PROVE RedditTypeOK'
  BY <1>4 DEF DeletedUpstream, RedditTypeOK, rjRun
<1>5. ASSUME NEW p \in RjProcs, StartTick(p) PROVE RedditTypeOK'
  BY <1>5 DEF StartTick, RjGoes, RedditTypeOK, Jobs
<1>6. ASSUME NEW p \in RjProcs, ClaimJob(p) PROVE RedditTypeOK'
  <2>1. jobs' \in [Jobs -> [started : 0 .. LastUnit, completed : 0 .. LastUnit]]
    BY <1>0, <1>6 DEF ClaimJob, RedditTypeOK
  <2>2. /\ asking' \in [RjProcs -> SUBSET RjPosts] /\ toBlank' \in [RjProcs -> SUBSET RjPosts]
        /\ goneBefore' \in [RjProcs -> SUBSET RjPosts]
    BY <1>6 DEF ClaimJob, RedditTypeOK
  <2>3. /\ complete' \in [RjProcs -> BOOLEAN] /\ claimedAt' \in [RjProcs -> 0 .. LastUnit]
        /\ rjAt' \in [RjProcs -> {"idle", "claim", "ask", "wait", "blank", "finish"}]
    BY <1>0, <1>6 DEF ClaimJob, RedditTypeOK, RjGoes
  <2>4. UNCHANGED <<unit, budget, texts, deletedThere, job, rjCrashes, overran, background>>
    BY <1>6 DEF ClaimJob
  <2> QED BY <2>1, <2>2, <2>3, <2>4 DEF RedditTypeOK
<1>7. ASSUME NEW p \in RjProcs, NotClaimed(p) PROVE RedditTypeOK'
  BY <1>7, LeavesTyped DEF NotClaimed, NextJob, RedditTypeOK, Jobs
<1>8. ASSUME NEW p \in RjProcs, JobTakes(p) PROVE RedditTypeOK'
  <2>1. Grantable(Reserve) /\ budget' = Granted /\ background' = BackgroundNow + 1 BY <1>8 DEF JobTakes
  <2>2. budget' \in [start : 0 .. LastUnit, used : 0 .. BudgetCap, blocked : 0 .. LastUnit + 1]
    BY <2>1, GrantTyped, RedditAssumption
  <2>3. background' \in Nat BY <1>0, <2>1 DEF BackgroundNow
  <2> QED BY <1>8, <2>2, <2>3 DEF JobTakes, RjGoes, RedditTypeOK, rjRun
<1>9. ASSUME NEW p \in RjProcs, BudgetExhausted(p) \/ JobLimited(p) PROVE RedditTypeOK'
  BY <1>9 DEF BudgetExhausted, JobLimited, RjGoes, RedditTypeOK
<1>10. ASSUME NEW p \in RjProcs, NEW post \in RjPosts, InfoAnswered(p, post) PROVE RedditTypeOK'
  BY <1>10 DEF InfoAnswered, RjGoes, RedditTypeOK
<1>11. ASSUME NEW p \in RjProcs, NEW post \in RjPosts, BatchFailed(p, post) PROVE RedditTypeOK'
  BY <1>11 DEF BatchFailed, RjGoes, RedditTypeOK
<1>12. ASSUME NEW p \in RjProcs, JobRefused(p) PROVE RedditTypeOK'
  <2>1. jobs' \in [Jobs -> [started : 0 .. LastUnit, completed : 0 .. LastUnit]] /\ overran' \in BOOLEAN
    BY <1>0, <1>12 DEF JobRefused, RedditTypeOK, Unset
  <2> QED BY <1>12, <2>1, LeavesTyped DEF JobRefused, RedditTypeOK, Jobs
<1>13. ASSUME NEW p \in RjProcs, Discovered(p) \/ SearchOn(p) \/ NothingToAsk(p) PROVE RedditTypeOK'
  BY <1>13 DEF Discovered, SearchOn, NothingToAsk, RjGoes, RedditTypeOK, rjRun
<1>14. ASSUME NEW p \in RjProcs, BlankPosts(p) PROVE RedditTypeOK'
  BY <1>14 DEF BlankPosts, RjGoes, RedditTypeOK, rjRun
<1>15. ASSUME NEW p \in RjProcs, FinishJob(p) PROVE RedditTypeOK'
  <2>1. jobs' \in [Jobs -> [started : 0 .. LastUnit, completed : 0 .. LastUnit]] /\ overran' \in BOOLEAN
    BY <1>0, <1>15 DEF FinishJob, RedditTypeOK, Unset
  <2> QED BY <1>15, <2>1, LeavesTyped DEF FinishJob, NextJob, RedditTypeOK, Jobs
<1>16. ASSUME NEW p \in RjProcs, RjCrash(p) PROVE RedditTypeOK'
  <2>1. rjCrashes' \in 0 .. RjMaxCrashes BY <1>16, RedditAssumption DEF RjCrash, RedditTypeOK
  <2> QED BY <1>16, <2>1, LeavesTyped DEF RjCrash, RedditTypeOK, Jobs
<1>17. CASE UNCHANGED RedditVars BY <1>17 DEF RedditVars, rjRun, RedditTypeOK
<1> QED
  BY <1>1, <1>2, <1>3, <1>4, <1>5, <1>6, <1>7, <1>8, <1>9, <1>10, <1>11, <1>12, <1>13, <1>14, <1>15,
     <1>16, <1>17 DEF RedditNext

\* The budget, the claims and the runs keep their types.
THEOREM RedditTyped == RedditSpec => []RedditTypeOK
BY RedditTypesInit, RedditTypesStep, PTL DEF RedditSpec

---------------------------------------------------------------------------
(* The room left to the collection runs.                                   *)

\* The background jobs' grants are among those of the window.
RoomInv == RedditTypeOK /\ RoomForCollection /\ background <= budget.used

LEMMA RoomInvInit == RedditInit => RoomInv
BY RedditTypesInit DEF RoomInv, RedditInit, RoomForCollection, RedditTypeOK

LEMMA RoomInvStep == RoomInv /\ [RedditNext]_RedditVars => RoomInv'
<1> SUFFICES ASSUME RoomInv, [RedditNext]_RedditVars PROVE RoomInv'
    OBVIOUS
<1>0. RedditTypeOK' BY RedditTypesStep DEF RoomInv
<1>t. /\ budget.used \in 0 .. BudgetCap /\ background \in Nat /\ background <= budget.used
      /\ background + Reserve <= BudgetCap \/ background = 0
      /\ BudgetCap \in Nat /\ Reserve \in Nat
  BY RedditAssumption DEF RoomInv, RedditTypeOK, RoomForCollection
<1>u. budget'.used <= BudgetCap BY <1>0, RedditAssumption DEF RedditTypeOK
<1>b. BackgroundNow \in Nat /\ BackgroundNow <= UsedNow /\ (BackgroundNow = 0 \/ BackgroundNow = background)
  BY <1>t DEF BackgroundNow, UsedNow
<1>1. CASE CollectorTakes
  <2>1. budget'.used = UsedNow + 1 /\ background' = BackgroundNow /\ UsedNow \in 0 .. BudgetCap
    BY <1>1, GrantTyped DEF CollectorTakes, RoomInv
  <2> QED BY <1>0, <1>t, <1>u, <1>b, <2>1 DEF RoomInv, RoomForCollection
<1>2. ASSUME NEW p \in RjProcs, JobTakes(p) PROVE RoomInv'
  <2>1. /\ budget'.used = UsedNow + 1 /\ background' = BackgroundNow + 1 /\ UsedNow \in 0 .. BudgetCap
        /\ budget'.used + Reserve <= BudgetCap
    BY <1>2, <1>t, GrantTyped DEF JobTakes, RoomInv
  <2>2. background' <= budget'.used BY <1>b, <2>1
  <2>3. background' + Reserve <= BudgetCap BY <1>t, <1>b, <2>1
  <2> QED BY <1>0, <1>u, <2>2, <2>3 DEF RoomInv, RoomForCollection
<1>3. ASSUME UNCHANGED background, budget'.used = budget.used PROVE RoomInv'
  BY <1>0, <1>3, <1>t, <1>u DEF RoomInv, RoomForCollection
<1>4. CASE UpstreamSpent
  <2>1. budget'.used = budget.used BY <1>4 DEF UpstreamSpent, RoomInv, RedditTypeOK
  <2> QED BY <1>3, <1>4, <2>1 DEF UpstreamSpent
<1>5. CASE UnitPasses \/ UNCHANGED RedditVars BY <1>3, <1>5 DEF UnitPasses, RedditVars
<1>6. ASSUME NEW post \in RjPosts, DeletedUpstream(post) PROVE RoomInv'
  BY <1>3, <1>6 DEF DeletedUpstream
<1>7. ASSUME NEW p \in RjProcs, StartTick(p) \/ ClaimJob(p) \/ NotClaimed(p) \/ BudgetExhausted(p)
        \/ JobLimited(p) \/ JobRefused(p) \/ Discovered(p) \/ SearchOn(p) \/ NothingToAsk(p)
        \/ BlankPosts(p) \/ FinishJob(p) \/ RjCrash(p)
      PROVE RoomInv'
  BY <1>3, <1>7 DEF StartTick, ClaimJob, NotClaimed, BudgetExhausted, JobLimited, JobRefused, Discovered,
     SearchOn, NothingToAsk, BlankPosts, FinishJob, RjCrash
<1>8. ASSUME NEW p \in RjProcs, NEW post \in RjPosts, InfoAnswered(p, post) \/ BatchFailed(p, post)
      PROVE RoomInv'
  BY <1>3, <1>8 DEF InfoAnswered, BatchFailed
<1> QED BY <1>1, <1>2, <1>4, <1>5, <1>6, <1>7, <1>8 DEF RedditNext

\* However many processes run the background jobs, they leave a collection run
\* its reserve, and nobody goes over the cap of a window.
THEOREM RoomAlwaysLeft == RedditSpec => []RoomForCollection
<1>1. RoomInv => RoomForCollection BY DEF RoomInv
<1> QED BY <1>1, RoomInvInit, RoomInvStep, PTL DEF RedditSpec

---------------------------------------------------------------------------
(* One runner of a job.                                                    *)

\* A process within its lease.
InLease(p) == Running(p) /\ unit < claimedAt[p] + LeaseUnits

\* Unless some run outlived its lease, who is within it holds the job's row,
\* which is not yet marked completed, and alone.
ClaimHeld ==
    ~overran => \A p \in RjProcs : InLease(p) =>
        /\ jobs[job[p]].started = claimedAt[p] /\ claimedAt[p] # Unset
        /\ jobs[job[p]].completed < claimedAt[p]

RunnerInv == RedditTypeOK /\ ClaimHeld /\ OneRunner

LEMMA RunnerInvInit == RedditInit => RunnerInv
BY RedditTypesInit DEF RunnerInv, RedditInit, ClaimHeld, InLease, Running, OneRunner

\* A step that changes no claim and lets nobody begin to run.
LEMMA RunnersStay ==
    ASSUME RunnerInv, RedditTypeOK', UNCHANGED jobs, overran => overran', unit <= unit',
           \A p \in RjProcs : Running(p)' => Running(p) /\ job'[p] = job[p] /\ claimedAt'[p] = claimedAt[p]
    PROVE  RunnerInv'
<1>1. \A p \in RjProcs : /\ claimedAt[p] \in Nat /\ claimedAt'[p] \in Nat
                         /\ InLease(p)' => InLease(p) /\ job'[p] = job[p] /\ claimedAt'[p] = claimedAt[p]
  BY RedditAssumption DEF RunnerInv, RedditTypeOK, InLease
<1>2. ClaimHeld' BY <1>1 DEF RunnerInv, ClaimHeld
<1>3. OneRunner'
  <2> SUFFICES ASSUME NEW p \in RjProcs, NEW q \in RjProcs, p # q, Running(p)', Running(q)',
                      job'[p] = job'[q], ~overran'
               PROVE  claimedAt'[p] + LeaseUnits <= unit' \/ claimedAt'[q] + LeaseUnits <= unit'
    BY DEF OneRunner
  <2>1. claimedAt[p] + LeaseUnits <= unit \/ claimedAt[q] + LeaseUnits <= unit
    BY DEF RunnerInv, OneRunner
  <2>2. unit \in Nat /\ unit' \in Nat /\ LeaseUnits \in Nat
    BY RedditAssumption DEF RunnerInv, RedditTypeOK
  <2> QED BY <1>1, <2>1, <2>2
<1> QED BY <1>2, <1>3 DEF RunnerInv

\* A process that releases or completes its job is alone with it, or its lease
\* is over.
LEMMA RunnerEnds ==
    ASSUME RunnerInv, RedditTypeOK', NEW p \in RjProcs, Running(p), ~Running(p)', UNCHANGED unit,
           \A j \in Jobs : j # job[p] => jobs'[j] = jobs[j],
           overran' = (overran \/ claimedAt[p] + LeaseUnits <= unit),
           \A q \in RjProcs : q # p => /\ Running(q)' <=> Running(q)
                                       /\ job'[q] = job[q] /\ claimedAt'[q] = claimedAt[q]
    PROVE  RunnerInv'
<1>1. ASSUME ~overran' PROVE ClaimHeld'
  <2>1. ~overran /\ ~(claimedAt[p] + LeaseUnits <= unit) BY <1>1
  <2> SUFFICES ASSUME NEW q \in RjProcs, InLease(q)'
               PROVE  /\ jobs'[job'[q]].started = claimedAt'[q] /\ claimedAt'[q] # Unset
                      /\ jobs'[job'[q]].completed < claimedAt'[q]
    BY DEF ClaimHeld
  <2>2. q # p /\ InLease(q) BY DEF InLease
  <2>3. claimedAt[q] \in Nat /\ unit \in Nat /\ LeaseUnits \in Nat
    BY RedditAssumption DEF RunnerInv, RedditTypeOK
  <2>4. job[q] # job[p]
    BY <2>1, <2>2, <2>3 DEF RunnerInv, OneRunner, InLease
  <2>5. jobs'[job[q]] = jobs[job[q]] BY <2>4 DEF RunnerInv, RedditTypeOK
  <2> QED BY <2>1, <2>2, <2>5 DEF RunnerInv, ClaimHeld
<1>2. OneRunner' BY DEF RunnerInv, OneRunner
<1>3. ClaimHeld' BY <1>1 DEF ClaimHeld
<1> QED BY <1>2, <1>3 DEF RunnerInv

\* A claim is taken only when nobody within the lease holds it.
LEMMA RunnerBegins ==
    ASSUME RunnerInv, RedditTypeOK', NEW p \in RjProcs, ClaimJob(p)
    PROVE  RunnerInv'
<1> DEFINE j == job[p]
<1>t. /\ unit \in 1 .. LastUnit /\ LeaseUnits \in Nat \ {0} /\ EveryUnits \in Nat \ {0} /\ LastUnit \in Nat
      /\ j \in Jobs /\ jobs[j].completed \in Nat /\ jobs[j].started \in Nat
      /\ \A q \in RjProcs : claimedAt[q] \in Nat
  BY RedditAssumption DEF RunnerInv, RedditTypeOK
<1>1. /\ jobs' = [jobs EXCEPT ![j].started = unit] /\ IsDue(j) /\ IsFree(j)
      /\ rjAt' = [rjAt EXCEPT ![p] = "ask"] /\ claimedAt' = [claimedAt EXCEPT ![p] = unit]
      /\ UNCHANGED <<unit, job, overran>>
  BY DEF ClaimJob, RjGoes
<1>2. /\ jobs'[j].started = unit /\ jobs'[j].completed = jobs[j].completed
      /\ \A k \in Jobs : k # j => jobs'[k] = jobs[k]
  BY <1>1, <1>t DEF RunnerInv, RedditTypeOK
<1>3. jobs[j].completed < unit BY <1>1, <1>t DEF IsDue, Unset
<1>4. \A q \in RjProcs : q # p => /\ Running(q)' <=> Running(q)
                                  /\ claimedAt'[q] = claimedAt[q] /\ (InLease(q)' <=> InLease(q))
  BY <1>1 DEF RunnerInv, RedditTypeOK, Running, InLease
<1>5. ASSUME ~overran, NEW q \in RjProcs, q # p, InLease(q) PROVE job[q] # j
  <2>1. SUFFICES ASSUME job[q] = j PROVE FALSE OBVIOUS
  <2>2. /\ jobs[j].started = claimedAt[q] /\ claimedAt[q] # Unset /\ jobs[j].completed < claimedAt[q]
        /\ unit < claimedAt[q] + LeaseUnits
    BY <1>5, <2>1 DEF RunnerInv, ClaimHeld, InLease
  <2> QED BY <1>1, <1>t, <2>2 DEF IsFree, Unset
<1>6. claimedAt'[p] = unit BY <1>1 DEF RunnerInv, RedditTypeOK
<1>7. ClaimHeld'
  <2> SUFFICES ASSUME ~overran, NEW q \in RjProcs, InLease(q)'
               PROVE  /\ jobs'[job[q]].started = claimedAt'[q] /\ claimedAt'[q] # Unset
                      /\ jobs'[job[q]].completed < claimedAt'[q]
    BY <1>1 DEF ClaimHeld
  <2>1. CASE q = p BY <1>2, <1>3, <1>6, <1>t, <2>1 DEF Unset
  <2>2. CASE q # p
    <3>1. InLease(q) /\ job[q] # j /\ claimedAt'[q] = claimedAt[q] BY <1>4, <1>5, <2>2
    <3>2. jobs'[job[q]] = jobs[job[q]] BY <1>2, <3>1 DEF RunnerInv, RedditTypeOK
    <3> QED BY <3>1, <3>2 DEF RunnerInv, ClaimHeld
  <2> QED BY <2>1, <2>2
<1>8. OneRunner'
  <2> SUFFICES ASSUME NEW q \in RjProcs, NEW r \in RjProcs, q # r, Running(q)', Running(r)',
                      job[q] = job[r], ~overran
               PROVE  claimedAt'[q] + LeaseUnits <= unit \/ claimedAt'[r] + LeaseUnits <= unit
    BY <1>1 DEF OneRunner
  <2>1. CASE q # p /\ r # p BY <1>4, <2>1 DEF RunnerInv, OneRunner
  <2>2. CASE q = p
    <3>1. Running(r) /\ ~InLease(r) /\ claimedAt'[r] = claimedAt[r] BY <1>4, <1>5, <2>2
    <3> QED BY <3>1, <1>t DEF InLease
  <2>3. CASE r = p
    <3>1. Running(q) /\ ~InLease(q) /\ claimedAt'[q] = claimedAt[q] BY <1>4, <1>5, <2>3
    <3> QED BY <3>1, <1>t DEF InLease
  <2> QED BY <2>1, <2>2, <2>3
<1> QED BY <1>7, <1>8 DEF RunnerInv

LEMMA RunnerInvStep == RunnerInv /\ [RedditNext]_RedditVars => RunnerInv'
<1> SUFFICES ASSUME RunnerInv, [RedditNext]_RedditVars PROVE RunnerInv'
    OBVIOUS
<1>0. RedditTypeOK' BY RedditTypesStep DEF RunnerInv
<1>t. RedditTypeOK /\ unit \in Nat BY DEF RunnerInv, RedditTypeOK
<1>1. CASE CollectorTakes \/ UpstreamSpent \/ UnitPasses \/ UNCHANGED RedditVars
  BY <1>0, <1>1, <1>t, RunnersStay
  DEF CollectorTakes, UpstreamSpent, UnitPasses, RedditVars, rjRun, Running
<1>2. ASSUME NEW post \in RjPosts, DeletedUpstream(post) PROVE RunnerInv'
  BY <1>0, <1>2, <1>t, RunnersStay DEF DeletedUpstream, rjRun, Running
<1>3. ASSUME NEW p \in RjProcs, ClaimJob(p) PROVE RunnerInv'
  BY <1>0, <1>3, RunnerBegins
<1>4. ASSUME NEW p \in RjProcs, StartTick(p) PROVE RunnerInv'
  BY <1>0, <1>4, <1>t, RunnersStay DEF StartTick, RjGoes, Running, RedditTypeOK
<1>5. ASSUME NEW p \in RjProcs, NotClaimed(p) \/ RjCrash(p) PROVE RunnerInv'
  <2>1. /\ UNCHANGED <<unit, jobs, overran>>
        /\ \E where \in {"idle", "claim"}, next \in Jobs : Leaves(p, where, next)
    BY <1>5 DEF NotClaimed, NextJob, RjCrash, Jobs
  <2>2. \A q \in RjProcs : Running(q)' => Running(q) /\ job'[q] = job[q] /\ claimedAt'[q] = claimedAt[q]
    BY <2>1, <1>t DEF Leaves, RjGoes, Running, RedditTypeOK
  <2> QED BY <1>0, <1>t, <2>1, <2>2, RunnersStay
<1>6. ASSUME NEW p \in RjProcs, JobTakes(p) \/ BudgetExhausted(p) \/ JobLimited(p) \/ Discovered(p)
               \/ SearchOn(p) \/ NothingToAsk(p) \/ BlankPosts(p)
      PROVE RunnerInv'
  <2>1. UNCHANGED <<unit, jobs, overran, job, claimedAt>> /\ Running(p)
    BY <1>6 DEF JobTakes, BudgetExhausted, JobLimited, Discovered, SearchOn, NothingToAsk, BlankPosts,
       rjRun, Running
  <2>2. \A q \in RjProcs : Running(q)' => Running(q)
    BY <1>6, <1>t, <2>1 DEF JobTakes, BudgetExhausted, JobLimited, Discovered, SearchOn, NothingToAsk,
       BlankPosts, RjGoes, Running, RedditTypeOK
  <2> QED BY <1>0, <1>t, <2>1, <2>2, RunnersStay
<1>7. ASSUME NEW p \in RjProcs, NEW post \in RjPosts, InfoAnswered(p, post) \/ BatchFailed(p, post)
      PROVE RunnerInv'
  <2>1. UNCHANGED <<unit, jobs, overran, job, claimedAt>> /\ Running(p)
    BY <1>7 DEF InfoAnswered, BatchFailed, Running
  <2>2. \A q \in RjProcs : Running(q)' => Running(q)
    BY <1>7, <1>t, <2>1 DEF InfoAnswered, BatchFailed, RjGoes, Running, RedditTypeOK
  <2> QED BY <1>0, <1>t, <2>1, <2>2, RunnersStay
<1>8. ASSUME NEW p \in RjProcs, JobRefused(p) \/ FinishJob(p) PROVE RunnerInv'
  <2>1. /\ UNCHANGED unit /\ Running(p) /\ overran' = (overran \/ claimedAt[p] + LeaseUnits <= unit)
        /\ \E where \in {"idle", "claim"}, next \in Jobs : Leaves(p, where, next)
    BY <1>8 DEF JobRefused, FinishJob, NextJob, Running, Jobs
  <2>2. \A j \in Jobs : j # job[p] => jobs'[j] = jobs[j]
    BY <1>8, <1>t DEF JobRefused, FinishJob, RedditTypeOK
  <2>3. /\ ~Running(p)'
        /\ \A q \in RjProcs : q # p => /\ Running(q)' <=> Running(q)
                                       /\ job'[q] = job[q] /\ claimedAt'[q] = claimedAt[q]
    BY <2>1, <1>t DEF Leaves, RjGoes, Running, RedditTypeOK
  <2> QED BY <1>0, <2>1, <2>2, <2>3, RunnerEnds
<1> QED BY <1>1, <1>2, <1>3, <1>4, <1>5, <1>6, <1>7, <1>8 DEF RedditNext

\* One process runs a job at a time, until some run outlives its lease.
THEOREM OneRunnerAlways == RedditSpec => []OneRunner
<1>1. RunnerInv => OneRunner BY DEF RunnerInv
<1> QED BY <1>1, RunnerInvInit, RunnerInvStep, PTL DEF RedditSpec

---------------------------------------------------------------------------
(* A re-check that is marked complete.                                     *)

\* What a process's re-check, while no batch of it failed, owes the posts that
\* were gone when it began: to ask, to blank, and at the end to have blanked.
Owes(p) ==
    /\ rjAt[p] \in {"ask", "wait"} => goneBefore[p] \cap texts \subseteq asking[p] \cup toBlank[p]
    /\ rjAt[p] = "blank" => goneBefore[p] \cap texts \subseteq toBlank[p]
    /\ rjAt[p] = "finish" => goneBefore[p] \cap texts = {}

ThoroughInv ==
    /\ RedditTypeOK
    /\ \A p \in RjProcs : goneBefore[p] \subseteq deletedThere
    /\ \A p \in RjProcs : job[p] = "recheck" /\ complete[p] => Owes(p)

LEMMA ThoroughInvInit == RedditInit => ThoroughInv
BY RedditTypesInit DEF ThoroughInv, RedditInit, Owes

\* Another process's step, which at most takes texts away and posts out of Reddit's answers.
LEMMA OwesStable ==
    ASSUME ThoroughInv, NEW q \in RjProcs, texts' \subseteq texts, deletedThere \subseteq deletedThere',
           rjAt'[q] = rjAt[q], job'[q] = job[q], asking'[q] = asking[q], toBlank'[q] = toBlank[q],
           complete'[q] = complete[q], goneBefore'[q] = goneBefore[q]
    PROVE  /\ goneBefore'[q] \subseteq deletedThere'
           /\ job'[q] = "recheck" /\ complete'[q] => Owes(q)'
BY DEF ThoroughInv, Owes

LEMMA ThoroughInvStep == ThoroughInv /\ [RedditNext]_RedditVars => ThoroughInv'
<1> SUFFICES ASSUME ThoroughInv, [RedditNext]_RedditVars PROVE ThoroughInv'
    OBVIOUS
<1>0. RedditTypeOK /\ RedditTypeOK' BY RedditTypesStep DEF ThoroughInv
<1> DEFINE Good(q) == /\ goneBefore'[q] \subseteq deletedThere'
                      /\ job'[q] = "recheck" /\ complete'[q] => Owes(q)'
           Same(q) == /\ rjAt'[q] = rjAt[q] /\ job'[q] = job[q] /\ asking'[q] = asking[q]
                      /\ toBlank'[q] = toBlank[q] /\ complete'[q] = complete[q]
                      /\ goneBefore'[q] = goneBefore[q]
<1>i. ASSUME \A q \in RjProcs : Good(q) PROVE ThoroughInv'
  BY <1>0, <1>i DEF ThoroughInv
<1>s. ASSUME texts' \subseteq texts, deletedThere \subseteq deletedThere', NEW q \in RjProcs, Same(q)
      PROVE Good(q)
  BY <1>s, OwesStable
<1>p. ASSUME texts' \subseteq texts, deletedThere \subseteq deletedThere', NEW p \in RjProcs, Good(p),
             \A q \in RjProcs \ {p} : Same(q)
      PROVE ThoroughInv'
  <2> HIDE DEF Good, Same
  <2>1. \A q \in RjProcs : Good(q) BY <1>s, <1>p
  <2> QED BY <2>1, <1>i
<1>1. CASE CollectorTakes \/ UpstreamSpent \/ UnitPasses \/ UNCHANGED RedditVars
  BY <1>1, <1>s, <1>i DEF CollectorTakes, UpstreamSpent, UnitPasses, RedditVars, rjRun
<1>2. ASSUME NEW post \in RjPosts, DeletedUpstream(post) PROVE ThoroughInv'
  BY <1>2, <1>s, <1>i DEF DeletedUpstream, rjRun
<1>l. ASSUME NEW p \in RjProcs, NEW where \in {"idle", "claim"}, NEW next \in Jobs, Leaves(p, where, next),
             UNCHANGED <<texts, deletedThere>>
      PROVE ThoroughInv'
  <2>1. Good(p) BY <1>0, <1>l DEF Leaves, RjGoes, RedditTypeOK, Owes
  <2>2. \A q \in RjProcs \ {p} : Same(q) BY <1>0, <1>l DEF Leaves, RjGoes, RedditTypeOK
  <2> QED BY <1>l, <1>p, <2>1, <2>2
<1>3. ASSUME NEW p \in RjProcs, NotClaimed(p) \/ JobRefused(p) \/ FinishJob(p) \/ RjCrash(p) PROVE ThoroughInv'
  <2>1. \E where \in {"idle", "claim"}, next \in Jobs : Leaves(p, where, next)
    BY <1>3 DEF NotClaimed, JobRefused, FinishJob, RjCrash, NextJob, Jobs
  <2>2. UNCHANGED <<texts, deletedThere>> BY <1>3 DEF NotClaimed, JobRefused, FinishJob, RjCrash
  <2> QED BY <2>1, <2>2, <1>l
<1>4. ASSUME NEW p \in RjProcs, StartTick(p) PROVE ThoroughInv'
  <2>1. Good(p) BY <1>0, <1>4 DEF StartTick, RjGoes, RedditTypeOK, Owes, ThoroughInv
  <2>2. \A q \in RjProcs \ {p} : Same(q) BY <1>0, <1>4 DEF StartTick, RjGoes, RedditTypeOK
  <2> QED BY <1>4, <1>p, <2>1, <2>2 DEF StartTick
<1>5. ASSUME NEW p \in RjProcs, ClaimJob(p) PROVE ThoroughInv'
  <2>1. Good(p) BY <1>0, <1>5 DEF ClaimJob, RjGoes, RedditTypeOK, Owes
  <2>2. \A q \in RjProcs \ {p} : Same(q) BY <1>0, <1>5 DEF ClaimJob, RjGoes, RedditTypeOK
  <2> QED BY <1>5, <1>p, <2>1, <2>2 DEF ClaimJob
<1>6. ASSUME NEW p \in RjProcs, JobTakes(p) \/ SearchOn(p) \/ Discovered(p) \/ NothingToAsk(p) PROVE ThoroughInv'
  <2>1. Good(p)
    BY <1>0, <1>6 DEF JobTakes, SearchOn, Discovered, NothingToAsk, RjGoes, RedditTypeOK, Owes, ThoroughInv, rjRun
  <2>2. \A q \in RjProcs \ {p} : Same(q)
    BY <1>0, <1>6 DEF JobTakes, SearchOn, Discovered, NothingToAsk, RjGoes, RedditTypeOK, rjRun
  <2> QED BY <1>6, <1>p, <2>1, <2>2 DEF JobTakes, SearchOn, Discovered, NothingToAsk
<1>7. ASSUME NEW p \in RjProcs, BudgetExhausted(p) \/ JobLimited(p) PROVE ThoroughInv'
  <2>1. Good(p)
    BY <1>0, <1>7 DEF BudgetExhausted, JobLimited, RjGoes, RedditTypeOK, ThoroughInv
  <2>2. \A q \in RjProcs \ {p} : Same(q)
    BY <1>0, <1>7 DEF BudgetExhausted, JobLimited, RjGoes, RedditTypeOK
  <2> QED BY <1>7, <1>p, <2>1, <2>2 DEF BudgetExhausted, JobLimited
<1>8. ASSUME NEW p \in RjProcs, NEW post \in RjPosts, InfoAnswered(p, post) PROVE ThoroughInv'
  <2>1. /\ asking'[p] = asking[p] \ {post} /\ complete'[p] = complete[p] /\ job'[p] = job[p]
        /\ toBlank'[p] = IF post \in deletedThere THEN toBlank[p] \cup {post} ELSE toBlank[p]
        /\ rjAt'[p] = IF asking[p] = {post} THEN "blank" ELSE "ask"
        /\ UNCHANGED <<texts, deletedThere, goneBefore>> /\ rjAt[p] = "wait" /\ job[p] = "recheck"
    BY <1>0, <1>8 DEF InfoAnswered, RjGoes, RedditTypeOK
  <2>2. Good(p) BY <2>1 DEF Owes, ThoroughInv
  <2>3. \A q \in RjProcs \ {p} : Same(q) BY <1>0, <1>8 DEF InfoAnswered, RjGoes, RedditTypeOK
  <2> QED BY <2>1, <1>p, <2>2, <2>3
<1>9. ASSUME NEW p \in RjProcs, NEW post \in RjPosts, BatchFailed(p, post) PROVE ThoroughInv'
  <2>1. Good(p) BY <1>0, <1>9 DEF BatchFailed, RjGoes, RedditTypeOK, ThoroughInv
  <2>2. \A q \in RjProcs \ {p} : Same(q) BY <1>0, <1>9 DEF BatchFailed, RjGoes, RedditTypeOK
  <2> QED BY <1>9, <1>p, <2>1, <2>2 DEF BatchFailed
<1>10. ASSUME NEW p \in RjProcs, BlankPosts(p) PROVE ThoroughInv'
  <2>1. Good(p) BY <1>0, <1>10 DEF BlankPosts, RjGoes, RedditTypeOK, Owes, ThoroughInv, rjRun
  <2>2. \A q \in RjProcs \ {p} : Same(q) BY <1>0, <1>10 DEF BlankPosts, RjGoes, RedditTypeOK, rjRun
  <2> QED BY <1>10, <1>p, <2>1, <2>2 DEF BlankPosts
<1> QED BY <1>1, <1>2, <1>3, <1>4, <1>5, <1>6, <1>7, <1>8, <1>9, <1>10 DEF RedditNext

\* A re-check that is marked complete has blanked every post that Reddit had
\* dropped before it began, however its batches fail, the budget runs out and
\* other processes re-check, blank and crash meanwhile.
THEOREM CompleteIsThorough == RedditSpec => RecheckThorough
<1>1. ThoroughInv /\ [RedditNext]_RedditVars
        => [\A p \in RjProcs : FinishJob(p) /\ job[p] = "recheck" /\ complete[p]
              => goneBefore[p] \cap texts = {}]_RedditVars
  BY DEF ThoroughInv, Owes, FinishJob
<1> QED BY <1>1, ThoroughInvInit, ThoroughInvStep, PTL DEF RedditSpec, RecheckThorough

-----------------------------------------------------------------------------
(* Scheduling.                                                              *)

\* What the proofs need of the types of the passes.
PassTypes ==
    /\ schEnv \in [Passes -> SchEnvs]
    /\ schAt \in [Passes -> {"idle", "tidy", "gate", "kills", "insert", "upsert"}]
    /\ killsRead \in [Passes -> SUBSET (SourceRoutes \cup {StaleRoute})]
    /\ DOMAIN gateRead = Passes /\ gateRead = [p \in Passes |-> gateRead[p]]
    /\ DOMAIN toTell = Passes /\ toTell = [p \in Passes |-> toTell[p]]
    /\ quiet \in [Passes -> BOOLEAN] /\ schLeft \in Nat
    /\ routeKills \subseteq SourceRoutes \cup {StaleRoute}

GateNow(p) == GateUnder(schEnv[p], switched, routeKills)
CadenceNow(p) == CadenceUnder(schEnv[p], routeKills)
Tidied(p) == CadenceNow(p) = 0 => registered = 0

\* What an undisturbed pass has read and done, step by step.
PassOnTrack(p) ==
    /\ schAt[p] # "idle" => killsRead[p] = routeKills
    /\ schAt[p] \in {"gate", "kills", "insert", "upsert"} => Tidied(p)
    /\ schAt[p] = "kills" => gateRead[p] = [last |-> lastGate, off |-> switched]
    /\ schAt[p] = "insert" => toTell[p] = GateNow(p) /\ ~SameGate(lastGate, toTell[p])
    /\ schAt[p] = "upsert" => SameGate(lastGate, GateNow(p))
    /\ schAt[p] = "idle" => registered = CadenceNow(p) /\ SameGate(lastGate, GateNow(p))

\* An undisturbed pass is on track, and alone.
OnTrack ==
    \A p \in Passes : quiet[p] => /\ \A o \in Passes : o # p => schAt[o] = "idle"
                                  /\ PassOnTrack(p)

TrackInv == PassTypes /\ OnTrack

\* A gate says the same as itself.
LEMMA GateSame ==
    ASSUME NEW e, NEW off, NEW kills
    PROVE  SameGate(GateUnder(e, off, kills), GateUnder(e, off, kills))
BY DEF SameGate, GateUnder

LEMMA TrackInit == SchedulingInit => TrackInv
<1>1. ASSUME SchedulingInit PROVE TrackInv
  <2>1. PassTypes BY <1>1, SchedulingAssumption DEF SchedulingInit, PassTypes
  <2>2. \A p \in Passes : ~quiet[p] BY <1>1 DEF SchedulingInit
  <2> QED BY <2>1, <2>2 DEF TrackInv, OnTrack
<1> QED BY <1>1

\* A step that fails or changes something leaves no pass undisturbed.
LEMMA SpentNotQuiet == ASSUME SchSpend PROVE \A p \in Passes : ~quiet'[p]
BY DEF SchSpend

LEMMA PassTypesStep == PassTypes /\ [SchedulingNext]_SchedulingVars => PassTypes'
<1> SUFFICES ASSUME PassTypes, [SchedulingNext]_SchedulingVars PROVE PassTypes'
    OBVIOUS
<1>s. ASSUME SchSpend PROVE quiet' \in [Passes -> BOOLEAN] /\ schLeft' \in Nat
  BY <1>s DEF SchSpend, PassTypes
<1>e. ASSUME NEW p \in Passes, PassEnds(p)
      PROVE  /\ schAt' \in [Passes -> {"idle", "tidy", "gate", "kills", "insert", "upsert"}]
             /\ killsRead' \in [Passes -> SUBSET (SourceRoutes \cup {StaleRoute})]
             /\ DOMAIN gateRead' = Passes /\ gateRead' = [q \in Passes |-> gateRead'[q]]
             /\ DOMAIN toTell' = Passes /\ toTell' = [q \in Passes |-> toTell'[q]]
  BY <1>e DEF PassEnds, SchGoes, PassTypes
<1>1. CASE ThrowSwitch
  <2>1. routeKills' \subseteq SourceRoutes \cup {StaleRoute} BY <1>1 DEF ThrowSwitch, PassTypes
  <2> QED BY <1>1, <1>s, <2>1 DEF ThrowSwitch, PassTypes, schReads
<1>2. ASSUME NEW p \in Passes, Redeploy(p) PROVE PassTypes'
  <2>1. schEnv' \in [Passes -> SchEnvs] BY <1>2 DEF Redeploy, PassTypes
  <2> QED BY <1>2, <1>s, <1>e, <2>1 DEF Redeploy, PassTypes
<1>3. ASSUME NEW p \in Passes, BeginPass(p) PROVE PassTypes'
  <2>1. quiet' \in [Passes -> BOOLEAN] /\ schLeft' \in Nat BY <1>3, <1>s DEF BeginPass, PassTypes
  <2>2. killsRead' \in [Passes -> SUBSET (SourceRoutes \cup {StaleRoute})] BY <1>3 DEF BeginPass, PassTypes
  <2> QED BY <1>3, <2>1, <2>2 DEF BeginPass, PassTypes, SchGoes
<1>4. ASSUME NEW p \in Passes, TidySchedulers(p) PROVE PassTypes'
  BY <1>4 DEF TidySchedulers, PassTypes, SchGoes, schReads
<1>5. ASSUME NEW p \in Passes, ReadGate(p) PROVE PassTypes'
  BY <1>5 DEF ReadGate, PassTypes, SchGoes
<1>6. ASSUME NEW p \in Passes, CompareGate(p) PROVE PassTypes'
  <2>1. \/ SchGoes(p, "upsert") /\ UNCHANGED toTell
        \/ SchGoes(p, "insert") /\ \E g : toTell' = [toTell EXCEPT ![p] = g]
    BY <1>6 DEF CompareGate
  <2>2. UNCHANGED <<schEnv, killsRead, gateRead, quiet, schLeft, routeKills>> BY <1>6 DEF CompareGate
  <2> QED BY <2>1, <2>2 DEF PassTypes, SchGoes
<1>7. ASSUME NEW p \in Passes, RecordGate(p) PROVE PassTypes'
  BY <1>7 DEF RecordGate, PassTypes, SchGoes, schReads
<1>8. ASSUME NEW p \in Passes, GateFails(p) PROVE PassTypes'
  BY <1>8, <1>s DEF GateFails, PassTypes, SchGoes, schReads
<1>9. ASSUME NEW p \in Passes, EndPass(p) PROVE PassTypes'
  BY <1>9, <1>e DEF EndPass, PassTypes
<1>10. ASSUME NEW p \in Passes, PassFails(p) PROVE PassTypes'
  BY <1>10, <1>s, <1>e DEF PassFails, PassTypes
<1>11. CASE UNCHANGED SchedulingVars BY <1>11 DEF SchedulingVars, schPass, schReads, PassTypes
<1> QED BY <1>1, <1>2, <1>3, <1>4, <1>5, <1>6, <1>7, <1>8, <1>9, <1>10, <1>11 DEF SchedulingNext

\* A step of a pass that changes nobody's quiet: only its own track is in question.
LEMMA OneMoves ==
    ASSUME TrackInv, PassTypes', NEW p \in Passes, schAt[p] # "idle", UNCHANGED quiet,
           \A o \in Passes : o # p => schAt'[o] = schAt[o],
           quiet[p] => PassOnTrack(p)'
    PROVE  TrackInv'
<1>1. ASSUME NEW q \in Passes, q # p, quiet'[q] PROVE FALSE
  BY <1>1 DEF TrackInv, OnTrack
<1> QED BY <1>1 DEF TrackInv, OnTrack

LEMMA TrackStep == TrackInv /\ [SchedulingNext]_SchedulingVars => TrackInv'
<1> SUFFICES ASSUME TrackInv, [SchedulingNext]_SchedulingVars PROVE TrackInv'
    OBVIOUS
<1>0. PassTypes' BY PassTypesStep DEF TrackInv
<1>t. PassTypes BY DEF TrackInv
<1>1. ASSUME SchSpend PROVE TrackInv' BY <1>0, <1>1, SpentNotQuiet DEF TrackInv, OnTrack
<1>2. ASSUME NEW p \in Passes, BeginPass(p) PROVE TrackInv'
  <2>1. CASE SchSpend BY <1>1, <2>1
  <2>2. CASE /\ killsRead' = [killsRead EXCEPT ![p] = routeKills]
             /\ quiet' = [q \in Passes |-> q = p /\ \A o \in Passes \ {p} : schAt[o] = "idle"]
    <3>1. schAt' = [schAt EXCEPT ![p] = "tidy"] /\ UNCHANGED routeKills BY <1>2 DEF BeginPass, SchGoes
    <3>2. schAt'[p] = "tidy" /\ killsRead'[p] = routeKills' BY <1>t, <2>2, <3>1 DEF PassTypes
    <3>3. PassOnTrack(p)' BY <3>2 DEF PassOnTrack
    <3>4. \A q \in Passes : quiet'[q] => q = p /\ \A o \in Passes : o # p => schAt'[o] = "idle"
      BY <1>t, <2>2, <3>1 DEF PassTypes
    <3> QED BY <1>0, <3>3, <3>4 DEF TrackInv, OnTrack
  <2> QED BY <1>2, <2>1, <2>2 DEF BeginPass
<1>3. ASSUME NEW p \in Passes, TidySchedulers(p) PROVE TrackInv'
  <2>1. /\ schAt[p] = "tidy" /\ schAt' = [schAt EXCEPT ![p] = "gate"]
        /\ registered' = IF CadenceUnder(schEnv[p], killsRead[p]) = 0 THEN 0 ELSE registered
        /\ UNCHANGED <<switched, routeKills, lastGate, schEnv, killsRead, quiet>>
    BY <1>3 DEF TidySchedulers, SchGoes, schReads
  <2>2. schAt'[p] = "gate" /\ \A o \in Passes : o # p => schAt'[o] = schAt[o] BY <1>t, <2>1 DEF PassTypes
  <2>3. ASSUME quiet[p] PROVE PassOnTrack(p)'
    <3>1. killsRead[p] = routeKills BY <2>1, <2>3 DEF TrackInv, OnTrack, PassOnTrack
    <3>2. Tidied(p)' BY <2>1, <3>1 DEF Tidied, CadenceNow
    <3> QED BY <2>1, <2>2, <3>1, <3>2 DEF PassOnTrack
  <2> QED BY <1>0, <2>1, <2>2, <2>3, OneMoves
<1>4. ASSUME NEW p \in Passes, ReadGate(p) PROVE TrackInv'
  <2>1. /\ schAt[p] = "gate" /\ schAt' = [schAt EXCEPT ![p] = "kills"]
        /\ gateRead' = [gateRead EXCEPT ![p] = [last |-> lastGate, off |-> switched]]
        /\ UNCHANGED <<registered, switched, routeKills, lastGate, schEnv, killsRead, quiet>>
    BY <1>4 DEF ReadGate, SchGoes
  <2>2. /\ schAt'[p] = "kills" /\ gateRead'[p] = [last |-> lastGate, off |-> switched]
        /\ \A o \in Passes : o # p => schAt'[o] = schAt[o]
    BY <1>t, <2>1 DEF PassTypes
  <2>3. ASSUME quiet[p] PROVE PassOnTrack(p)'
    BY <2>1, <2>2, <2>3 DEF TrackInv, OnTrack, PassOnTrack, Tidied, CadenceNow
  <2> QED BY <1>0, <2>1, <2>2, <2>3, OneMoves
<1>5. ASSUME NEW p \in Passes, CompareGate(p) PROVE TrackInv'
  <2> DEFINE gate == GateUnder(schEnv[p], gateRead[p].off, routeKills)
  <2>1. /\ schAt[p] = "kills"
        /\ UNCHANGED <<registered, switched, routeKills, lastGate, schEnv, killsRead, quiet>>
        /\ \/ SameGate(gateRead[p].last, gate) /\ schAt' = [schAt EXCEPT ![p] = "upsert"]
           \/ /\ ~SameGate(gateRead[p].last, gate) /\ schAt' = [schAt EXCEPT ![p] = "insert"]
              /\ toTell' = [toTell EXCEPT ![p] = gate]
    BY <1>5 DEF CompareGate, SchGoes
  <2>2. \A o \in Passes : o # p => schAt'[o] = schAt[o] BY <1>t, <2>1 DEF PassTypes
  <2>3. ASSUME quiet[p] PROVE PassOnTrack(p)'
    <3>1. /\ killsRead[p] = routeKills /\ Tidied(p)
          /\ gateRead[p] = [last |-> lastGate, off |-> switched]
      BY <2>1, <2>3 DEF TrackInv, OnTrack, PassOnTrack
    <3>2. gateRead[p].last = lastGate /\ gate = GateNow(p) BY <3>1 DEF GateNow
    <3>3. Tidied(p)' /\ GateNow(p)' = GateNow(p) /\ killsRead'[p] = routeKills'
      BY <2>1, <3>1 DEF Tidied, CadenceNow, GateNow
    <3> HIDE DEF gate
    <3>4. CASE SameGate(lastGate, gate) /\ schAt' = [schAt EXCEPT ![p] = "upsert"]
      <4>1. schAt'[p] = "upsert" BY <1>t, <3>4 DEF PassTypes
      <4>2. SameGate(lastGate, GateNow(p))' BY <2>1, <3>2, <3>3, <3>4 DEF SameGate
      <4> QED BY <3>3, <4>1, <4>2 DEF PassOnTrack
    <3>5. CASE /\ ~SameGate(lastGate, gate) /\ schAt' = [schAt EXCEPT ![p] = "insert"]
               /\ toTell' = [toTell EXCEPT ![p] = gate]
      <4>1. schAt'[p] = "insert" /\ toTell'[p] = gate BY <1>t, <3>5 DEF PassTypes
      <4>2. ~SameGate(lastGate, toTell[p])' BY <2>1, <3>5, <4>1 DEF SameGate
      <4> QED BY <3>2, <3>3, <4>1, <4>2 DEF PassOnTrack
    <3> QED BY <2>1, <3>2, <3>4, <3>5
  <2> QED BY <1>0, <2>1, <2>2, <2>3, OneMoves
<1>6. ASSUME NEW p \in Passes, RecordGate(p) PROVE TrackInv'
  <2>1. /\ schAt[p] = "insert" /\ schAt' = [schAt EXCEPT ![p] = "upsert"] /\ lastGate' = toTell[p]
        /\ UNCHANGED <<registered, switched, routeKills, schEnv, killsRead, toTell, quiet>>
    BY <1>6 DEF RecordGate, SchGoes, schReads
  <2>2. schAt'[p] = "upsert" /\ \A o \in Passes : o # p => schAt'[o] = schAt[o] BY <1>t, <2>1 DEF PassTypes
  <2>3. ASSUME quiet[p] PROVE PassOnTrack(p)'
    <3>1. killsRead[p] = routeKills /\ Tidied(p) /\ toTell[p] = GateNow(p)
      BY <2>1, <2>3 DEF TrackInv, OnTrack, PassOnTrack
    <3>2. Tidied(p)' /\ GateNow(p)' = GateNow(p) /\ killsRead'[p] = routeKills'
      BY <2>1, <3>1 DEF Tidied, CadenceNow, GateNow
    <3>3. SameGate(GateNow(p), GateNow(p)) BY GateSame DEF GateNow
    <3>4. SameGate(lastGate, GateNow(p))' BY <2>1, <3>1, <3>2, <3>3 DEF SameGate
    <3> QED BY <2>2, <3>2, <3>4 DEF PassOnTrack
  <2> QED BY <1>0, <2>1, <2>2, <2>3, OneMoves
<1>7. ASSUME NEW p \in Passes, EndPass(p) PROVE TrackInv'
  <2>1. /\ schAt[p] = "upsert" /\ schAt' = [schAt EXCEPT ![p] = "idle"]
        /\ registered' = IF CadenceUnder(schEnv[p], killsRead[p]) = 0 THEN registered
                         ELSE CadenceUnder(schEnv[p], killsRead[p])
        /\ UNCHANGED <<switched, routeKills, lastGate, schEnv, quiet>>
    BY <1>7 DEF EndPass, PassEnds, SchGoes
  <2>2. schAt'[p] = "idle" /\ \A o \in Passes : o # p => schAt'[o] = schAt[o] BY <1>t, <2>1 DEF PassTypes
  <2>3. ASSUME quiet[p] PROVE PassOnTrack(p)'
    <3>1. killsRead[p] = routeKills /\ Tidied(p) /\ SameGate(lastGate, GateNow(p))
      BY <2>1, <2>3 DEF TrackInv, OnTrack, PassOnTrack
    <3>2. registered' = CadenceNow(p)' BY <2>1, <3>1 DEF Tidied, CadenceNow
    <3>3. SameGate(lastGate, GateNow(p))' BY <2>1, <3>1 DEF SameGate, GateNow
    <3> QED BY <2>2, <3>2, <3>3 DEF PassOnTrack
  <2> QED BY <1>0, <2>1, <2>2, <2>3, OneMoves
<1>8. CASE UNCHANGED SchedulingVars
  BY <1>0, <1>8 DEF TrackInv, OnTrack, PassOnTrack, Tidied, CadenceNow, GateNow, SameGate, SchedulingVars,
     schPass, schReads
<1> QED BY <1>1, <1>2, <1>3, <1>4, <1>5, <1>6, <1>7, <1>8
        DEF SchedulingNext, ThrowSwitch, Redeploy, GateFails, PassFails

\* One undisturbed pass puts a source's job and its recorded gate right,
\* whatever overlaps, stale reads and failures left behind.
THEOREM OnePassAlwaysSettles == SchedulingSpec => []OnePassSettles
<1>1. TrackInv => OnePassSettles
  BY DEF TrackInv, OnTrack, PassOnTrack, OnePassSettles, CadenceNow, GateNow
<1> QED BY <1>1, TrackInit, TrackStep, PTL DEF SchedulingSpec

LEMMA EchoStep ==
    ASSUME TrackInv, [SchedulingNext]_SchedulingVars, NEW p \in Passes,
           schAt[p] = "insert", schAt'[p] = "upsert", SameGate(lastGate, lastGate'), quiet[p]
    PROVE  schLeft' < schLeft
<1>t. PassTypes BY DEF TrackInv
<1>1. ASSUME SchSpend PROVE schLeft' < schLeft BY <1>1, <1>t DEF SchSpend, PassTypes
<1>2. ASSUME RecordGate(p) PROVE FALSE
  <2>1. lastGate' = toTell[p] BY <1>2 DEF RecordGate
  <2>2. ~SameGate(lastGate, toTell[p]) BY DEF TrackInv, OnTrack, PassOnTrack
  <2> QED BY <2>1, <2>2
<1>3. ASSUME NEW q \in Passes,
             BeginPass(q) \/ TidySchedulers(q) \/ ReadGate(q) \/ CompareGate(q) \/ EndPass(q)
      PROVE  schAt'[p] = schAt[p]
  <2>1. q # p BY <1>3 DEF BeginPass, TidySchedulers, ReadGate, CompareGate, EndPass
  <2> QED BY <1>3, <1>t, <2>1 DEF BeginPass, TidySchedulers, ReadGate, CompareGate, EndPass, PassEnds,
            SchGoes, PassTypes
<1>4. ASSUME NEW q \in Passes, q # p, RecordGate(q) PROVE schAt'[p] = schAt[p]
  BY <1>4, <1>t DEF RecordGate, SchGoes, PassTypes
<1>5. ~(UNCHANGED SchedulingVars) BY DEF SchedulingVars, schPass
<1> QED BY <1>1, <1>2, <1>3, <1>4, <1>5
        DEF SchedulingNext, ThrowSwitch, Redeploy, GateFails, PassFails

\* An undisturbed pass does not record what the last gate event already says.
THEOREM NoEchoEver == SchedulingSpec => NoEcho
<1>1. TrackInv /\ [SchedulingNext]_SchedulingVars =>
        [\A p \in Passes :
            schAt[p] = "insert" /\ schAt'[p] = "upsert" /\ SameGate(lastGate, lastGate') =>
                ~quiet[p] \/ schLeft' < schLeft]_SchedulingVars
  BY EchoStep
<1> QED BY <1>1, TrackInit, TrackStep, PTL DEF SchedulingSpec, NoEcho

---------------------------------------------------------------------------
(* The types. The cadence of a source is one its routes or itself ask for:  *)
(* there is a slowest, because the registry lists finitely many.            *)

\* A finite set of numbers has a largest.
LEMMA FiniteHasMax ==
    ASSUME NEW S \in SUBSET Nat, IsFiniteSet(S), S # {}
    PROVE  \E m \in S : \A k \in S : k <= m
<1> DEFINE From(j) == {k \in S : k >= j}
           T == {From(j) : j \in S}
<1>1. T \subseteq FiniteSubsetsOf(S)
  BY FS_FiniteSubsetsOfFinite
<1>2. IsWellFoundedOn(StrictSubsetOrdering(S), FiniteSubsetsOf(S)) /\ T # {}
  BY FS_StrictSubsetOrderingWellFounded
<1>3. PICK U \in T : \A V \in T : ~(<<V, U>> \in StrictSubsetOrdering(S))
  BY <1>1, <1>2, WFMin
<1>4. PICK m \in S : U = From(m)
  BY <1>3
<1>5. ASSUME NEW k \in S, k > m PROVE FALSE
  <2>0. m \in Nat /\ k \in Nat /\ \A i \in S : i \in Nat
    OBVIOUS
  <2>1. ASSUME NEW i \in S, i >= k PROVE i >= m
    <3>1. i \in Nat
      BY <2>0
    <3> QED BY <1>5, <2>0, <2>1, <3>1
  <2>2. From(k) \subseteq From(m)
    BY <2>1
  <2>3. m \in From(m) /\ m \notin From(k)
    BY <1>5, <2>0
  <2>4. From(k) \in T
    OBVIOUS
  <2>5. From(k) # From(m) /\ From(k) \in SUBSET S /\ From(m) \in SUBSET S
    BY <2>3
  <2>6. <<From(k), U>> \in StrictSubsetOrdering(S)
    BY <1>4, <2>2, <2>5 DEF StrictSubsetOrdering
  <2> QED BY <1>3, <2>4, <2>6
<1>6. \A k \in S : k <= m
  BY <1>5
<1> QED BY <1>6

\* The routes that run are the registry's.
LEMMA RoutesRun ==
    ASSUME NEW e \in SchEnvs, NEW kills PROVE RunRoutes(e, kills) \subseteq SourceRoutes
BY SchedulingAssumption DEF RunRoutes, Candidates

Cadences == {0, BasePoll} \cup {PollOf[r] : r \in SourceRoutes}
            \cup {e.window : e \in SchEnvs} \cup {e.keyed : e \in SchEnvs}

\* A cadence is one that was asked for.
LEMMA CadenceAsked ==
    ASSUME NEW e \in SchEnvs, NEW kills PROVE CadenceUnder(e, kills) \in Cadences
<1> DEFINE R == RunRoutes(e, kills)
           polls == {PollOf[r] : r \in R}
           asked == AskedUnder(e, kills)
<1>1. R \subseteq SourceRoutes /\ IsFiniteSet(R)
  BY RoutesRun, FS_Subset, SchedulingAssumption
<1>2. IsFiniteSet(polls)
  <2> DEFINE f == [r \in R |-> PollOf[r]]
  <2>1. f \in Surjection(R, polls)
    BY DEF Surjection
  <2> QED BY <1>1, <2>1, FS_Surjection
<1>3. IsFiniteSet(asked)
  <2>1. IsFiniteSet(polls \cup {BasePoll} \cup {e.window}) /\ IsFiniteSet({} \cup {e.window} \cup {e.keyed})
    BY <1>2, FS_EmptySet, FS_AddElement
  <2>2. asked = polls \cup {BasePoll} \cup {e.window} \/ asked = {} \cup {e.window} \cup {e.keyed}
    BY DEF AskedUnder
  <2> QED BY <2>1, <2>2
<1>4. asked \in SUBSET Nat /\ asked # {}
  BY <1>1, SchedulingAssumption DEF AskedUnder
<1>5. \E c \in asked : \A d \in asked : d <= c
  BY <1>3, <1>4, FiniteHasMax
<1>6. (CHOOSE c \in asked : \A d \in asked : d <= c) \in asked
  BY <1>5
<1>7. asked \subseteq Cadences
  BY <1>1 DEF Cadences, AskedUnder
<1>8. \/ CadenceUnder(e, kills) = 0
      \/ CadenceUnder(e, kills) = CHOOSE c \in asked : \A d \in asked : d <= c
  BY DEF CadenceUnder
<1> HIDE DEF asked
<1> QED BY <1>6, <1>7, <1>8 DEF Cadences

\* A gate under an environment is one that can be recorded.
LEMMA GateRecordable ==
    ASSUME NEW e \in SchEnvs, NEW off, NEW kills PROVE GateUnder(e, off, kills) \in Gates
<1>1. StatusUnder(e, kills) \in {"collecting", "disabled", "closed"}
  BY DEF StatusUnder
<1>2. RunRoutes(e, kills) \in SUBSET SourceRoutes
  BY RoutesRun
<1> QED BY <1>1, <1>2 DEF GateUnder, Gates

LEMMA SchedulingTypesInit == SchedulingInit => SchedulingTypeOK
<1>1. NoGate \in Gates /\ OldGate \in Gates /\ Unread \in [last : Gates, off : BOOLEAN]
  BY DEF NoGate, OldGate, Unread, Gates
<1>2. SchMaxChanges \in 0 .. SchMaxChanges
  BY SchedulingAssumption
<1> QED BY <1>1, <1>2 DEF SchedulingInit, SchedulingTypeOK

LEMMA SchedulingTypesStep == SchedulingTypeOK /\ [SchedulingNext]_SchedulingVars => SchedulingTypeOK'
<1> SUFFICES ASSUME SchedulingTypeOK, [SchedulingNext]_SchedulingVars PROVE SchedulingTypeOK'
    OBVIOUS
<1>n. NoGate \in Gates /\ Unread \in [last : Gates, off : BOOLEAN] BY DEF NoGate, Unread, Gates
<1>s. ASSUME SchSpend PROVE quiet' \in [Passes -> BOOLEAN] /\ schLeft' \in 0 .. SchMaxChanges
  BY <1>s, SchedulingAssumption DEF SchSpend, SchedulingTypeOK
<1>e. ASSUME NEW p \in Passes, PassEnds(p)
      PROVE  /\ schAt' \in [Passes -> {"idle", "tidy", "gate", "kills", "insert", "upsert"}]
             /\ killsRead' \in [Passes -> SUBSET (SourceRoutes \cup {StaleRoute})]
             /\ gateRead' \in [Passes -> [last : Gates, off : BOOLEAN]]
             /\ toTell' \in [Passes -> Gates]
  BY <1>e, <1>n DEF PassEnds, SchGoes, SchedulingTypeOK
<1>1. CASE ThrowSwitch
  <2>1. routeKills' \subseteq SourceRoutes \cup {StaleRoute} /\ switched' \in BOOLEAN
    BY <1>1 DEF ThrowSwitch, SchedulingTypeOK
  <2> QED BY <1>1, <1>s, <2>1 DEF ThrowSwitch, SchedulingTypeOK, schReads
<1>2. ASSUME NEW p \in Passes, Redeploy(p) PROVE SchedulingTypeOK'
  <2>1. schEnv' \in [Passes -> SchEnvs] BY <1>2 DEF Redeploy, SchedulingTypeOK
  <2> QED BY <1>2, <1>s, <1>e, <2>1 DEF Redeploy, SchedulingTypeOK
<1>3. ASSUME NEW p \in Passes, BeginPass(p) PROVE SchedulingTypeOK'
  <2>1. quiet' \in [Passes -> BOOLEAN] /\ schLeft' \in 0 .. SchMaxChanges
    BY <1>3, <1>s DEF BeginPass, SchedulingTypeOK
  <2>2. killsRead' \in [Passes -> SUBSET (SourceRoutes \cup {StaleRoute})] BY <1>3 DEF BeginPass, SchedulingTypeOK
  <2>3. schAt' \in [Passes -> {"idle", "tidy", "gate", "kills", "insert", "upsert"}]
    BY <1>3 DEF BeginPass, SchGoes, SchedulingTypeOK
  <2> QED BY <1>3, <2>1, <2>2, <2>3 DEF BeginPass, SchedulingTypeOK
<1>4. ASSUME NEW p \in Passes, TidySchedulers(p) PROVE SchedulingTypeOK'
  BY <1>4 DEF TidySchedulers, SchedulingTypeOK, SchGoes, schReads
<1>5. ASSUME NEW p \in Passes, ReadGate(p) PROVE SchedulingTypeOK'
  <2>1. gateRead' \in [Passes -> [last : Gates, off : BOOLEAN]] BY <1>5 DEF ReadGate, SchedulingTypeOK
  <2> QED BY <1>5, <2>1 DEF ReadGate, SchedulingTypeOK, SchGoes
<1>6. ASSUME NEW p \in Passes, CompareGate(p) PROVE SchedulingTypeOK'
  <2>1. GateUnder(schEnv[p], gateRead[p].off, routeKills) \in Gates BY GateRecordable DEF SchedulingTypeOK
  <2>2. \/ SchGoes(p, "upsert") /\ UNCHANGED toTell
        \/ SchGoes(p, "insert") /\ \E g \in Gates : toTell' = [toTell EXCEPT ![p] = g]
    BY <1>6, <2>1 DEF CompareGate
  <2>3. toTell' \in [Passes -> Gates] BY <2>2 DEF SchedulingTypeOK
  <2>4. schAt' \in [Passes -> {"idle", "tidy", "gate", "kills", "insert", "upsert"}]
    BY <2>2 DEF SchGoes, SchedulingTypeOK
  <2> QED BY <1>6, <2>3, <2>4 DEF CompareGate, SchedulingTypeOK
<1>7. ASSUME NEW p \in Passes, RecordGate(p) PROVE SchedulingTypeOK'
  BY <1>7 DEF RecordGate, SchedulingTypeOK, SchGoes, schReads
<1>8. ASSUME NEW p \in Passes, GateFails(p) PROVE SchedulingTypeOK'
  BY <1>8, <1>s DEF GateFails, SchedulingTypeOK, SchGoes, schReads
<1>9. ASSUME NEW p \in Passes, EndPass(p) PROVE SchedulingTypeOK'
  <2>1. CadenceUnder(schEnv[p], killsRead[p]) \in Cadences BY CadenceAsked DEF SchedulingTypeOK
  <2>2. registered' \in Cadences BY <1>9, <2>1 DEF EndPass, SchedulingTypeOK, Cadences
  <2> QED BY <1>9, <1>e, <2>2 DEF EndPass, SchedulingTypeOK, Cadences
<1>10. ASSUME NEW p \in Passes, PassFails(p) PROVE SchedulingTypeOK'
  BY <1>10, <1>s, <1>e DEF PassFails, SchedulingTypeOK
<1>11. CASE UNCHANGED SchedulingVars BY <1>11 DEF SchedulingVars, schPass, schReads, SchedulingTypeOK
<1> QED BY <1>1, <1>2, <1>3, <1>4, <1>5, <1>6, <1>7, <1>8, <1>9, <1>10, <1>11 DEF SchedulingNext

\* A source is registered at a cadence it or one of its routes asks for, and what
\* is recorded of its gate names the registry's routes and a known approver.
THEOREM SchedulingTyped == SchedulingSpec => []SchedulingTypeOK
BY SchedulingTypesInit, SchedulingTypesStep, PTL DEF SchedulingSpec

-----------------------------------------------------------------------------
(* Maintenance.                                                             *)

WindowRow == [status : {"none", "running", "completed", "failed"}, assessed : Seq(BOOLEAN), alerted : SUBSET Nat]
MtSteps == StepNames \cup {"queued", "record", "recorded", "completed", "failed"}
Reports == [missed : SUBSET MtRows, window : WindowRow]
MtTypes ==
    /\ raw \in SUBSET MtRows /\ old \in SUBSET MtRows
    /\ step \in [MtJobs -> MtSteps] /\ failures \in [MtJobs -> SUBSET StepNames]
    /\ rollup \in [MtJobs -> [open : BOOLEAN, picked : SUBSET MtRows, written : SUBSET MtDays]]
    /\ missed \in [MtJobs -> SUBSET MtRows]
    /\ window \in [MtJobs -> WindowRow]
    /\ maintenanceState \in [last : {"never", "ok", "failed"}, lastOk : SUBSET Reports]
    /\ mtFaults \in 0 .. MtMaxFaults

\* A transaction has rows that are there and that no other has, and a short
\* batch missed nothing.
RollupInv ==
    /\ \A j \in MtJobs : ~rollup[j].open => rollup[j] = NoRollup
    /\ \A j \in MtJobs : rollup[j].open =>
           /\ step[j] = "source_runs" /\ rollup[j].picked \subseteq raw
           /\ Cardinality(rollup[j].picked) < MtBatch => missed[j] = {}
    /\ \A j, k \in MtJobs : j # k => rollup[j].picked \cap rollup[k].picked = {}

\* What a job has behind it when its steps say so.
DoneInv ==
    /\ \A j \in MtJobs :
         /\ step[j] \in {"admission_rule_hits", "bias_window", "record", "recorded", "completed"} /\ "source_runs" \notin failures[j]
               => missed[j] = {}
         /\ step[j] \in {"record", "recorded", "completed"} /\ "bias_window" \notin failures[j]
               => window[j].status = "completed" /\ window[j].alerted = Violations(window[j])
         /\ step[j] = "completed" => failures[j] = {}
    /\ \A r \in maintenanceState.lastOk :
         r.missed = {} /\ r.window.status = "completed" /\ r.window.alerted = Violations(r.window)

MaintenanceInv == MtTypes /\ RollupInv /\ RunsConserved /\ DoneInv

\* The steps in their order.
LEMMA StepsInOrder ==
    /\ StepNames = {"compaction", "source_runs", "admission_rule_hits", "bias_window"}
    /\ After("compaction") = "source_runs" /\ After("source_runs") = "admission_rule_hits"
    /\ After("admission_rule_hits") = "bias_window" /\ After("bias_window") = "record"
<1>1. Len(DailySteps) = 4 /\ DailySteps[1] = "compaction" /\ DailySteps[2] = "source_runs"
      /\ DailySteps[3] = "admission_rule_hits" /\ DailySteps[4] = "bias_window"
  BY DEF DailySteps
<1>2. 1 .. 4 = {1, 2, 3, 4} OBVIOUS
<1>3. StepNames = {"compaction", "source_runs", "admission_rule_hits", "bias_window"}
  BY <1>1, <1>2 DEF StepNames
<1>4. /\ (CHOOSE i \in 1 .. Len(DailySteps) : DailySteps[i] = "compaction") = 1
      /\ (CHOOSE i \in 1 .. Len(DailySteps) : DailySteps[i] = "source_runs") = 2
      /\ (CHOOSE i \in 1 .. Len(DailySteps) : DailySteps[i] = "admission_rule_hits") = 3
  BY <1>1, <1>2
<1>5. 1 + 1 = 2 /\ 1 + 2 = 3 /\ 1 + 3 = 4 OBVIOUS
<1> QED BY <1>1, <1>3, <1>4, <1>5 DEF After

\* Finitely many rows dropped finitely many items.
LEMMA ItemsFinite ==
    ASSUME NEW A \in SUBSET MtRows
    PROVE  IsFiniteSet(A) /\ IsFiniteSet(DroppedItems(A)) /\ Cardinality(A) \in Nat /\ Cardinality(DroppedItems(A)) \in Nat
<1> DEFINE C == Counted(A)
           f == [r \in C |-> {r} \X (1 .. MtDropped[r])]
           T == {{r} \X (1 .. MtDropped[r]) : r \in C}
<1>1. IsFiniteSet(A) BY MaintenanceAssumption, FS_Subset
<1>2. C \in SUBSET A BY DEF Counted
<1>3. IsFiniteSet(C) BY <1>1, <1>2, FS_Subset
<1>4. f \in Surjection(C, T) BY DEF Surjection
<1>5. IsFiniteSet(T) BY <1>3, <1>4, FS_Surjection
<1>6. ASSUME NEW r \in C PROVE IsFiniteSet({r} \X (1 .. MtDropped[r]))
  <2>1. MtDropped[r] \in Nat BY <1>6, MaintenanceAssumption DEF Counted
  <2>2. IsFiniteSet(1 .. MtDropped[r]) BY <2>1, FS_Interval
  <2>3. IsFiniteSet({r}) BY FS_Singleton
  <2> QED BY <2>2, <2>3, FS_Product
<1>7. \A t \in T : IsFiniteSet(t) BY <1>6
<1>8. IsFiniteSet(UNION T) BY <1>5, <1>7, FS_UNION
<1>9. DroppedItems(A) = UNION T BY DEF DroppedItems
<1> QED BY <1>1, <1>8, <1>9, FS_CardinalityType

\* The day's row of two sets of rows is the sum of theirs.
LEMMA DayAdds ==
    ASSUME NEW A \in SUBSET MtRows, NEW B \in SUBSET MtRows, A \cap B = {},
           NEW row, row = [runs |-> Cardinality(A), dropped |-> DroppedBy(A)]
    PROVE  AddedTo(row, B) = [runs |-> Cardinality(A \cup B), dropped |-> DroppedBy(A \cup B)]
<1>1. /\ Counted(A \cup B) = Counted(A) \cup Counted(B) /\ DroppedItems(A \cup B) = DroppedItems(A) \cup DroppedItems(B)
  BY DEF Counted, DroppedItems
<1>2. DroppedItems(A) \cap DroppedItems(B) = {} BY DEF Counted, DroppedItems
<1>3. Cardinality(A \cup B) = Cardinality(A) + Cardinality(B)
  <2>1. Cardinality(A \cap B) = 0 BY FS_EmptySet
  <2>2. IsFiniteSet(A) /\ IsFiniteSet(B) /\ Cardinality(A) \in Nat /\ Cardinality(B) \in Nat BY ItemsFinite
  <2>3. Cardinality(A \cup B) = Cardinality(A) + Cardinality(B) - Cardinality(A \cap B) BY <2>2, FS_Union
  <2> QED BY <2>1, <2>2, <2>3
<1>4. Cardinality(DroppedItems(A \cup B)) = Cardinality(DroppedItems(A)) + Cardinality(DroppedItems(B))
  <2>1. Cardinality(DroppedItems(A) \cap DroppedItems(B)) = 0 BY <1>2, FS_EmptySet
  <2>2. /\ IsFiniteSet(DroppedItems(A)) /\ IsFiniteSet(DroppedItems(B))
        /\ Cardinality(DroppedItems(A)) \in Nat /\ Cardinality(DroppedItems(B)) \in Nat BY ItemsFinite
  <2>3. Cardinality(DroppedItems(A) \cup DroppedItems(B))
          = Cardinality(DroppedItems(A)) + Cardinality(DroppedItems(B)) - Cardinality(DroppedItems(A) \cap DroppedItems(B))
    BY <2>2, FS_Union
  <2> DEFINE a == Cardinality(DroppedItems(A))
             b == Cardinality(DroppedItems(B))
             c == Cardinality(DroppedItems(A) \cap DroppedItems(B))
  <2>4. a \in Nat /\ b \in Nat /\ c = 0 BY <2>1, <2>2
  <2>5. Cardinality(DroppedItems(A) \cup DroppedItems(B)) = a + b - c BY <2>3
  <2> HIDE DEF a, b, c
  <2>6. Cardinality(DroppedItems(A) \cup DroppedItems(B)) = a + b BY <2>4, <2>5
  <2> QED BY <2>6, <1>1 DEF a, b
<1>5. \A S \in {A, B} : Counted(S) = {} => DroppedItems(S) = {} BY DEF DroppedItems
<1>6. \A S \in {A, B} : Counted(S) = {} => Cardinality(DroppedItems(S)) = 0 BY <1>5, FS_EmptySet
<1>7. /\ Cardinality(DroppedItems(A)) \in Nat /\ Cardinality(DroppedItems(B)) \in Nat BY ItemsFinite
<1> DEFINE a == Cardinality(DroppedItems(A))
           b == Cardinality(DroppedItems(B))
<1>8. DroppedBy(A) = (IF Counted(A) = {} THEN NotRecorded ELSE a) /\ DroppedBy(B) = (IF Counted(B) = {} THEN NotRecorded ELSE b)
      /\ DroppedBy(A \cup B) = (IF Counted(A) = {} /\ Counted(B) = {} THEN NotRecorded ELSE a + b)
  BY <1>1, <1>4 DEF DroppedBy
<1>9. a \in Nat /\ b \in Nat /\ (Counted(A) = {} => a = 0) /\ (Counted(B) = {} => b = 0) BY <1>6, <1>7
<1>10. row.runs = Cardinality(A) /\ row.dropped = DroppedBy(A) OBVIOUS
<1> HIDE DEF a, b
<1>11. AddedTo(row, B).dropped = DroppedBy(A \cup B) BY <1>8, <1>9, <1>10 DEF AddedTo, NotRecorded
<1> QED BY <1>3, <1>10, <1>11 DEF AddedTo

\* At the start no row is gone and no transaction is open.
LEMMA MaintenanceStarts == MaintenanceInit => MaintenanceInv
<1> SUFFICES ASSUME MaintenanceInit PROVE MaintenanceInv
  OBVIOUS
<1>1. MtTypes
  <2>1. <<>> \in Seq(BOOLEAN) OBVIOUS
  <2>2. 0 \in 0 .. MtMaxFaults BY MaintenanceAssumption
  <2> QED BY <2>1, <2>2 DEF MaintenanceInit, MtTypes, NoRollup, NoWindow, WindowRow, MtSteps
<1>2. RollupInv BY DEF MaintenanceInit, RollupInv, NoRollup
<1>3. RunsConserved
  <2> SUFFICES ASSUME NEW d \in MtDays
               PROVE  daily[d] = [runs |-> Cardinality({r \in MtRows \ raw : MtDayOf[r] = d}),
                                  dropped |-> DroppedBy({r \in MtRows \ raw : MtDayOf[r] = d})]
    BY DEF RunsConserved
  <2>1. {r \in MtRows \ raw : MtDayOf[r] = d} = {} BY DEF MaintenanceInit
  <2>2. Cardinality({}) = 0 /\ DroppedBy({}) = NotRecorded BY FS_EmptySet DEF DroppedBy, Counted
  <2>3. daily[d] = [runs |-> 0, dropped |-> NotRecorded] BY DEF MaintenanceInit
  <2> QED BY <2>1, <2>2, <2>3
<1>4. DoneInv BY DEF MaintenanceInit, DoneInv
<1> QED BY <1>1, <1>2, <1>3, <1>4 DEF MaintenanceInv

\* Where a job's step may take it.
LEMMA StepsAdvance ==
    ASSUME MtTypes, NEW j \in MtJobs, step[j] \in StepNames
    PROVE  /\ After(step[j]) \in MtSteps \ {"queued", "compaction", "completed", "failed"}
           /\ After(step[j]) = "admission_rule_hits" => step[j] = "source_runs"
           /\ After(step[j]) = "bias_window" => step[j] = "admission_rule_hits"
           /\ After(step[j]) = "record" => step[j] = "bias_window"
BY StepsInOrder DEF MtSteps

\* Steps that touch neither the rollups nor the days.
LEMMA RollupRests ==
    ASSUME RollupInv, RunsConserved, UNCHANGED <<raw, daily, rollup, missed>>,
           \A j \in MtJobs : step[j] = "source_runs" => step'[j] = "source_runs" \/ ~rollup[j].open
    PROVE  RollupInv' /\ RunsConserved'
BY DEF RollupInv, RunsConserved

\* Every step keeps the types.
LEMMA MtTyped == MtTypes /\ RollupInv /\ [MaintenanceNext]_MaintenanceVars => MtTypes'
<1> SUFFICES ASSUME MtTypes, RollupInv, [MaintenanceNext]_MaintenanceVars PROVE MtTypes'
  OBVIOUS
<1> USE DEF MtTypes
<1>f. ASSUME mtFaults' = mtFaults \/ MtSpend PROVE mtFaults' \in 0 .. MtMaxFaults
  BY <1>f, MaintenanceAssumption DEF MtSpend
<1>n. NoRollup \in [open : BOOLEAN, picked : SUBSET MtRows, written : SUBSET MtDays] /\ NoWindow \in WindowRow
  BY DEF NoRollup, NoWindow, WindowRow
<1>a. ASSUME NEW j \in MtJobs, step[j] \in StepNames, StepEnds(j) PROVE step' \in [MtJobs -> MtSteps]
  BY <1>a, StepsAdvance DEF StepEnds
<1>s. {"queued", "record", "recorded", "completed", "failed", "compaction"} \subseteq MtSteps /\ DailySteps[1] = "compaction"
      /\ "source_runs" \in StepNames
  BY StepsInOrder DEF MtSteps, DailySteps
<1>1. ASSUME NEW j \in MtJobs, Begin(j) PROVE MtTypes'
  BY <1>1, <1>f, <1>n, <1>s DEF Begin, rollupVars
<1>2. ASSUME NEW j \in MtJobs, OtherStep(j) PROVE MtTypes'
  <2>1. step[j] \in StepNames BY <1>2, StepsInOrder DEF OtherStep
  <2> QED BY <1>2, <2>1, <1>a, <1>f DEF OtherStep, rollupVars
<1>3. ASSUME NEW j \in MtJobs, StepFails(j) PROVE MtTypes'
  <2>1. window' \in [MtJobs -> WindowRow]
    <3>1. PICK s \in {"failed", window[j].status} :
             window' = IF window[j].status = "running" THEN [window EXCEPT ![j].status = s] ELSE window
      BY <1>3 DEF StepFails
    <3>2. s \in {"none", "running", "completed", "failed"} BY DEF WindowRow
    <3> QED BY <3>1, <3>2 DEF WindowRow
  <2>2. failures' \in [MtJobs -> SUBSET StepNames] /\ step' \in [MtJobs -> MtSteps]
    BY <1>3, <1>a DEF StepFails
  <2>3. rollup' \in [MtJobs -> [open : BOOLEAN, picked : SUBSET MtRows, written : SUBSET MtDays]]
        /\ missed' \in [MtJobs -> SUBSET MtRows]
    BY <1>3, <1>n DEF StepFails
  <2> QED BY <1>3, <2>1, <2>2, <2>3, <1>f DEF StepFails
<1>4. ASSUME NEW j \in MtJobs, RecordRun(j) \/ JobDone(j) PROVE MtTypes'
  BY <1>4, <1>s, <1>f DEF RecordRun, JobDone, Report, Reports, rollupVars
<1>5. ASSUME NEW j \in MtJobs, RecordFails(j) PROVE MtTypes'
  BY <1>5, <1>s, <1>f DEF RecordFails, rollupVars
<1>6. ASSUME NEW j \in MtJobs, MtCrash(j) PROVE MtTypes'
  BY <1>6, <1>s, <1>f, <1>n DEF MtCrash
<1>7. ASSUME NEW j \in MtJobs, PickRows(j) PROVE MtTypes'
  <2>1. PICK p \in SUBSET Pickable(j) :
          /\ missed' = [missed EXCEPT ![j] = Pickable(j) \ p]
          /\ IF p = {} THEN StepEnds(j) /\ UNCHANGED rollup
             ELSE rollup' = [rollup EXCEPT ![j] = [open |-> TRUE, picked |-> p, written |-> {}]] /\ UNCHANGED step
    BY <1>7 DEF PickRows
  <2>2. Pickable(j) \subseteq MtRows BY DEF Pickable
  <2>3. step' \in [MtJobs -> MtSteps] BY <1>7, <2>1, <1>a, <1>s DEF PickRows
  <2>4. rollup' \in [MtJobs -> [open : BOOLEAN, picked : SUBSET MtRows, written : SUBSET MtDays]]
    <3>1. p \in SUBSET MtRows BY <2>2
    <3>2. [open |-> TRUE, picked |-> p, written |-> {}] \in [open : BOOLEAN, picked : SUBSET MtRows, written : SUBSET MtDays]
      BY <3>1
    <3>3. CASE p = {} BY <2>1, <3>3
    <3>4. CASE p # {} BY <2>1, <3>2, <3>4
    <3> QED BY <3>3, <3>4
  <2>5. missed' \in [MtJobs -> SUBSET MtRows] BY <2>1, <2>2
  <2> QED BY <1>7, <2>3, <2>4, <2>5, <1>f DEF PickRows
<1>8. ASSUME NEW j \in MtJobs, WriteDay(j) PROVE MtTypes'
  <2>1. PICK d \in DaysOf(rollup[j].picked) : rollup' = [rollup EXCEPT ![j].written = @ \cup {d}]
    BY <1>8 DEF WriteDay
  <2>2. d \in MtDays BY DEF DaysOf, MtDays
  <2> QED BY <1>8, <2>1, <2>2, <1>f DEF WriteDay
<1>9. ASSUME NEW j \in MtJobs, CommitRollup(j) PROVE MtTypes'
  <2>1. step[j] = "source_runs" BY <1>9 DEF CommitRollup, RollupInv
  <2>2. step' \in [MtJobs -> MtSteps] BY <1>9, <2>1, <1>a, <1>s DEF CommitRollup
  <2> QED BY <1>9, <2>2, <1>f, <1>n DEF CommitRollup
<1>10. ASSUME NEW j \in MtJobs, DaysDeadlock(j) PROVE MtTypes'
  <2>1. step[j] = "source_runs" BY <1>10 DEF DaysDeadlock, RollupInv
  <2>2. step' \in [MtJobs -> MtSteps] BY <1>10, <2>1, <1>a, <1>s DEF DaysDeadlock
  <2> QED BY <1>10, <2>2, <1>f, <1>n, <1>s DEF DaysDeadlock
<1>11. ASSUME NEW j \in MtJobs, OpenWindow(j) PROVE MtTypes'
  BY <1>11, <1>f, <1>n DEF OpenWindow, NoWindow, WindowRow, rollupVars
<1>12. ASSUME NEW j \in MtJobs, Assess(j) PROVE MtTypes'
  <2>1. PICK v \in BOOLEAN : window' = [window EXCEPT ![j].assessed = Append(@, v)] BY <1>12 DEF Assess
  <2>2. Append(window[j].assessed, v) \in Seq(BOOLEAN) BY DEF WindowRow
  <2> QED BY <1>12, <2>1, <2>2, <1>f DEF Assess, WindowRow, rollupVars
<1>13. ASSUME NEW j \in MtJobs, RaiseAlert(j) PROVE MtTypes'
  <2>1. PICK i \in Violations(window[j]) : window' = [window EXCEPT ![j].alerted = @ \cup {i}] BY <1>13 DEF RaiseAlert
  <2>2. i \in Nat BY DEF Violations, Checked, WindowRow
  <2> QED BY <1>13, <2>1, <2>2, <1>f DEF RaiseAlert, WindowRow, rollupVars
<1>14. ASSUME NEW j \in MtJobs, CompleteWindow(j) PROVE MtTypes'
  <2>1. step[j] \in StepNames BY <1>14, StepsInOrder DEF CompleteWindow
  <2> QED BY <1>14, <2>1, <1>a, <1>f DEF CompleteWindow, WindowRow, rollupVars
<1>15. CASE RowAges BY <1>15, <1>f DEF RowAges
<1>16. CASE UNCHANGED MaintenanceVars BY <1>16 DEF MaintenanceVars, rollupVars
<1> QED BY <1>1, <1>2, <1>3, <1>4, <1>5, <1>6, <1>7, <1>8, <1>9, <1>10, <1>11, <1>12, <1>13, <1>14, <1>15, <1>16
        DEF MaintenanceNext

\* A commit moves its rows into their days.
LEMMA CommitKeeps ==
    ASSUME MtTypes, RollupInv, RunsConserved, NEW j \in MtJobs, CommitRollup(j)
    PROVE  RunsConserved'
<1>1. rollup[j].picked \in SUBSET raw BY DEF CommitRollup, RollupInv
<1> SUFFICES ASSUME NEW d \in MtDays
             PROVE  daily'[d] = [runs |-> Cardinality({r \in MtRows \ raw' : MtDayOf[r] = d}),
                                 dropped |-> DroppedBy({r \in MtRows \ raw' : MtDayOf[r] = d})]
  BY DEF RunsConserved
<1> DEFINE gone == {r \in MtRows \ raw : MtDayOf[r] = d}
           more == {r \in rollup[j].picked : MtDayOf[r] = d}
<1>2. {r \in MtRows \ raw' : MtDayOf[r] = d} = gone \cup more BY <1>1 DEF CommitRollup, MtTypes
<1>3. gone \in SUBSET MtRows /\ more \in SUBSET MtRows /\ gone \cap more = {} BY <1>1 DEF MtTypes
<1>4. daily[d] = [runs |-> Cardinality(gone), dropped |-> DroppedBy(gone)] BY DEF RunsConserved
<1>5. AddedTo(daily[d], more) = [runs |-> Cardinality(gone \cup more), dropped |-> DroppedBy(gone \cup more)]
  BY <1>3, <1>4, DayAdds
<1>6. CASE d \in DaysOf(rollup[j].picked)
  <2>1. daily'[d] = AddedTo(daily[d], more) BY <1>6 DEF CommitRollup
  <2> QED BY <2>1, <1>2, <1>5
<1>7. CASE d \notin DaysOf(rollup[j].picked)
  <2>1. more = {} BY <1>7 DEF DaysOf
  <2>2. daily'[d] = daily[d] BY <1>7 DEF CommitRollup
  <2> QED BY <2>1, <2>2, <1>2, <1>4
<1> QED BY <1>6, <1>7

\* What a batch picks, none other holds; a short batch is all that was free.
LEMMA PickedFairly ==
    ASSUME MtTypes, NEW j \in MtJobs, NEW p \in SUBSET Pickable(j),
           Cardinality(p) = Min({Cardinality(Pickable(j)), MtBatch}), Cardinality(p) < MtBatch
    PROVE  p = Pickable(j)
<1>1. Pickable(j) \in SUBSET MtRows BY DEF Pickable, MtTypes
<1>2. IsFiniteSet(Pickable(j)) BY <1>1, MaintenanceAssumption, FS_Subset
<1>3. Cardinality(Pickable(j)) \in Nat BY <1>2, FS_CardinalityType
<1>4. \A m, n \in Nat : Min({m, n}) \in {m, n}
  <2> SUFFICES ASSUME NEW m \in Nat, NEW n \in Nat PROVE Min({m, n}) \in {m, n}
    OBVIOUS
  <2>1. \E x \in {m, n} : \A y \in {m, n} : x <= y
    <3>1. CASE m <= n BY <3>1
    <3>2. CASE n <= m BY <3>2
    <3> QED BY <3>1, <3>2
  <2> QED BY <2>1 DEF Min
<1>5. Cardinality(p) = Cardinality(Pickable(j)) BY <1>3, <1>4, MaintenanceAssumption
<1> QED BY <1>2, <1>5, FS_Subset

\* Every step keeps the rollups apart and the rows counted.
LEMMA RollupStep ==
    ASSUME MtTypes, RollupInv, RunsConserved, [MaintenanceNext]_MaintenanceVars
    PROVE  RollupInv' /\ RunsConserved'
<1> USE DEF MtTypes
<1>o. \A k \in MtJobs : rollup[k].open => step[k] = "source_runs" BY DEF RollupInv
<1>1. ASSUME NEW j \in MtJobs,
             Begin(j) \/ OtherStep(j) \/ RecordRun(j) \/ RecordFails(j) \/ JobDone(j)
             \/ OpenWindow(j) \/ Assess(j) \/ RaiseAlert(j) \/ CompleteWindow(j)
      PROVE  RollupInv' /\ RunsConserved'
  <2>1. /\ UNCHANGED <<raw, daily, rollup, missed>> /\ \A k \in MtJobs \ {j} : step'[k] = step[k]
        /\ step[j] = "source_runs" => step'[j] = "source_runs"
    BY <1>1 DEF Begin, OtherStep, RecordRun, RecordFails, JobDone, OpenWindow, Assess, RaiseAlert, CompleteWindow, StepEnds, rollupVars
  <2> QED BY <2>1, RollupRests
<1>2. ASSUME NEW j \in MtJobs, StepFails(j) \/ MtCrash(j) \/ DaysDeadlock(j)
      PROVE  RollupInv' /\ RunsConserved'
  <2>1. /\ UNCHANGED <<raw, daily>> /\ rollup' = [rollup EXCEPT ![j] = NoRollup] /\ missed' = [missed EXCEPT ![j] = {}]
        /\ \A k \in MtJobs \ {j} : step'[k] = step[k]
    BY <1>2 DEF StepFails, MtCrash, DaysDeadlock, StepEnds
  <2>2. RunsConserved' BY <2>1 DEF RunsConserved
  <2> QED BY <2>1, <2>2 DEF RollupInv, NoRollup
<1>3. ASSUME NEW j \in MtJobs, PickRows(j) PROVE RollupInv' /\ RunsConserved'
  <2>1. PICK p \in SUBSET Pickable(j) :
          /\ Cardinality(p) = Min({Cardinality(Pickable(j)), MtBatch})
          /\ missed' = [missed EXCEPT ![j] = Pickable(j) \ p]
          /\ IF p = {} THEN StepEnds(j) /\ UNCHANGED rollup
             ELSE rollup' = [rollup EXCEPT ![j] = [open |-> TRUE, picked |-> p, written |-> {}]] /\ UNCHANGED step
    BY <1>3 DEF PickRows
  <2>2. UNCHANGED <<raw, daily>> /\ step[j] = "source_runs" /\ ~rollup[j].open BY <1>3 DEF PickRows
  <2>3. RunsConserved' BY <2>2 DEF RunsConserved
  <2>4. CASE p = {}
    <3>1. \A k \in MtJobs \ {j} : step'[k] = step[k] /\ missed'[k] = missed[k] BY <2>1, <2>4 DEF StepEnds
    <3>2. UNCHANGED rollup BY <2>1, <2>4
    <3> QED BY <2>2, <2>3, <3>1, <3>2 DEF RollupInv
  <2>5. CASE p # {}
    <3>1. /\ rollup' = [rollup EXCEPT ![j] = [open |-> TRUE, picked |-> p, written |-> {}]] /\ UNCHANGED step
      BY <2>1, <2>5
    <3>2. p \subseteq raw /\ \A k \in MtJobs \ {j} : p \cap rollup[k].picked = {}
      BY DEF Pickable, LockedByOthers
    <3>3. Cardinality(p) < MtBatch => missed'[j] = {} BY <2>1, PickedFairly
    <3>4. /\ rollup'[j].open /\ rollup'[j].picked = p /\ \A k \in MtJobs \ {j} : rollup'[k] = rollup[k] /\ missed'[k] = missed[k]
      BY <2>1, <3>1
    <3> QED BY <2>2, <2>3, <3>1, <3>2, <3>3, <3>4 DEF RollupInv
  <2> QED BY <2>4, <2>5
<1>4. ASSUME NEW j \in MtJobs, WriteDay(j) PROVE RollupInv' /\ RunsConserved'
  <2>1. PICK d \in DaysOf(rollup[j].picked) : rollup' = [rollup EXCEPT ![j].written = @ \cup {d}]
    BY <1>4 DEF WriteDay
  <2>2. UNCHANGED <<raw, daily, step, missed>> BY <1>4 DEF WriteDay
  <2>3. RunsConserved' BY <2>2 DEF RunsConserved
  <2>4. rollup[j].picked # {} BY <2>1 DEF DaysOf
  <2>5. rollup[j].open BY <2>4 DEF RollupInv, NoRollup
  <2>6. \A k \in MtJobs : /\ rollup'[k].open = rollup[k].open /\ rollup'[k].picked = rollup[k].picked
                          /\ k # j => rollup'[k] = rollup[k]
    BY <2>1
  <2> QED BY <2>2, <2>3, <2>5, <2>6 DEF RollupInv
<1>5. ASSUME NEW j \in MtJobs, CommitRollup(j) PROVE RollupInv' /\ RunsConserved'
  <2>1. RunsConserved' BY <1>5, CommitKeeps
  <2>2. /\ raw' = raw \ rollup[j].picked /\ rollup' = [rollup EXCEPT ![j] = NoRollup] /\ missed' = missed
        /\ \A k \in MtJobs \ {j} : step'[k] = step[k]
    BY <1>5 DEF CommitRollup, StepEnds
  <2> QED BY <2>1, <2>2 DEF RollupInv, NoRollup
<1>6. CASE RowAges \/ UNCHANGED MaintenanceVars
  <2>1. UNCHANGED <<raw, daily, rollup, missed, step>> BY <1>6 DEF RowAges, MaintenanceVars, rollupVars
  <2> QED BY <2>1, RollupRests
<1> QED BY <1>1, <1>2, <1>3, <1>4, <1>5, <1>6 DEF MaintenanceNext

\* Every step keeps what the jobs have behind them.
LEMMA DoneStep ==
    ASSUME MtTypes, RollupInv, DoneInv, [MaintenanceNext]_MaintenanceVars
    PROVE  DoneInv'
<1> USE DEF MtTypes
<1> DEFINE Rest(j) == \A k \in MtJobs \ {j} : /\ step'[k] = step[k] /\ failures'[k] = failures[k]
                                              /\ missed'[k] = missed[k] /\ window'[k] = window[k]
\* A job's own part.
<1> DEFINE Own(j) ==
         /\ step'[j] \in {"admission_rule_hits", "bias_window", "record", "recorded", "completed"} /\ "source_runs" \notin failures'[j]
               => missed'[j] = {}
         /\ step'[j] \in {"record", "recorded", "completed"} /\ "bias_window" \notin failures'[j]
               => window'[j].status = "completed" /\ window'[j].alerted = Violations(window'[j])
         /\ step'[j] = "completed" => failures'[j] = {}
<1>0. ASSUME NEW j \in MtJobs, Rest(j), Own(j), UNCHANGED maintenanceState
      PROVE  DoneInv'
  <2>1. \A k \in MtJobs : Own(k) BY <1>0 DEF DoneInv
  <2> QED BY <1>0, <2>1 DEF DoneInv
<1>s. StepNames = {"compaction", "source_runs", "admission_rule_hits", "bias_window"} BY StepsInOrder
<1>1. ASSUME NEW j \in MtJobs, Begin(j) PROVE DoneInv'
  <2>1. Rest(j) /\ step'[j] = "compaction" /\ UNCHANGED maintenanceState
    BY <1>1 DEF Begin, rollupVars, DailySteps
  <2> QED BY <2>1, <1>0
<1>2. ASSUME NEW j \in MtJobs, OtherStep(j) PROVE DoneInv'
  <2>1. /\ Rest(j) /\ step[j] \in {"compaction", "admission_rule_hits"} /\ step'[j] = After(step[j])
        /\ UNCHANGED <<maintenanceState, failures, missed, window>>
    BY <1>2 DEF OtherStep, StepEnds, rollupVars
  <2>2. Own(j) BY <2>1, StepsInOrder DEF DoneInv
  <2> QED BY <2>1, <2>2, <1>0
<1>3. ASSUME NEW j \in MtJobs, StepFails(j) PROVE DoneInv'
  <2>1. /\ Rest(j) /\ step[j] \in StepNames /\ step'[j] = After(step[j]) /\ failures'[j] = failures[j] \cup {step[j]}
        /\ missed'[j] = {} /\ UNCHANGED maintenanceState
    BY <1>3 DEF StepFails, StepEnds
  <2>2. step'[j] \notin {"recorded", "completed"} /\ (step'[j] = "record" => "bias_window" \in failures'[j])
    BY <2>1, StepsInOrder
  <2>3. Own(j) BY <2>1, <2>2
  <2> QED BY <1>s, <2>1, <2>3, <1>0
<1>4. ASSUME NEW j \in MtJobs, RecordRun(j) PROVE DoneInv'
  <2>1. /\ Rest(j) /\ step[j] = "record" /\ step'[j] = "recorded" /\ UNCHANGED <<failures, missed, window>>
        /\ maintenanceState'.lastOk = IF failures[j] = {} THEN {Report(j)} ELSE maintenanceState.lastOk
    BY <1>4 DEF RecordRun, rollupVars
  <2>2. \A k \in MtJobs : Own(k) BY <2>1 DEF DoneInv
  <2>3. failures[j] = {} => Report(j).missed = {} /\ Report(j).window.status = "completed"
                            /\ Report(j).window.alerted = Violations(Report(j).window)
    BY <2>1 DEF DoneInv, Report
  <2>4. \A r \in maintenanceState'.lastOk :
           r.missed = {} /\ r.window.status = "completed" /\ r.window.alerted = Violations(r.window)
    BY <2>1, <2>3 DEF DoneInv
  <2> QED BY <2>2, <2>4 DEF DoneInv
<1>14. ASSUME NEW j \in MtJobs, JobDone(j) PROVE DoneInv'
  <2>1. /\ Rest(j) /\ step[j] = "recorded" /\ step'[j] = (IF failures[j] = {} THEN "completed" ELSE "failed")
        /\ UNCHANGED <<failures, missed, window, maintenanceState>>
    BY <1>14 DEF JobDone, rollupVars
  <2>2. Own(j) BY <2>1 DEF DoneInv
  <2> QED BY <2>1, <2>2, <1>0
<1>5. ASSUME NEW j \in MtJobs, RecordFails(j) \/ MtCrash(j) PROVE DoneInv'
  <2>1. Rest(j) /\ step'[j] \in {"queued", "failed"} /\ UNCHANGED maintenanceState
    BY <1>5 DEF RecordFails, MtCrash, rollupVars
  <2> QED BY <2>1, <1>0
<1>6. ASSUME NEW j \in MtJobs, PickRows(j) PROVE DoneInv'
  <2>1. PICK p \in SUBSET Pickable(j) :
          /\ Cardinality(p) = Min({Cardinality(Pickable(j)), MtBatch})
          /\ missed' = [missed EXCEPT ![j] = Pickable(j) \ p]
          /\ IF p = {} THEN StepEnds(j) /\ UNCHANGED rollup
             ELSE rollup' = [rollup EXCEPT ![j] = [open |-> TRUE, picked |-> p, written |-> {}]] /\ UNCHANGED step
    BY <1>6 DEF PickRows
  <2>2. step[j] = "source_runs" /\ UNCHANGED <<failures, window, maintenanceState>> BY <1>6 DEF PickRows
  <2>3. CASE p = {}
    <3>1. step' = [step EXCEPT ![j] = "admission_rule_hits"] BY <2>1, <2>2, <2>3, StepsInOrder DEF StepEnds
    <3>2. Cardinality(p) = 0 BY <2>3, FS_EmptySet
    <3>3. Cardinality(p) < MtBatch BY <3>2, MaintenanceAssumption
    <3>7. p = Pickable(j) BY <2>1, <3>3, PickedFairly
    <3>4. missed'[j] = {} BY <2>1, <3>7
    <3>5. Rest(j) BY <2>1, <2>2, <3>1
    <3>6. Own(j) BY <3>1, <3>4
    <3> QED BY <2>2, <3>5, <3>6, <1>0
  <2>4. CASE p # {}
    <3>1. UNCHANGED step BY <2>1, <2>4
    <3>2. Rest(j) BY <2>1, <2>2, <3>1
    <3> QED BY <2>2, <3>1, <3>2, <1>0
  <2> QED BY <2>3, <2>4
<1>7. ASSUME NEW j \in MtJobs, CommitRollup(j) PROVE DoneInv'
  <2>1. /\ step[j] = "source_runs" /\ (Cardinality(rollup[j].picked) < MtBatch => missed[j] = {})
        /\ UNCHANGED <<missed, failures, window, maintenanceState>>
    BY <1>7 DEF CommitRollup, RollupInv
  <2>2. /\ step' = [step EXCEPT ![j] = "admission_rule_hits"] \/ UNCHANGED step
        /\ Cardinality(rollup[j].picked) < MtBatch \/ UNCHANGED step
    BY <1>7, <2>1, StepsInOrder DEF CommitRollup, StepEnds
  <2>3. Rest(j) BY <2>1, <2>2
  <2>4. Own(j) BY <2>1, <2>2
  <2> QED BY <2>1, <2>3, <2>4, <1>0
<1>8. ASSUME NEW j \in MtJobs, DaysDeadlock(j) PROVE DoneInv'
  <2>1. step[j] = "source_runs" BY <1>8 DEF DaysDeadlock, RollupInv
  <2>2. /\ Rest(j) /\ step'[j] = "admission_rule_hits" /\ "source_runs" \in failures'[j] /\ UNCHANGED maintenanceState
    BY <1>8, <2>1, StepsInOrder DEF DaysDeadlock, StepEnds
  <2> QED BY <2>1, <2>2, <1>0
<1>9. ASSUME NEW j \in MtJobs, OpenWindow(j) \/ Assess(j) \/ RaiseAlert(j) PROVE DoneInv'
  <2>1. /\ Rest(j) /\ step[j] = "bias_window" /\ UNCHANGED <<step, failures, missed, maintenanceState>>
    BY <1>9 DEF OpenWindow, Assess, RaiseAlert, rollupVars
  <2>2. Own(j) BY <2>1 DEF DoneInv
  <2> QED BY <2>1, <2>2, <1>0
<1>10. ASSUME NEW j \in MtJobs, CompleteWindow(j) PROVE DoneInv'
  <2>1. /\ Rest(j) /\ step[j] = "bias_window" /\ step'[j] = "record" /\ UNCHANGED <<failures, missed, maintenanceState>>
        /\ window'[j] = [window[j] EXCEPT !.status = "completed"] /\ Violations(window[j]) = window[j].alerted
    BY <1>10, StepsInOrder DEF CompleteWindow, StepEnds, rollupVars
  <2>2. /\ window'[j].status = "completed" /\ window'[j].alerted = window[j].alerted
        /\ window'[j].assessed = window[j].assessed
    BY <2>1 DEF WindowRow
  <2>3. Violations(window'[j]) = Violations(window[j]) BY <2>2 DEF Violations, Checked
  <2>4. Own(j) BY <2>1, <2>2, <2>3 DEF DoneInv
  <2> QED BY <2>1, <2>4, <1>0
<1>11. ASSUME UNCHANGED <<step, failures, missed, window, maintenanceState>> PROVE DoneInv'
  BY <1>11 DEF DoneInv
<1>12. ASSUME NEW j \in MtJobs, WriteDay(j) PROVE DoneInv' BY <1>11, <1>12 DEF WriteDay
<1>13. CASE RowAges \/ UNCHANGED MaintenanceVars BY <1>11, <1>13 DEF RowAges, MaintenanceVars, rollupVars
<1> QED BY <1>1, <1>2, <1>3, <1>4, <1>5, <1>6, <1>7, <1>8, <1>9, <1>10, <1>12, <1>13, <1>14 DEF MaintenanceNext

\* The types of the daily job, for any jobs, rows, batches, checks and faults.
THEOREM MaintenanceTyped == MaintenanceSpec => []MaintenanceTypeOK
<1>1. MaintenanceInv => MaintenanceTypeOK
  <2> SUFFICES ASSUME MaintenanceInv PROVE MaintenanceTypeOK
    OBVIOUS
  <2>1. ASSUME NEW d \in MtDays
        PROVE  daily[d].runs \in 0 .. Cardinality(MtRows) /\ daily[d].dropped \in Nat \cup {NotRecorded}
    <3> DEFINE gone == {r \in MtRows \ raw : MtDayOf[r] = d}
    <3>1. daily[d] = [runs |-> Cardinality(gone), dropped |-> DroppedBy(gone)]
      BY DEF MaintenanceInv, RunsConserved
    <3>2. gone \in SUBSET MtRows OBVIOUS
    <3>3. Cardinality(gone) \in Nat /\ Cardinality(DroppedItems(gone)) \in Nat /\ Cardinality(MtRows) \in Nat
      BY <3>2, ItemsFinite
    <3>4. Cardinality(gone) <= Cardinality(MtRows) BY <3>2, FS_Subset, MaintenanceAssumption
    <3>5. DroppedBy(gone) \in Nat \cup {NotRecorded} BY <3>3 DEF DroppedBy
    <3> HIDE DEF gone
    <3> QED BY <3>1, <3>3, <3>4, <3>5
  <2> QED BY <2>1 DEF MaintenanceInv, MtTypes, MtSteps, WindowRow, Reports, MaintenanceTypeOK
<1>2. MaintenanceInv /\ [MaintenanceNext]_MaintenanceVars => MaintenanceInv'
  BY MtTyped, RollupStep, DoneStep DEF MaintenanceInv
<1> QED BY <1>1, <1>2, MaintenanceStarts, PTL DEF MaintenanceSpec

\* Whatever two daily jobs do at the same time, the rows of source_runs are there
\* or counted once, and a success is recorded only of a job whose rollup and
\* window did their work (src/src/workers/maintenance.worker.js).
THEOREM MaintenanceIsKept == MaintenanceSpec => []MaintenanceKept
<1>1. MaintenanceInv => MaintenanceKept
  <2> SUFFICES ASSUME MaintenanceInv PROVE MaintenanceKept
    OBVIOUS
  <2>1. OkIsEarned BY DEF MaintenanceInv, DoneInv, OkIsEarned
  <2> QED BY <2>1 DEF MaintenanceInv, DoneInv, MaintenanceKept
<1>2. MaintenanceInv /\ [MaintenanceNext]_MaintenanceVars => MaintenanceInv'
  BY MtTyped, RollupStep, DoneStep DEF MaintenanceInv
<1> QED BY <1>1, <1>2, MaintenanceStarts, PTL DEF MaintenanceSpec
=============================================================================
