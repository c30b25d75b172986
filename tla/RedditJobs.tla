----------------------------- MODULE RedditJobs ----------------------------
(***************************************************************************)
(* What Reddit is asked for besides posts: the deletion re-check and the   *)
(* discovery of subreddits, each run by one worker process at a time, and  *)
(* the request budget they share with the collection runs of every         *)
(* process.                                                                *)
(*                                                                         *)
(*   src/collectors/reddit/maintenance.js, budget.js, recheck.js,          *)
(*   api.js, discovery.js                                                  *)
(*                                                                         *)
(* Every statement and every request is a step. Times are in units of the  *)
(* budget's ten-minute window. A batch of the re-check is one post. (The   *)
(* gates in front of the jobs, and what a refusal does, are SourceGate's.) *)
(***************************************************************************)
EXTENDS Naturals, FiniteSets

CONSTANTS
    RjProcs,        \* worker processes
    RjPosts,        \* Reddit posts whose text is kept
    BudgetCap,      \* WINDOW_CAP
    Reserve,        \* what background jobs leave: runAllowance
    LeaseUnits,     \* LEASE_MS
    EveryUnits,     \* recheckHours, DISCOVERY_EVERY_HOURS
    LastUnit,       \* bound: time
    RjMaxCrashes    \* bound: crashes

Jobs == {"recheck", "discovery"}
Unset == 0              \* NULL: the time starts at 1

ASSUME RedditAssumption ==
    /\ BudgetCap \in Nat \ {0} /\ Reserve \in Nat
    /\ LeaseUnits \in Nat \ {0} /\ EveryUnits \in Nat \ {0}
    /\ LastUnit \in Nat \ {0} /\ RjMaxCrashes \in Nat

VARIABLES
    unit,           \* the time
    budget,         \* reddit_api_budget: start, used, blocked
    jobs,           \* reddit_maintenance: started, completed
    texts,          \* posts whose text is kept
    deletedThere,   \* posts that Reddit no longer returns
    \* process -> its maintenance tick
    rjAt,           \* "idle", "claim", "ask", "wait", "blank", "finish"
    job, asking,    \* the job, posts still to ask about
    toBlank,        \* posts found deleted
    complete,       \* no batch failed so far
    rjCrashes,
    \* history
    claimedAt,      \* when the process claimed its job
    goneBefore,     \* posts with text that Reddit had dropped by then
    overran,        \* a job was finished after its lease
    background      \* grants to background jobs in this window

rjRun == <<job, asking, toBlank, complete, claimedAt, goneBefore>>
RedditVars == <<unit, budget, jobs, texts, deletedThere, rjAt, rjRun, rjCrashes, overran, background>>

\* The type invariant of the budget, of the claims and of the jobs' runs.
RedditTypeOK ==
    /\ unit \in 1 .. LastUnit
    /\ budget \in [start : 0 .. LastUnit, used : 0 .. BudgetCap, blocked : 0 .. LastUnit + 1]
    /\ jobs \in [Jobs -> [started : 0 .. LastUnit, completed : 0 .. LastUnit]]
    /\ texts \subseteq RjPosts /\ deletedThere \subseteq RjPosts
    /\ rjAt \in [RjProcs -> {"idle", "claim", "ask", "wait", "blank", "finish"}]
    /\ job \in [RjProcs -> Jobs] /\ asking \in [RjProcs -> SUBSET RjPosts]
    /\ toBlank \in [RjProcs -> SUBSET RjPosts] /\ complete \in [RjProcs -> BOOLEAN]
    /\ rjCrashes \in 0 .. RjMaxCrashes /\ claimedAt \in [RjProcs -> 0 .. LastUnit]
    /\ goneBefore \in [RjProcs -> SUBSET RjPosts] /\ overran \in BOOLEAN /\ background \in Nat

RedditInit ==
    /\ unit = 1 /\ budget = [start |-> 1, used |-> 0, blocked |-> Unset]
    /\ jobs = [j \in Jobs |-> [started |-> Unset, completed |-> Unset]]
    /\ texts = RjPosts /\ deletedThere = {}
    /\ rjAt = [p \in RjProcs |-> "idle"] /\ job = [p \in RjProcs |-> "recheck"]
    /\ asking = [p \in RjProcs |-> {}] /\ toBlank = [p \in RjProcs |-> {}]
    /\ complete = [p \in RjProcs |-> TRUE] /\ rjCrashes = 0
    /\ claimedAt = [p \in RjProcs |-> 0] /\ goneBefore = [p \in RjProcs |-> {}]
    /\ overran = FALSE /\ background = 0

RjGoes(p, where) == rjAt' = [rjAt EXCEPT ![p] = where]

---------------------------------------------------------------------------
(* budget.js: one UPDATE grants a request, or none.                        *)

Rolled == budget.start + 1 <= unit
UsedNow == IF Rolled THEN 0 ELSE budget.used
\* Mutants: the reserve is not left; the cap is passed by one.
GrantableToAll(reserve) == budget.blocked <= unit /\ UsedNow < BudgetCap
GrantableOneMore(reserve) == budget.blocked <= unit /\ UsedNow + reserve <= BudgetCap

Grantable(reserve) == budget.blocked <= unit /\ UsedNow + reserve < BudgetCap

Granted == [budget EXCEPT !.used = UsedNow + 1, !.start = IF Rolled THEN unit ELSE @]
BackgroundNow == IF Rolled THEN 0 ELSE background

\* A collection run, of any process, asks for a request.
CollectorTakes ==
    /\ Grantable(0) /\ budget' = Granted /\ background' = BackgroundNow
    /\ UNCHANGED <<unit, jobs, texts, deletedThere, rjAt, rjRun, rjCrashes, overran>>

\* observe: Reddit says that next to nothing is left until its next window.
UpstreamSpent ==
    /\ \E p \in RjProcs : rjAt[p] = "wait"
    /\ budget' = [budget EXCEPT !.blocked = unit + 1]
    /\ UNCHANGED <<unit, jobs, texts, deletedThere, rjAt, rjRun, rjCrashes, overran, background>>

---------------------------------------------------------------------------
(* maintenance.js                                                          *)

StartTick(p) ==
    /\ rjAt[p] = "idle" /\ RjGoes(p, "claim") /\ job' = [job EXCEPT ![p] = "recheck"]
    /\ UNCHANGED <<unit, budget, jobs, texts, deletedThere, asking, toBlank, complete, claimedAt,
                   goneBefore, rjCrashes, overran, background>>

IsDue(j) == jobs[j].completed = Unset \/ jobs[j].completed + EveryUnits <= unit
\* Mutant: a job that is not finished may be claimed.
IsUnfinished(j) == jobs[j].completed = Unset \/ jobs[j].completed >= jobs[j].started

IsFree(j) ==
    \/ jobs[j].started = Unset \/ jobs[j].started + LeaseUnits <= unit
    \/ jobs[j].completed # Unset /\ jobs[j].completed >= jobs[j].started

\* What a job's run knew is forgotten.
Leaves(p, where, next) ==
    /\ RjGoes(p, where) /\ job' = [job EXCEPT ![p] = next]
    /\ asking' = [asking EXCEPT ![p] = {}] /\ toBlank' = [toBlank EXCEPT ![p] = {}]
    /\ complete' = [complete EXCEPT ![p] = TRUE]
    /\ claimedAt' = [claimedAt EXCEPT ![p] = 0] /\ goneBefore' = [goneBefore EXCEPT ![p] = {}]

\* The loop over the jobs goes on with the discovery, or is over.
NextJob(p) == IF job[p] = "recheck" THEN Leaves(p, "claim", "discovery") ELSE Leaves(p, "idle", "recheck")

ClaimJob(p) ==
    /\ rjAt[p] = "claim" /\ IsDue(job[p]) /\ IsFree(job[p]) /\ RjGoes(p, "ask")
    /\ jobs' = [jobs EXCEPT ![job[p]].started = unit]
    /\ asking' = [asking EXCEPT ![p] = IF job[p] = "recheck" THEN texts ELSE {}]
    /\ toBlank' = [toBlank EXCEPT ![p] = {}] /\ complete' = [complete EXCEPT ![p] = TRUE]
    /\ claimedAt' = [claimedAt EXCEPT ![p] = unit]
    /\ goneBefore' = [goneBefore EXCEPT ![p] = IF job[p] = "recheck" THEN texts \cap deletedThere ELSE {}]
    /\ UNCHANGED <<unit, budget, texts, deletedThere, job, rjCrashes, overran, background>>

NotClaimed(p) ==
    /\ rjAt[p] = "claim" /\ ~(IsDue(job[p]) /\ IsFree(job[p])) /\ NextJob(p)
    /\ UNCHANGED <<unit, budget, jobs, texts, deletedThere, rjCrashes, overran, background>>

\* grant(): a background job leaves the reserve; refused, it stops here.
JobTakes(p) ==
    /\ rjAt[p] = "ask" /\ (job[p] = "recheck" => asking[p] # {})
    /\ Grantable(Reserve) /\ RjGoes(p, "wait")
    /\ budget' = Granted /\ background' = BackgroundNow + 1
    /\ UNCHANGED <<unit, jobs, texts, deletedThere, rjRun, rjCrashes, overran>>

BudgetExhausted(p) ==
    /\ rjAt[p] = "ask" /\ (job[p] = "recheck" => asking[p] # {})
    /\ ~Grantable(Reserve) /\ RjGoes(p, "blank")
    /\ complete' = [complete EXCEPT ![p] = FALSE] /\ asking' = [asking EXCEPT ![p] = {}]
    /\ UNCHANGED <<unit, budget, jobs, texts, deletedThere, job, toBlank, claimedAt, goneBefore,
                   rjCrashes, overran, background>>

\* /api/info: what is not returned is taken for deleted.
InfoAnswered(p, post) ==
    /\ rjAt[p] = "wait" /\ job[p] = "recheck" /\ post \in asking[p]
    /\ asking' = [asking EXCEPT ![p] = @ \ {post}]
    /\ toBlank' = [toBlank EXCEPT ![p] = IF post \in deletedThere THEN @ \cup {post} ELSE @]
    /\ RjGoes(p, IF asking[p] = {post} THEN "blank" ELSE "ask")
    /\ UNCHANGED <<unit, budget, jobs, texts, deletedThere, job, complete, claimedAt, goneBefore,
                   rjCrashes, overran, background>>

\* Mutant: a failed batch does not make the run incomplete.
BatchForgotten(p, post) ==
    /\ rjAt[p] = "wait" /\ job[p] = "recheck" /\ post \in asking[p]
    /\ asking' = [asking EXCEPT ![p] = @ \ {post}]
    /\ RjGoes(p, IF asking[p] = {post} THEN "blank" ELSE "ask")
    /\ UNCHANGED <<unit, budget, jobs, texts, deletedThere, job, toBlank, complete, claimedAt, goneBefore,
                   rjCrashes, overran, background>>

\* A failed batch is left out; the next is asked for. So is one that was refused
\* with another status than those of JobRefused (a bot wall, an escalated 429).
BatchFailed(p, post) ==
    /\ rjAt[p] = "wait" /\ job[p] = "recheck" /\ post \in asking[p]
    /\ asking' = [asking EXCEPT ![p] = @ \ {post}] /\ complete' = [complete EXCEPT ![p] = FALSE]
    /\ RjGoes(p, IF asking[p] = {post} THEN "blank" ELSE "ask")
    /\ UNCHANGED <<unit, budget, jobs, texts, deletedThere, job, toBlank, claimedAt, goneBefore,
                   rjCrashes, overran, background>>

\* A rate limit or a hold stops the job; what was found is still blanked.
JobLimited(p) ==
    /\ rjAt[p] = "wait" /\ RjGoes(p, "blank")
    /\ asking' = [asking EXCEPT ![p] = {}] /\ complete' = [complete EXCEPT ![p] = FALSE]
    /\ UNCHANGED <<unit, budget, jobs, texts, deletedThere, job, toBlank, claimedAt, goneBefore,
                   rjCrashes, overran, background>>

\* A refusal that is thrown (401, 403 or 451; in discovery also any a search met,
\* a bot wall and an escalation): nothing is blanked, and the other job is not run.
JobRefused(p) ==
    /\ rjAt[p] = "wait" /\ Leaves(p, "idle", "recheck")
    /\ jobs' = [jobs EXCEPT ![job[p]].started = Unset]
    /\ overran' = (overran \/ claimedAt[p] + LeaseUnits <= unit)
    /\ UNCHANGED <<unit, budget, texts, deletedThere, rjCrashes, background>>

\* Discovery: another search or lookup, or the last one; a lookup may have failed.
Discovered(p) ==
    /\ rjAt[p] = "wait" /\ job[p] = "discovery" /\ RjGoes(p, "finish")
    /\ UNCHANGED <<unit, budget, jobs, texts, deletedThere, rjRun, rjCrashes, overran, background>>

SearchOn(p) ==
    /\ rjAt[p] = "wait" /\ job[p] = "discovery" /\ RjGoes(p, "ask")
    /\ UNCHANGED <<unit, budget, jobs, texts, deletedThere, rjRun, rjCrashes, overran, background>>

\* With no text kept there is nothing to ask.
NothingToAsk(p) ==
    /\ rjAt[p] = "ask" /\ job[p] = "recheck" /\ asking[p] = {} /\ RjGoes(p, "blank")
    /\ UNCHANGED <<unit, budget, jobs, texts, deletedThere, rjRun, rjCrashes, overran, background>>

BlankPosts(p) ==
    /\ rjAt[p] = "blank" /\ RjGoes(p, "finish")
    /\ texts' = texts \ toBlank[p]
    /\ UNCHANGED <<unit, budget, jobs, deletedThere, rjRun, rjCrashes, overran, background>>

\* An incomplete run releases the claim, whoever holds it by now.
FinishJob(p) ==
    /\ rjAt[p] = "finish" /\ NextJob(p)
    /\ jobs' = [jobs EXCEPT ![job[p]] =
                  IF complete[p] THEN [@ EXCEPT !.completed = unit] ELSE [@ EXCEPT !.started = Unset]]
    /\ overran' = (overran \/ claimedAt[p] + LeaseUnits <= unit)
    /\ UNCHANGED <<unit, budget, texts, deletedThere, rjCrashes, background>>

RjCrash(p) ==
    /\ rjAt[p] # "idle" /\ rjCrashes < RjMaxCrashes /\ rjCrashes' = rjCrashes + 1
    /\ Leaves(p, "idle", "recheck")
    /\ UNCHANGED <<unit, budget, jobs, texts, deletedThere, overran, background>>

---------------------------------------------------------------------------

DeletedUpstream(post) ==
    /\ post \notin deletedThere /\ deletedThere' = deletedThere \cup {post}
    /\ UNCHANGED <<unit, budget, jobs, texts, rjAt, rjRun, rjCrashes, overran, background>>

UnitPasses ==
    /\ unit < LastUnit /\ unit' = unit + 1
    /\ UNCHANGED <<budget, jobs, texts, deletedThere, rjAt, rjRun, rjCrashes, overran, background>>

RedditNext ==
    \/ CollectorTakes \/ UpstreamSpent \/ UnitPasses
    \/ \E post \in RjPosts : DeletedUpstream(post)
    \/ \E p \in RjProcs :
        \/ StartTick(p) \/ ClaimJob(p) \/ NotClaimed(p) \/ JobTakes(p) \/ BudgetExhausted(p)
        \/ \E post \in RjPosts : InfoAnswered(p, post) \/ BatchFailed(p, post)
        \/ JobLimited(p) \/ JobRefused(p) \/ Discovered(p) \/ SearchOn(p) \/ NothingToAsk(p)
        \/ BlankPosts(p) \/ FinishJob(p) \/ RjCrash(p)

RedditSpec == RedditInit /\ [][RedditNext]_RedditVars

---------------------------------------------------------------------------
(* Properties.                                                             *)

Running(p) == rjAt[p] \in {"ask", "wait", "blank", "finish"}

\* Two processes run one job only if the lease of one is over, or if some run
\* outlived its own: it then releases a claim that is another's (finishJob).
OneRunner ==
    \A p, q \in RjProcs :
        p # q /\ Running(p) /\ Running(q) /\ job[p] = job[q]
            => \/ overran
               \/ claimedAt[p] + LeaseUnits <= unit \/ claimedAt[q] + LeaseUnits <= unit

\* The background jobs of all processes together leave a collection run its
\* room in every window, the first request of a window included, and nobody
\* goes over the cap (budget.js).
RoomForCollection ==
    /\ background + Reserve <= BudgetCap \/ background = 0
    /\ budget.used <= BudgetCap

\* A re-check that is marked complete has blanked every post that Reddit had
\* dropped before it began (recheck.js): a post it could not ask about makes
\* it incomplete, to be run again at the next tick.
RecheckThorough ==
    [][\A p \in RjProcs :
         FinishJob(p) /\ job[p] = "recheck" /\ complete[p] => goneBefore[p] \cap texts = {}]_RedditVars
=============================================================================
