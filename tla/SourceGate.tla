----------------------------- MODULE SourceGate ----------------------------
(***************************************************************************)
(* When pulse-of-ai may ask one source: its refused state and probation,   *)
(* the alert about it, its kill switches, and the runs that read them.     *)
(*                                                                         *)
(*   src/collectors/runner.js, refusal.js, state.js                        *)
(*   src/collectors/source-alerts.js, source-health.js                     *)
(*   src/collectors/reddit/maintenance.js                                  *)
(*   scripts/source-admin.js                                               *)
(*                                                                         *)
(* Sources share none of this, so the module has one. Each statement or    *)
(* transaction is a step. Refusals are numbered in the order they are      *)
(* recorded; the number stands for the refusal's time.                     *)
(***************************************************************************)
EXTENDS Naturals, FiniteSets

CONSTANTS
    Runs,           \* runCollection calls: scheduled and refresh runs overlap
    Passes,         \* Reddit maintenance passes
    Evaluators,     \* worker processes' source-health evaluations
    NumRoutes,
    MaxRefusals,    \* bound: refusals the source gives
    Resets,         \* the manual resets the operator uses: "env", "admin"
    MaxOps,         \* bound: operator actions
    Faults,
    MaxFaults       \* bound: faults

Workers == Runs \cup Passes
Routes == 1 .. NumRoutes
Source == 0                     \* the source's own switch, beside its routes'
Switches == Routes \cup {Source}

FaultKinds == {"error",     \* a route fails
               "held",      \* a rate-limit hold is on
               "store",     \* an item is not stored, or not queued
               "read",      \* the switches cannot be read
               "throw"}     \* a database error escapes, or the process dies

ASSUME RoutesAssumption == NumRoutes \in Nat \ {0}
ASSUME BoundsAssumption == MaxRefusals \in Nat /\ MaxOps \in Nat /\ MaxFaults \in Nat
ASSUME KindsAssumption == Faults \subseteq FaultKinds /\ Resets \subseteq {"env", "admin"}
ASSUME WorkersAssumption == IsFiniteSet(Workers) /\ Runs \cap Passes = {}

VARIABLES
    \* source_collection_state
    denied,         \* access_denied_at: the standing refusal
    cooling,        \* refused_until is ahead
    count,          \* refusal_count
    probation,      \* probation_until: none, ahead ("on"), past ("over")
    last,           \* last_refused_at
    due,            \* the poll interval has passed since last_attempt_at
    alert,          \* open source_refused alert: the count in its details, or 0
    off,            \* the kill switches that are on
    \* the source, the operator
    heard,          \* runs that the source has refused
    said,           \* refusals recorded
    swallowed,      \* history: refusals a maintenance pass took for a failed request
    envReset,       \* SOURCE_<SLUG>_RESET, approved: the last refusal it covers
    approved,       \* history: the last refusal any reset covers
    ops, left,      \* operator actions and faults that may still come
    \* runs and passes
    pc,
    env,            \* envReset as its process has it
    seen,           \* the refusal columns it read, and what the gate said
    todo,           \* routes not yet fetched
    fetching,       \* the route being fetched, or 0
    since,          \* history: switches on ever since it started, or its last route did
    res,            \* what its routes gave: "ok", "refused", "failed"
    mine,           \* the count of the refusal it recorded
    \* evaluators
    evPc, evRow, evOpen

rowVars == <<denied, cooling, count, probation, last>>
worldVars == <<heard, said, swallowed>>
opVars == <<envReset, approved, ops>>
runVars == <<pc, env, seen, todo, fetching, since, res, mine>>
evVars == <<evPc, evRow, evOpen>>
vars == <<rowVars, due, alert, off, worldVars, opVars, left, runVars, evVars>>

NotSeen == [denied |-> 0, count |-> 0, probation |-> "none", gate |-> "none"]
Seen == [denied : Nat, count : Nat, probation : {"none", "on", "over"},
         gate : {"none", "probe", "reset"}]

Pcs == {"idle", "routes", "gate", "reset", "claim", "recheck", "recheckRoute", "begin",
        "fetching", "jobs", "end", "record", "open", "escalate", "endCooldown", "resolve", "decay"}

RowsOK ==
    /\ denied \in Nat /\ count \in Nat /\ last \in Nat /\ alert \in Nat
    /\ cooling \in BOOLEAN /\ due \in BOOLEAN
    /\ probation \in {"none", "on", "over"}
    /\ off \subseteq Switches

WorldOK ==
    /\ heard \in 0 .. MaxRefusals /\ said \in Nat /\ swallowed \in Nat
    /\ envReset \in Nat /\ approved \in Nat
    /\ ops \in 0 .. MaxOps /\ left \in 0 .. MaxFaults

WorkersOK ==
    /\ pc \in [Workers -> Pcs]
    /\ env \in [Workers -> Nat]
    /\ seen \in [Workers -> Seen]
    /\ todo \in [Workers -> SUBSET Routes]
    /\ fetching \in [Workers -> Routes \cup {0}]
    /\ since \in [Workers -> SUBSET Switches]
    /\ res \in [Workers -> SUBSET {"ok", "refused", "failed"}]
    /\ mine \in [Workers -> Nat]

EvaluatorsOK ==
    /\ evPc \in [Evaluators -> {"idle", "alerts", "routes", "act"}]
    /\ evRow \in [Evaluators -> [count : Nat, refused : BOOLEAN]]
    /\ evOpen \in [Evaluators -> BOOLEAN]

TypeOK == RowsOK /\ WorldOK /\ WorkersOK /\ EvaluatorsOK

Init ==
    /\ denied = 0 /\ cooling = FALSE /\ count = 0 /\ probation = "none" /\ last = 0
    /\ due = TRUE /\ alert = 0 /\ off = {}
    /\ heard = 0 /\ said = 0 /\ swallowed = 0
    /\ envReset = 0 /\ approved = 0 /\ ops = MaxOps /\ left = MaxFaults
    /\ pc = [w \in Workers |-> "idle"]
    /\ env = [w \in Workers |-> 0]
    /\ seen = [w \in Workers |-> NotSeen]
    /\ todo = [w \in Workers |-> {}]
    /\ fetching = [w \in Workers |-> 0]
    /\ since = [w \in Workers |-> {}]
    /\ res = [w \in Workers |-> {}]
    /\ mine = [w \in Workers |-> 0]
    /\ evPc = [e \in Evaluators |-> "idle"]
    /\ evRow = [e \in Evaluators |-> [count |-> 0, refused |-> FALSE]]
    /\ evOpen = [e \in Evaluators |-> FALSE]

Spend(k) == k \in Faults /\ left > 0 /\ left' = left - 1

Goes(w, p) == pc' = [pc EXCEPT ![w] = p]

\* The worker is done with the source; what it knew is gone.
Stops(w) ==
    /\ Goes(w, "idle")
    /\ env' = [env EXCEPT ![w] = 0]
    /\ seen' = [seen EXCEPT ![w] = NotSeen]
    /\ todo' = [todo EXCEPT ![w] = {}]
    /\ fetching' = [fetching EXCEPT ![w] = 0]
    /\ since' = [since EXCEPT ![w] = {}]
    /\ res' = [res EXCEPT ![w] = {}]
    /\ mine' = [mine EXCEPT ![w] = 0]

\* The worker goes on at p, with nothing else of it changed.
OnlyGoes(w, p) ==
    /\ Goes(w, p)
    /\ UNCHANGED <<env, seen, todo, fetching, since, res, mine>>

-----------------------------------------------------------------------------
(***************************************************************************)
(* The gates a run passes before its first request (runner.js)             *)
(***************************************************************************)
\* The run starts, in a process that has the newest reset date or none, and reads
\* the source's switch (dbKillSwitch).
StartRun(w) ==
    /\ pc[w] = "idle" /\ Source \notin off
    /\ Goes(w, "routes")
    /\ \E reset \in {0, envReset} : env' = [env EXCEPT ![w] = reset]
    /\ since' = [since EXCEPT ![w] = off]
    /\ UNCHANGED <<rowVars, due, alert, off, worldVars, opVars, left,
                   seen, todo, fetching, res, mine, evVars>>

\* routeKillSwitches: a route switched off is never built.
ReadRouteSwitches(w) ==
    /\ pc[w] = "routes"
    /\ IF Routes \subseteq off
       THEN Stops(w)
       ELSE /\ Goes(w, "gate")
            /\ todo' = [todo EXCEPT ![w] = Routes \ off]
            /\ UNCHANGED <<env, seen, fetching, since, res, mine>>
    /\ UNCHANGED <<rowVars, due, alert, off, worldVars, opVars, left, evVars>>

\* envReset: the approved reset date is at or after the refusal.
EnvReset(w, refusal) == refusal # 0 /\ refusal <= env[w]

\* refusalGate
GateState(w) ==
    IF denied = 0
    THEN IF count > 0 /\ probation = "on" /\ EnvReset(w, last) THEN "reset" ELSE "none"
    ELSE IF EnvReset(w, denied) THEN "reset"
         ELSE IF cooling THEN "cooldown" ELSE "probe"

\* Mutant: the run goes on whatever the gate says.
ReadOnly(w) ==
    /\ pc[w] = "gate"
    /\ seen' = [seen EXCEPT ![w] = [denied |-> denied, count |-> count,
                                   probation |-> probation, gate |-> GateState(w)]]
    /\ Goes(w, IF w \in Passes THEN "jobs" ELSE "claim")
    /\ env' = [env EXCEPT ![w] = 0]
    /\ UNCHANGED <<todo, fetching, since, res, mine>>
    /\ UNCHANGED <<rowVars, due, alert, off, worldVars, opVars, left, evVars>>

\* The cooldown is waited for; a maintenance pass leaves a reset to the runs.
ReadRefusal(w) ==
    /\ pc[w] = "gate"
    /\ IF GateState(w) = "cooldown"
       THEN Stops(w)
       ELSE /\ seen' = [seen EXCEPT ![w] = [denied |-> denied, count |-> count,
                                            probation |-> probation, gate |-> GateState(w)]]
            /\ Goes(w, IF w \in Passes THEN "jobs"
                       ELSE IF GateState(w) = "reset" THEN "reset" ELSE "claim")
            /\ env' = [env EXCEPT ![w] = 0]
            /\ UNCHANGED <<todo, fetching, since, res, mine>>
    /\ UNCHANGED <<rowVars, due, alert, off, worldVars, opVars, left, evVars>>

\* clearRefusal, with its alert, in one transaction.
ClearRefusal ==
    /\ denied' = 0 /\ cooling' = FALSE /\ count' = 0 /\ probation' = "none" /\ last' = 0
    /\ alert' = 0

ResetByEnv(w) ==
    /\ pc[w] = "reset"
    /\ ClearRefusal
    /\ OnlyGoes(w, "claim")
    /\ UNCHANGED <<due, off, worldVars, opVars, left, evVars>>

\* claim: one run per poll interval (none while every route is held).
Claim(w) ==
    /\ pc[w] = "claim"
    /\ \/ due /\ due' = FALSE /\ OnlyGoes(w, "begin") /\ UNCHANGED left
       \/ ~due /\ Stops(w) /\ UNCHANGED <<due, left>>
       \/ Spend("held") /\ Stops(w) /\ UNCHANGED due
    /\ UNCHANGED <<rowVars, alert, off, worldVars, opVars, evVars>>

-----------------------------------------------------------------------------
(***************************************************************************)
(* The routes, in order; the switches are read again before every route    *)
(* after the first (stillOpen).                                            *)
(***************************************************************************)
\* The routes are taken in one order, the registry's.
NextRoute(w) == CHOOSE x \in todo[w] : TRUE

\* Mutant: the switches are not read again.
NextUnchecked(routes) == IF routes = {} THEN "end" ELSE "begin"

\* Where the run goes with these routes left.
NextPc(routes) == IF routes = {} THEN "end" ELSE "recheck"

Skip(w) ==
    LET rest == todo[w] \ {NextRoute(w)} IN
    /\ Goes(w, NextPc(rest))
    /\ todo' = [todo EXCEPT ![w] = rest]
    /\ UNCHANGED <<env, seen, fetching, since, res, mine>>

RecheckSwitch(w) ==
    /\ pc[w] = "recheck"
    /\ \/ UNCHANGED left /\ IF Source \in off THEN Skip(w) ELSE OnlyGoes(w, "recheckRoute")
       \/ Spend("read") /\ Skip(w)
    /\ UNCHANGED <<rowVars, due, alert, off, worldVars, opVars, evVars>>

RecheckRoute(w) ==
    /\ pc[w] = "recheckRoute"
    /\ \/ UNCHANGED left /\ IF NextRoute(w) \in off THEN Skip(w) ELSE OnlyGoes(w, "begin")
       \/ Spend("read") /\ Skip(w)
    /\ UNCHANGED <<rowVars, due, alert, off, worldVars, opVars, evVars>>

BeginRoute(w) ==
    /\ pc[w] = "begin"
    /\ Goes(w, "fetching")
    /\ fetching' = [fetching EXCEPT ![w] = NextRoute(w)]
    /\ since' = [since EXCEPT ![w] = off]
    /\ todo' = [todo EXCEPT ![w] = @ \ {NextRoute(w)}]
    /\ UNCHANGED <<rowVars, due, alert, off, worldVars, opVars, left, env, seen, res, mine, evVars>>

\* What a route gave is added to the run's, which goes on at p.
RouteGave(w, what, p) ==
    /\ pc[w] = "fetching"
    /\ Goes(w, p)
    /\ fetching' = [fetching EXCEPT ![w] = 0]
    /\ res' = [res EXCEPT ![w] = @ \cup what]
    /\ UNCHANGED <<rowVars, due, alert, off, said, opVars, env, seen, todo, since, mine, evVars>>

RouteOk(w) ==
    /\ w \in Runs
    /\ RouteGave(w, {"ok"}, NextPc(todo[w]))
    /\ UNCHANGED <<heard, swallowed, left>>

\* The source refuses a request: of the whole route, or of one feed of several.
RouteRefused(w) ==
    /\ w \in Runs
    /\ "refused" \in res[w] \/ heard < MaxRefusals
    /\ \E more \in {{}, {"ok"}} : RouteGave(w, {"refused"} \cup more, NextPc(todo[w]))
    /\ heard' = IF "refused" \in res[w] THEN heard ELSE heard + 1
    /\ UNCHANGED <<swallowed, left>>

RouteFails(w) ==
    /\ w \in Runs
    /\ \/ Spend("error") /\ RouteGave(w, {}, NextPc(todo[w]))
       \/ Spend("held") /\ RouteGave(w, {}, NextPc(todo[w]))
       \/ Spend("store") /\ RouteGave(w, {"ok", "failed"}, NextPc(todo[w]))
    /\ UNCHANGED <<heard, swallowed>>

\* The run throws, or its process dies: the rest of the run is gone.
RunThrows(w) ==
    /\ pc[w] # "idle"
    /\ Spend("throw")
    /\ Stops(w)
    /\ UNCHANGED <<rowVars, due, alert, off, worldVars, opVars, evVars>>

-----------------------------------------------------------------------------
(***************************************************************************)
(* Reddit maintenance: deletion re-check, then discovery, under the gate   *)
(* read once. (Any number of requests, not two jobs of so many each.)      *)
(***************************************************************************)
BeginJob(w) ==
    /\ pc[w] = "jobs"
    /\ \/ /\ Goes(w, "fetching")
          /\ fetching' = [fetching EXCEPT ![w] = NextRoute(w)]
          /\ UNCHANGED <<env, seen, todo, since, res, mine>>
       \/ Stops(w)
    /\ UNCHANGED <<rowVars, due, alert, off, worldVars, opVars, left, evVars>>

\* A refusal that the job throws on ends the pass and is recorded: one of status
\* 401, 403 or 451 (in discovery, a bot wall and an escalated rate limit too). Any
\* other is taken for a failed batch or lookup, and the pass goes on asking:
\* nothing is recorded (maintenance.js says that the refused state applies).
JobEnds(w) ==
    /\ w \in Passes
    /\ UNCHANGED left
    /\ \/ RouteGave(w, {}, "jobs") /\ UNCHANGED <<heard, swallowed>>
       \/ /\ heard < MaxRefusals /\ heard' = heard + 1
          /\ \/ RouteGave(w, {"refused"}, "record") /\ UNCHANGED swallowed
             \/ RouteGave(w, {}, "jobs") /\ swallowed' = swallowed + 1

-----------------------------------------------------------------------------
(***************************************************************************)
(* What the run writes about the refusal (runner.js, state.js)             *)
(***************************************************************************)
\* Mutant: only a run without a working route is refused.
RefusedAltogether(w) == "refused" \in res[w] /\ "ok" \notin res[w]

\* Any refused route refuses the source.
Refused(w) == "refused" \in res[w]

RunOk(w) == "ok" \in res[w] /\ "refused" \notin res[w] /\ "failed" \notin res[w]

\* It probed the refusal it read; or it read a count to decay, at the latest
\* when probationOver held of it already.
Probed(w) == RunOk(w) /\ seen[w].denied # 0 /\ seen[w].gate = "probe"
MayDecay(w) == RunOk(w) /\ seen[w].denied = 0 /\ seen[w].count > 0
MustDecay(w) == MayDecay(w) /\ seen[w].probation # "on"

EndRun(w) ==
    /\ pc[w] = "end"
    /\ \/ Refused(w) /\ OnlyGoes(w, "record")
       \/ Probed(w) /\ OnlyGoes(w, "endCooldown")
       \/ MayDecay(w) /\ OnlyGoes(w, "decay")
       \/ ~Refused(w) /\ ~Probed(w) /\ ~MustDecay(w) /\ Stops(w)
    /\ UNCHANGED <<rowVars, due, alert, off, worldVars, opVars, left, evVars>>

\* The count a new refusal continues from.
PriorCount == IF denied = 0 /\ probation # "on" THEN 0 ELSE count

\* recordRefusal's UPDATE
RecordRefusal(w) ==
    /\ pc[w] = "record"
    /\ said' = said + 1
    /\ denied' = said + 1 /\ last' = said + 1
    /\ cooling' = TRUE
    /\ count' = PriorCount + 1
    /\ probation' = "none"
    /\ mine' = [mine EXCEPT ![w] = PriorCount + 1]
    /\ res' = [res EXCEPT ![w] = {}]
    /\ Goes(w, "open")
    /\ UNCHANGED <<due, alert, off, heard, swallowed, opVars, left, env, seen, todo, fetching, since, evVars>>

\* openSourceAlert: nothing happens while one is open.
OpenAlert(w) ==
    /\ pc[w] = "open"
    /\ IF alert = 0 THEN alert' = mine[w] /\ Stops(w)
                    ELSE OnlyGoes(w, "escalate") /\ UNCHANGED alert
    /\ UNCHANGED <<rowVars, due, off, worldVars, opVars, left, evVars>>

\* escalateSourceAlert
EscalateAlert(w) ==
    /\ pc[w] = "escalate"
    /\ alert' = IF alert = 0 THEN 0 ELSE mine[w]
    /\ Stops(w)
    /\ UNCHANGED <<rowVars, due, off, worldVars, opVars, left, evVars>>

\* Mutant: the row need not be at the refusal that was probed.
EndAnyCooldown(w) ==
    /\ pc[w] = "endCooldown"
    /\ IF denied # 0
       THEN /\ denied' = 0 /\ cooling' = FALSE /\ probation' = "on"
            /\ OnlyGoes(w, "resolve")
       ELSE UNCHANGED <<denied, cooling, probation>> /\ Stops(w)
    /\ UNCHANGED <<count, last, due, alert, off, worldVars, opVars, left, evVars>>

\* endCooldown: only the refusal that was probed; the count is kept.
EndCooldown(w) ==
    /\ pc[w] = "endCooldown"
    /\ IF denied # 0 /\ denied = seen[w].denied
       THEN /\ denied' = 0 /\ cooling' = FALSE /\ probation' = "on"
            /\ OnlyGoes(w, "resolve")
       ELSE UNCHANGED <<denied, cooling, probation>> /\ Stops(w)
    /\ UNCHANGED <<count, last, due, alert, off, worldVars, opVars, left, evVars>>

ResolveAlert(w) ==
    /\ pc[w] = "resolve"
    /\ alert' = 0
    /\ Stops(w)
    /\ UNCHANGED <<rowVars, due, off, worldVars, opVars, left, evVars>>

\* Mutant: an ended probation does not count as over.
DecayLegacy(w) ==
    /\ pc[w] = "decay"
    /\ IF denied = 0 /\ count > 0 /\ probation = "none"
       THEN count' = 0 /\ probation' = "none" /\ last' = 0
       ELSE UNCHANGED <<count, probation, last>>
    /\ Stops(w)
    /\ UNCHANGED <<denied, cooling, due, alert, off, worldVars, opVars, left, evVars>>

\* decayRefusal, guarded on the row as it is now.
DecayRefusal(w) ==
    /\ pc[w] = "decay"
    /\ IF denied = 0 /\ count > 0 /\ probation # "on"
       THEN count' = 0 /\ probation' = "none" /\ last' = 0
       ELSE UNCHANGED <<count, probation, last>>
    /\ Stops(w)
    /\ UNCHANGED <<denied, cooling, due, alert, off, worldVars, opVars, left, evVars>>

-----------------------------------------------------------------------------
(***************************************************************************)
(* evaluateSourceHealth, every 30 s in every worker process: the rows, the *)
(* open alerts and the route switches are read one after the other, then   *)
(* the alert is opened or resolved.                                        *)
(***************************************************************************)
EvalRow(e) ==
    /\ evPc[e] = "idle"
    /\ evPc' = [evPc EXCEPT ![e] = "alerts"]
    /\ evRow' = [evRow EXCEPT ![e] = [count |-> count, refused |-> denied # 0 /\ Source \notin off]]
    /\ UNCHANGED <<rowVars, due, alert, off, worldVars, opVars, left, runVars, evOpen>>

EvalAlerts(e) ==
    /\ evPc[e] = "alerts"
    /\ evPc' = [evPc EXCEPT ![e] = "routes"]
    /\ evOpen' = [evOpen EXCEPT ![e] = alert # 0]
    /\ UNCHANGED <<rowVars, due, alert, off, worldVars, opVars, left, runVars, evRow>>

\* A source with every route switched off is not collecting.
EvalRoutes(e) ==
    /\ evPc[e] = "routes"
    /\ evPc' = [evPc EXCEPT ![e] = "act"]
    /\ evRow' = [evRow EXCEPT ![e].refused = @ /\ ~(Routes \subseteq off)]
    /\ UNCHANGED <<rowVars, due, alert, off, worldVars, opVars, left, runVars, evOpen>>

\* Mutant: a missing alert is opened, a left-over one stays.
EvalOpensOnly(e) ==
    /\ evPc[e] = "act"
    /\ evPc' = [evPc EXCEPT ![e] = "idle"]
    /\ alert' = IF evRow[e].refused /\ ~evOpen[e] /\ alert = 0 THEN evRow[e].count ELSE alert
    /\ evRow' = [evRow EXCEPT ![e] = [count |-> 0, refused |-> FALSE]]
    /\ evOpen' = [evOpen EXCEPT ![e] = FALSE]
    /\ UNCHANGED <<rowVars, due, off, worldVars, opVars, left, runVars>>

EvalAct(e) ==
    /\ evPc[e] = "act"
    /\ evPc' = [evPc EXCEPT ![e] = "idle"]
    /\ alert' = IF evRow[e].refused /\ ~evOpen[e] /\ alert = 0 THEN evRow[e].count
                ELSE IF ~evRow[e].refused /\ evOpen[e] THEN 0
                ELSE alert
    /\ evRow' = [evRow EXCEPT ![e] = [count |-> 0, refused |-> FALSE]]
    /\ evOpen' = [evOpen EXCEPT ![e] = FALSE]
    /\ UNCHANGED <<rowVars, due, off, worldVars, opVars, left, runVars>>

-----------------------------------------------------------------------------
(***************************************************************************)
(* The operator (source-admin.js, the environment), the source, time       *)
(***************************************************************************)
SwitchOff(s) ==
    /\ s \in Switches \ off /\ ops > 0
    /\ ops' = ops - 1
    /\ off' = off \cup {s}
    /\ UNCHANGED <<rowVars, due, alert, worldVars, envReset, approved, left, runVars, evVars>>

SwitchOn(s) ==
    /\ s \in off /\ ops > 0
    /\ ops' = ops - 1
    /\ off' = off \ {s}
    /\ since' = [w \in Workers |-> since[w] \ {s}]
    /\ UNCHANGED <<rowVars, due, alert, worldVars, envReset, approved, left,
                   pc, env, seen, todo, fetching, res, mine, evVars>>

\* npm run source:reset
AdminReset ==
    /\ "admin" \in Resets /\ ops > 0
    /\ ops' = ops - 1
    /\ ClearRefusal
    /\ approved' = said
    /\ UNCHANGED <<due, off, worldVars, envReset, left, runVars, evVars>>

\* SOURCE_<SLUG>_RESET is set to now; processes started from here on have it.
SetEnvReset ==
    /\ "env" \in Resets /\ ops > 0
    /\ ops' = ops - 1
    /\ envReset' = said /\ approved' = said
    /\ UNCHANGED <<rowVars, due, alert, off, worldVars, left, runVars, evVars>>

CooldownEnds ==
    /\ cooling
    /\ cooling' = FALSE
    /\ UNCHANGED <<denied, count, probation, last, due, alert, off, worldVars, opVars, left, runVars, evVars>>

ProbationEnds ==
    /\ probation = "on"
    /\ probation' = "over"
    /\ UNCHANGED <<denied, cooling, count, last, due, alert, off, worldVars, opVars, left, runVars, evVars>>

IntervalPasses ==
    /\ ~due
    /\ due' = TRUE
    /\ UNCHANGED <<rowVars, alert, off, worldVars, opVars, left, runVars, evVars>>

-----------------------------------------------------------------------------
\* Every step of a worker but what ends it early.
WorkerSteps(w) ==
    \/ StartRun(w) \/ ReadRouteSwitches(w) \/ ReadRefusal(w)
    \/ ResetByEnv(w) \/ Claim(w)
    \/ RecheckSwitch(w) \/ RecheckRoute(w) \/ BeginRoute(w)
    \/ RouteOk(w) \/ RouteRefused(w) \/ RouteFails(w)
    \/ BeginJob(w) \/ JobEnds(w)
    \/ EndRun(w) \/ RecordRefusal(w) \/ OpenAlert(w) \/ EscalateAlert(w)
    \/ EndCooldown(w) \/ ResolveAlert(w) \/ DecayRefusal(w)

EvaluatorNext(e) == EvalRow(e) \/ EvalAlerts(e) \/ EvalRoutes(e) \/ EvalAct(e)

OperatorNext ==
    \/ \E s \in Switches : SwitchOff(s) \/ SwitchOn(s)
    \/ AdminReset \/ SetEnvReset

Next ==
    \/ \E w \in Workers : WorkerSteps(w) \/ RunThrows(w)
    \/ \E e \in Evaluators : EvaluatorNext(e)
    \/ OperatorNext
    \/ CooldownEnds \/ ProbationEnds \/ IntervalPasses

Spec == Init /\ [][Next]_vars

\* Runs are scheduled again and again and go on to their end, evaluations are
\* timed, and time passes. Nothing makes the operator act.
Fairness ==
    /\ \A w \in Workers : WF_vars(WorkerSteps(w))
    /\ \A e \in Evaluators : WF_vars(EvaluatorNext(e))
    /\ WF_vars(CooldownEnds) /\ WF_vars(ProbationEnds) /\ WF_vars(IntervalPasses)

FairSpec == Spec /\ Fairness

-----------------------------------------------------------------------------
\* A source that said no is recorded as refusing: every refusal a run met, and
\* every one that ended a maintenance pass, is recorded, or will be by the worker
\* that has it ("any refused route refuses the source"). Only what a pass
\* swallows is lost.
RefusalsRecorded ==
    heard = said + swallowed + Cardinality({w \in Workers : "refused" \in res[w]})

\* An environment reset clears refusal n, which is newer than the one its run had
\* read, and newer than any refusal the operator has reset: the run clears the row
\* as it is by then (runner.js).
StaleReset(n) ==
    \E w \in Runs : /\ pc[w] = "reset" /\ pc'[w] = "claim"
                    /\ seen[w].denied < n /\ approved < n

\* The standing refusal is left only by the success of a run that probed that
\* very refusal after its cooldown, or by a reset that covers it. A stale success
\* or an old reset never clears a fresh refusal, with one exception: a run in an
\* environment reset, when the refusal came after its read.
EndsRightly ==
    denied # 0 /\ denied' = 0 =>
        \/ denied <= approved'
        \/ \E w \in Runs : /\ pc[w] = "endCooldown"
                           /\ seen[w].gate = "probe" /\ seen[w].denied = denied
        \/ StaleReset(denied)

FreshRefusalKept == [][EndsRightly]_vars

\* A takedown applies at once, but for the route a run is in or about to begin:
\* no route begins under a switch that was on when the run began the route
\* before, or when the run or pass started, and has not been cleared since.
TakedownHonoured ==
    [][\A w \in Workers : fetching'[w] # fetching[w] /\ fetching'[w] # 0 =>
          {Source, fetching'[w]} \cap since[w] = {}]_vars

\* The source_refused alert is open in the end exactly while the source is
\* refused and collecting, although runs and evaluators act on what they read
\* before.
Alerting == denied # 0 /\ Source \notin off /\ ~(Routes \subseteq off)

AlertFollows ==
    /\ <>[]Alerting => <>[](alert # 0)
    /\ <>[]~Alerting => <>[](alert = 0)

\* No source is locked out for ever: while it is not switched off, it is probed
\* again, and as it refuses only finitely often (bound), its refusal ends and the
\* count decays.
NeverLockedOut ==
    <>[](Source \notin off /\ ~(Routes \subseteq off))
        => <>[](denied = 0 /\ count = 0)

=============================================================================
