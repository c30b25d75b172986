-------------------------- MODULE SourceGateProofs -------------------------
(***************************************************************************)
(* Theorems about SourceGate, for every number of runs, maintenance        *)
(* passes, evaluators, routes, refusals, faults and operator actions.      *)
(***************************************************************************)
EXTENDS SourceGate, FiniteSetTheorems, TLAPS

(* What a worker's program counter says about what it read: the            *)
(* strengthening that makes the type invariant and the properties below    *)
(* inductive.                                                              *)

\* Gating is the stretch in which the switches the worker has read still count.
Gating(w) == pc[w] \in {"gate", "reset", "claim", "jobs"} \/ (w \in Passes /\ pc[w] = "fetching")

WorkerReady(w) ==
    \* the routes it goes on with
    /\ pc[w] \in {"gate", "reset", "claim", "jobs", "recheck", "recheckRoute", "begin"} => todo[w] # {}
    /\ w \in Passes /\ pc[w] = "fetching" => todo[w] # {}
    /\ w \in Passes => pc[w] \in {"idle", "routes", "gate", "jobs", "fetching", "record", "open", "escalate"}
    \* the switches it has found off
    /\ since[w] \subseteq off
    /\ Gating(w) \/ pc[w] \in {"routes", "recheckRoute", "begin"} => Source \notin since[w]
    /\ Gating(w) => todo[w] \cap since[w] = {}
    /\ pc[w] = "begin" => NextRoute(w) \notin since[w]
    \* the refusal it has met, and the one it has probed
    /\ pc[w] = "record" => "refused" \in res[w]
    /\ pc[w] \in {"idle", "routes", "gate", "reset", "claim", "jobs", "open", "escalate",
                  "endCooldown", "resolve", "decay"} => "refused" \notin res[w]
    /\ w \in Passes /\ pc[w] = "fetching" => "refused" \notin res[w]
    /\ pc[w] = "endCooldown" => seen[w].gate = "probe"

WorkersInv == WorkersOK /\ \A w \in Workers : WorkerReady(w)

TypeInv == RowsOK /\ WorldOK /\ WorkersInv /\ EvaluatorsOK

LEMMA NextRouteLeft ==
    ASSUME NEW w \in Workers, todo[w] # {}
    PROVE  NextRoute(w) \in todo[w]
BY DEF NextRoute

\* A part of the state that does not change keeps its part of the invariant.
LEMMA Frame ==
    ASSUME TypeInv
    PROVE  /\ UNCHANGED <<rowVars, due, alert, off>> => RowsOK'
           /\ UNCHANGED <<worldVars, opVars, left>> => WorldOK'
           /\ UNCHANGED <<runVars, off>> => WorkersInv'
           /\ UNCHANGED evVars => EvaluatorsOK'
<1>1. UNCHANGED <<rowVars, due, alert, off>> => RowsOK'
  BY DEF TypeInv, RowsOK, rowVars
<1>2. UNCHANGED <<worldVars, opVars, left>> => WorldOK'
  BY DEF TypeInv, WorldOK, worldVars, opVars
<1>3. UNCHANGED <<runVars, off>> => WorkersInv'
  BY DEF TypeInv, WorkersInv, WorkersOK, WorkerReady, Gating, NextRoute, runVars
<1>4. UNCHANGED evVars => EvaluatorsOK'
  BY DEF TypeInv, EvaluatorsOK, evVars
<1> QED BY <1>1, <1>2, <1>3, <1>4

LEMMA SpendTyped ==
    ASSUME TypeInv, NEW k, Spend(k)
    PROVE  left' \in 0 .. MaxFaults
BY BoundsAssumption DEF TypeInv, WorldOK, Spend

\* A worker that stops, and one that only goes on, keep the workers' part.
LEMMA StopsReady ==
    ASSUME TypeInv, NEW w \in Workers, Stops(w), UNCHANGED off
    PROVE  WorkersInv'
BY DEF TypeInv, WorkersInv, WorkersOK, WorkerReady, Gating, NextRoute, Stops, Goes, Pcs, Seen, NotSeen

\* A step that changes nothing of the other workers has to keep its own ready.
LEMMA OneWorker ==
    ASSUME TypeInv, NEW w \in Workers, WorkersOK', WorkerReady(w)', UNCHANGED off,
           \A v \in Workers \ {w} :
              /\ pc'[v] = pc[v] /\ todo'[v] = todo[v] /\ since'[v] = since[v]
              /\ res'[v] = res[v] /\ seen'[v] = seen[v]
    PROVE  WorkersInv'
<1>1. ASSUME NEW v \in Workers \ {w} PROVE WorkerReady(v)'
  <2>1. WorkerReady(v)
    BY DEF TypeInv, WorkersInv
  <2> QED BY <1>1, <2>1 DEF WorkerReady, Gating, NextRoute
<1> QED BY <1>1 DEF WorkersInv

LEMMA OnlyGoesReady ==
    ASSUME TypeInv, NEW w \in Workers, NEW p \in Pcs, OnlyGoes(w, p), UNCHANGED off,
           WorkerReady(w)'
    PROVE  WorkersInv'
<1>1. WorkersOK'
  BY DEF TypeInv, WorkersInv, WorkersOK, OnlyGoes, Goes
<1>2. \A v \in Workers \ {w} : pc'[v] = pc[v]
  BY DEF TypeInv, WorkersInv, WorkersOK, OnlyGoes, Goes
<1> QED BY <1>1, <1>2, OneWorker DEF OnlyGoes

-----------------------------------------------------------------------------
LEMMA GatesKeepTypes ==
    ASSUME TypeInv, NEW w \in Workers,
           \/ StartRun(w) \/ ReadRouteSwitches(w) \/ ReadRefusal(w)
           \/ ResetByEnv(w) \/ Claim(w)
    PROVE  TypeInv'
<1>1. CASE StartRun(w)
  <2>1. WorkersInv'
    BY <1>1 DEF StartRun, Goes, TypeInv, RowsOK, WorldOK, WorkersInv, WorkersOK, WorkerReady, Gating,
                NextRoute, Pcs
  <2> QED BY <2>1, <1>1, Frame DEF StartRun, TypeInv
<1>2. CASE ReadRouteSwitches(w)
  <2>1. WorkersInv'
    <3>1. CASE Routes \subseteq off
      BY <1>2, <3>1, StopsReady DEF ReadRouteSwitches
    <3>2. CASE ~(Routes \subseteq off)
      BY <1>2, <3>2 DEF ReadRouteSwitches, Goes, TypeInv, WorkersInv, WorkersOK, WorkerReady, Gating,
                NextRoute, Pcs
    <3> QED BY <3>1, <3>2
  <2> QED BY <2>1, <1>2, Frame DEF ReadRouteSwitches, TypeInv
<1>3. CASE ReadRefusal(w)
  <2>1. WorkersInv'
    <3>1. CASE GateState(w) = "cooldown"
      BY <1>3, <3>1, StopsReady DEF ReadRefusal
    <3>2. CASE GateState(w) # "cooldown"
      <4>1. GateState(w) \in {"none", "probe", "reset"}
        BY <3>2 DEF GateState
      <4>2. seen' \in [Workers -> Seen]
        BY <4>1, <1>3, <3>2 DEF ReadRefusal, TypeInv, RowsOK, WorkersInv, WorkersOK, Seen
      <4> QED BY <4>2, <1>3, <3>2 DEF ReadRefusal, Goes, TypeInv, WorkersInv, WorkersOK, WorkerReady,
                Gating, NextRoute, Pcs, Workers
    <3> QED BY <3>1, <3>2
  <2> QED BY <2>1, <1>3, Frame DEF ReadRefusal, TypeInv
<1>4. CASE ResetByEnv(w)
  <2>1. RowsOK'
    BY <1>4 DEF ResetByEnv, ClearRefusal, TypeInv, RowsOK
  <2>2. WorkersInv'
    <3>1. WorkerReady(w)'
      BY <1>4 DEF ResetByEnv, OnlyGoes, Goes, TypeInv, WorkersInv, WorkersOK, WorkerReady, Gating, NextRoute
    <3> QED BY <3>1, <1>4, OnlyGoesReady DEF ResetByEnv, Pcs
  <2> QED BY <2>1, <2>2, <1>4, Frame DEF ResetByEnv, TypeInv
<1>5. CASE Claim(w)
  <2>1. RowsOK'
    BY <1>5 DEF Claim, TypeInv, RowsOK, rowVars
  <2>2. WorldOK'
    BY <1>5, SpendTyped DEF Claim, TypeInv, WorldOK, worldVars, opVars
  <2>3. WorkersInv'
    <3>1. CASE Stops(w)
      BY <1>5, <3>1, StopsReady DEF Claim
    <3>2. CASE OnlyGoes(w, "begin")
      <4>1. todo[w] # {} /\ todo[w] \cap since[w] = {}
        BY <1>5 DEF Claim, TypeInv, WorkersInv, WorkerReady, Gating
      <4>2. NextRoute(w) \notin since[w]
        BY <4>1, NextRouteLeft
      <4>3. WorkerReady(w)'
        BY <4>1, <4>2, <1>5, <3>2 DEF Claim, OnlyGoes, Goes, TypeInv, WorkersInv, WorkersOK, WorkerReady,
                Gating, NextRoute
      <4> QED BY <4>3, <1>5, <3>2, OnlyGoesReady DEF Claim, Pcs
    <3> QED BY <3>1, <3>2, <1>5 DEF Claim
  <2> QED BY <2>1, <2>2, <2>3, <1>5, Frame DEF Claim, TypeInv
<1> QED BY <1>1, <1>2, <1>3, <1>4, <1>5

-----------------------------------------------------------------------------
\* A run that goes on at recheck or at its end, with the routes it has left.
LEMMA NextPcLeft ==
    ASSUME NEW routes
    PROVE  /\ NextPc(routes) \in Pcs
           /\ NextPc(routes) \in {"end", "recheck"}
           /\ NextPc(routes) = "recheck" => routes # {}
BY DEF NextPc, Pcs

LEMMA SkipReady ==
    ASSUME TypeInv, NEW w \in Workers, pc[w] \in {"recheck", "recheckRoute"}, Skip(w), UNCHANGED off
    PROVE  WorkersInv'
<1> DEFINE rest == todo[w] \ {NextRoute(w)}
<1>1. WorkersOK'
  BY NextPcLeft DEF Skip, Goes, TypeInv, WorkersInv, WorkersOK
<1>2. /\ pc'[w] = NextPc(rest) /\ todo'[w] = rest
      /\ since'[w] = since[w] /\ res'[w] = res[w] /\ seen'[w] = seen[w]
      /\ \A v \in Workers \ {w} :
              /\ pc'[v] = pc[v] /\ todo'[v] = todo[v] /\ since'[v] = since[v]
              /\ res'[v] = res[v] /\ seen'[v] = seen[v]
  BY DEF Skip, Goes, TypeInv, WorkersInv, WorkersOK
<1>3. WorkerReady(w)
  BY DEF TypeInv, WorkersInv
<1>4. WorkerReady(w)'
  <2>1. pc'[w] \in {"end", "recheck"} /\ (pc'[w] = "recheck" => todo'[w] # {})
    BY <1>2, NextPcLeft
  <2>2. w \notin Passes
    BY <1>3 DEF WorkerReady
  <2> QED BY <2>1, <2>2, <1>2, <1>3 DEF WorkerReady, Gating
<1> QED BY <1>1, <1>2, <1>4, OneWorker

LEMMA RechecksKeepTypes ==
    ASSUME TypeInv, NEW w \in Workers, RecheckSwitch(w) \/ RecheckRoute(w)
    PROVE  TypeInv'
<1>0. WorkerReady(w) /\ todo[w] \subseteq Routes
  BY DEF TypeInv, WorkersInv, WorkersOK
<1>1. WorldOK'
  BY SpendTyped DEF RecheckSwitch, RecheckRoute, TypeInv, WorldOK, worldVars, opVars
<1>2. CASE RecheckSwitch(w)
  <2>1. CASE Skip(w)
    BY <2>1, <1>1, <1>2, SkipReady, Frame DEF RecheckSwitch, TypeInv
  <2>2. CASE Source \notin off /\ OnlyGoes(w, "recheckRoute")
    <3>1. WorkerReady(w)'
      BY <1>0, <1>2, <2>2 DEF RecheckSwitch, OnlyGoes, Goes, TypeInv, WorkersInv, WorkersOK, WorkerReady,
              Gating, NextRoute
    <3> QED BY <3>1, <1>1, <1>2, <2>2, OnlyGoesReady, Frame DEF RecheckSwitch, TypeInv, Pcs
  <2> QED BY <1>2, <2>1, <2>2 DEF RecheckSwitch
<1>3. CASE RecheckRoute(w)
  <2>1. CASE Skip(w)
    BY <2>1, <1>1, <1>3, SkipReady, Frame DEF RecheckRoute, TypeInv
  <2>2. CASE NextRoute(w) \notin off /\ OnlyGoes(w, "begin")
    <3>1. WorkerReady(w)'
      BY <1>0, <1>3, <2>2 DEF RecheckRoute, OnlyGoes, Goes, TypeInv, WorkersInv, WorkersOK, WorkerReady,
              Gating, NextRoute
    <3> QED BY <3>1, <1>1, <1>3, <2>2, OnlyGoesReady, Frame DEF RecheckRoute, TypeInv, Pcs
  <2> QED BY <1>3, <2>1, <2>2 DEF RecheckRoute
<1> QED BY <1>2, <1>3

LEMMA BeginsKeepTypes ==
    ASSUME TypeInv, NEW w \in Workers, BeginRoute(w) \/ BeginJob(w)
    PROVE  TypeInv'
<1>0. WorkerReady(w) /\ todo[w] \subseteq Routes /\ off \subseteq Switches
  BY DEF TypeInv, WorkersInv, WorkersOK, RowsOK
<1>1. todo[w] # {}
  BY <1>0 DEF BeginRoute, BeginJob, WorkerReady
<1>2. NextRoute(w) \in Routes
  BY <1>0, <1>1, NextRouteLeft
<1>3. CASE BeginRoute(w)
  <2>1. WorkersOK'
    BY <1>0, <1>2, <1>3 DEF BeginRoute, Goes, TypeInv, WorkersInv, WorkersOK, Pcs
  <2>2. /\ pc'[w] = "fetching" /\ since'[w] = off /\ res'[w] = res[w] /\ seen'[w] = seen[w]
        /\ \A v \in Workers \ {w} :
              /\ pc'[v] = pc[v] /\ todo'[v] = todo[v] /\ since'[v] = since[v]
              /\ res'[v] = res[v] /\ seen'[v] = seen[v]
    BY <1>3 DEF BeginRoute, Goes, TypeInv, WorkersInv, WorkersOK
  <2>3. w \notin Passes
    BY <1>0, <1>3 DEF BeginRoute, WorkerReady
  <2>4. off' = off
    BY <1>3 DEF BeginRoute
  <2>5. WorkerReady(w)'
    BY <2>2, <2>3, <2>4 DEF WorkerReady, Gating
  <2> QED BY <2>1, <2>2, <2>4, <2>5, <1>3, OneWorker, Frame DEF BeginRoute, TypeInv
<1>4. CASE BeginJob(w)
  <2>1. CASE Stops(w)
    BY <2>1, <1>4, StopsReady, Frame DEF BeginJob, TypeInv
  <2>2. CASE ~Stops(w)
    <3>1. WorkersOK'
      BY <1>2, <1>4, <2>2 DEF BeginJob, Goes, TypeInv, WorkersInv, WorkersOK, Pcs
    <3>2. /\ pc'[w] = "fetching" /\ todo' = todo /\ since' = since /\ res' = res /\ seen' = seen
          /\ \A v \in Workers \ {w} : pc'[v] = pc[v]
      BY <1>4, <2>2 DEF BeginJob, Goes, TypeInv, WorkersInv, WorkersOK
    <3>3. off' = off /\ pc[w] = "jobs"
      BY <1>4 DEF BeginJob
    <3>4. WorkerReady(w)'
      BY <1>0, <3>2, <3>3 DEF WorkerReady, Gating
    <3> QED BY <3>1, <3>2, <3>3, <3>4, <1>4, OneWorker, Frame DEF BeginJob, TypeInv
  <2> QED BY <2>1, <2>2
<1> QED BY <1>3, <1>4

\* What a route gives, for a run and for a pass.
LEMMA RouteGaveReady ==
    ASSUME TypeInv, NEW w \in Workers, NEW p \in Pcs, NEW what \in SUBSET {"ok", "refused", "failed"},
           RouteGave(w, what, p), WorkerReady(w)'
    PROVE  WorkersInv'
<1>1. WorkersOK'
  BY DEF RouteGave, Goes, TypeInv, WorkersInv, WorkersOK
<1>2. \A v \in Workers \ {w} : pc'[v] = pc[v] /\ res'[v] = res[v]
  BY DEF RouteGave, Goes, TypeInv, WorkersInv, WorkersOK
<1> QED BY <1>1, <1>2, OneWorker DEF RouteGave

LEMMA RoutesKeepTypes ==
    ASSUME TypeInv, NEW w \in Workers, RouteOk(w) \/ RouteRefused(w) \/ RouteFails(w)
    PROVE  TypeInv'
<1>0. WorkerReady(w) /\ w \notin Passes
  BY WorkersAssumption DEF TypeInv, WorkersInv, RouteOk, RouteRefused, RouteFails
<1>1. PICK what \in SUBSET {"ok", "refused", "failed"} : RouteGave(w, what, NextPc(todo[w]))
  <2>1. CASE RouteRefused(w)
    <3>1. PICK more \in {{}, {"ok"}} : RouteGave(w, {"refused"} \cup more, NextPc(todo[w]))
      BY <2>1 DEF RouteRefused
    <3>2. {"refused"} \cup more \in SUBSET {"ok", "refused", "failed"}
      OBVIOUS
    <3> QED BY <3>1, <3>2
  <2>2. CASE RouteOk(w) \/ RouteFails(w)
    BY <2>2 DEF RouteOk, RouteFails
  <2> QED BY <2>1, <2>2
<1>2. WorldOK'
  BY <1>1, SpendTyped, BoundsAssumption
    DEF RouteOk, RouteRefused, RouteFails, RouteGave, TypeInv, WorldOK, opVars
<1>3. WorkerReady(w)'
  <2>1. /\ pc'[w] = NextPc(todo[w]) /\ todo'[w] = todo[w]
        /\ since'[w] = since[w] /\ seen'[w] = seen[w] /\ off' = off
    BY <1>1 DEF RouteGave, Goes, TypeInv, WorkersInv, WorkersOK
  <2>2. pc'[w] \in {"end", "recheck"} /\ (pc'[w] = "recheck" => todo'[w] # {})
    BY <2>1, NextPcLeft
  <2> QED BY <1>0, <2>1, <2>2 DEF WorkerReady, Gating
<1> QED BY <1>1, <1>2, <1>3, RouteGaveReady, NextPcLeft, Frame DEF RouteGave, TypeInv

LEMMA JobsKeepTypes ==
    ASSUME TypeInv, NEW w \in Workers, JobEnds(w)
    PROVE  TypeInv'
<1>0. WorkerReady(w) /\ w \in Passes /\ pc[w] = "fetching"
  BY DEF TypeInv, WorkersInv, JobEnds, RouteGave
<1>1. WorldOK'
  BY BoundsAssumption DEF JobEnds, RouteGave, TypeInv, WorldOK, opVars
<1>2. CASE RouteGave(w, {}, "jobs")
  <2>1. WorkerReady(w)'
    BY <1>0, <1>2 DEF RouteGave, Goes, TypeInv, WorkersInv, WorkersOK, WorkerReady, Gating, NextRoute
  <2> QED BY <2>1, <1>1, <1>2, RouteGaveReady, Frame DEF RouteGave, TypeInv, Pcs
<1>3. CASE RouteGave(w, {"refused"}, "record")
  <2>1. WorkerReady(w)'
    BY <1>0, <1>3 DEF RouteGave, Goes, TypeInv, WorkersInv, WorkersOK, WorkerReady, Gating
  <2> QED BY <2>1, <1>1, <1>3, RouteGaveReady, Frame DEF RouteGave, TypeInv, Pcs
<1> QED BY <1>2, <1>3 DEF JobEnds

LEMMA ThrowsKeepTypes ==
    ASSUME TypeInv, NEW w \in Workers, RunThrows(w)
    PROVE  TypeInv'
<1>1. WorldOK'
  BY SpendTyped DEF RunThrows, TypeInv, WorldOK, worldVars, opVars
<1> QED BY <1>1, StopsReady, Frame DEF RunThrows, TypeInv

-----------------------------------------------------------------------------
LEMMA EndRunKeepsTypes ==
    ASSUME TypeInv, NEW w \in Workers, EndRun(w)
    PROVE  TypeInv'
<1>0. WorkerReady(w) /\ pc[w] = "end" /\ w \notin Passes /\ off' = off
  BY DEF TypeInv, WorkersInv, EndRun, WorkerReady
<1>1. CASE Stops(w)
  BY <1>1, StopsReady, Frame DEF EndRun, TypeInv
<1>2. ASSUME NEW p \in {"record", "endCooldown", "decay"}, OnlyGoes(w, p),
             p = "record" => "refused" \in res[w],
             p # "record" => "refused" \notin res[w],
             p = "endCooldown" => seen[w].gate = "probe"
      PROVE  TypeInv'
  <2>1. /\ pc'[w] = p /\ todo' = todo /\ since' = since /\ res' = res /\ seen' = seen
    BY <1>2 DEF OnlyGoes, Goes, TypeInv, WorkersInv, WorkersOK
  <2>2. WorkerReady(w)'
    BY <1>0, <1>2, <2>1 DEF WorkerReady, Gating
  <2>3. p \in Pcs
    BY DEF Pcs
  <2> QED BY <2>2, <2>3, <1>0, <1>2, OnlyGoesReady, Frame DEF EndRun, TypeInv
<1>3. CASE Refused(w) /\ OnlyGoes(w, "record")
  BY <1>3, <1>2 DEF Refused
<1>4. CASE Probed(w) /\ OnlyGoes(w, "endCooldown")
  BY <1>4, <1>2 DEF Probed, RunOk
<1>5. CASE MayDecay(w) /\ OnlyGoes(w, "decay")
  BY <1>5, <1>2 DEF MayDecay, RunOk
<1> QED BY <1>1, <1>3, <1>4, <1>5 DEF EndRun

LEMMA RecordKeepsTypes ==
    ASSUME TypeInv, NEW w \in Workers, RecordRefusal(w)
    PROVE  TypeInv'
<1>1. RowsOK'
  BY DEF RecordRefusal, PriorCount, TypeInv, RowsOK, WorldOK
<1>2. WorldOK'
  BY DEF RecordRefusal, TypeInv, WorldOK, opVars
<1>3. WorkersOK'
  BY DEF RecordRefusal, PriorCount, Goes, TypeInv, RowsOK, WorkersInv, WorkersOK, Pcs
<1>4. /\ pc'[w] = "open" /\ res'[w] = {} /\ todo' = todo /\ since' = since /\ seen' = seen /\ off' = off
      /\ \A v \in Workers \ {w} : pc'[v] = pc[v] /\ res'[v] = res[v]
  BY DEF RecordRefusal, Goes, TypeInv, WorkersInv, WorkersOK
<1>5. WorkerReady(w)
  BY DEF TypeInv, WorkersInv
<1>6. WorkerReady(w)'
  BY <1>4, <1>5 DEF WorkerReady, Gating
<1> QED BY <1>1, <1>2, <1>3, <1>4, <1>6, OneWorker, Frame DEF RecordRefusal, TypeInv

\* From here the worker only writes the row or the alert, and ends.
LEMMA AlertsKeepTypes ==
    ASSUME TypeInv, NEW w \in Workers,
           OpenAlert(w) \/ EscalateAlert(w) \/ ResolveAlert(w)
    PROVE  TypeInv'
<1>1. RowsOK'
  BY DEF OpenAlert, EscalateAlert, ResolveAlert, TypeInv, RowsOK, WorkersInv, WorkersOK, rowVars
<1>2. WorkersInv'
  <2>1. CASE Stops(w)
    BY <2>1, StopsReady DEF OpenAlert, EscalateAlert, ResolveAlert
  <2>2. CASE pc[w] = "open" /\ OnlyGoes(w, "escalate") /\ UNCHANGED off
    <3>1. WorkerReady(w)'
      BY <2>2 DEF OnlyGoes, Goes, TypeInv, WorkersInv, WorkersOK, WorkerReady, Gating, NextRoute
    <3> QED BY <3>1, <2>2, OnlyGoesReady DEF Pcs
  <2> QED BY <2>1, <2>2 DEF OpenAlert, EscalateAlert, ResolveAlert
<1> QED BY <1>1, <1>2, Frame DEF OpenAlert, EscalateAlert, ResolveAlert, TypeInv

LEMMA CooldownKeepsTypes ==
    ASSUME TypeInv, NEW w \in Workers, EndCooldown(w) \/ DecayRefusal(w)
    PROVE  TypeInv'
<1>1. RowsOK'
  <2>1. CASE EndCooldown(w)
    <3>1. \/ denied' = 0 /\ cooling' = FALSE /\ probation' = "on"
          \/ UNCHANGED <<denied, cooling, probation>>
      BY <2>1 DEF EndCooldown
    <3>2. UNCHANGED <<count, last, due, alert, off>>
      BY <2>1 DEF EndCooldown
    <3>3. CASE UNCHANGED <<denied, cooling, probation>>
      BY <3>2, <3>3, Frame DEF rowVars
    <3>4. CASE denied' = 0 /\ cooling' = FALSE /\ probation' = "on"
      BY <3>2, <3>4 DEF TypeInv, RowsOK
    <3> QED BY <3>1, <3>3, <3>4
  <2>2. CASE DecayRefusal(w)
    BY <2>2 DEF DecayRefusal, TypeInv, RowsOK
  <2> QED BY <2>1, <2>2
<1>2. WorkersInv'
  <2>1. CASE Stops(w)
    BY <2>1, StopsReady DEF EndCooldown, DecayRefusal
  <2>2. CASE pc[w] = "endCooldown" /\ OnlyGoes(w, "resolve") /\ UNCHANGED off
    <3>1. WorkerReady(w)'
      BY <2>2 DEF OnlyGoes, Goes, TypeInv, WorkersInv, WorkersOK, WorkerReady, Gating, NextRoute
    <3> QED BY <3>1, <2>2, OnlyGoesReady DEF Pcs
  <2> QED BY <2>1, <2>2 DEF EndCooldown, DecayRefusal
<1> QED BY <1>1, <1>2, Frame DEF EndCooldown, DecayRefusal, TypeInv

-----------------------------------------------------------------------------
LEMMA EvaluatorsKeepTypes ==
    ASSUME TypeInv, NEW e \in Evaluators, EvaluatorNext(e)
    PROVE  TypeInv'
<1>1. RowsOK'
  <2>1. CASE EvalAct(e)
    <3>1. alert' \in Nat
      BY <2>1 DEF EvalAct, TypeInv, RowsOK, EvaluatorsOK
    <3> QED BY <2>1, <3>1 DEF EvalAct, TypeInv, RowsOK, rowVars
  <2>2. CASE EvalRow(e) \/ EvalAlerts(e) \/ EvalRoutes(e)
    BY <2>2, Frame DEF EvalRow, EvalAlerts, EvalRoutes
  <2> QED BY <2>1, <2>2 DEF EvaluatorNext
<1>2. EvaluatorsOK'
  <2>1. CASE EvalRow(e)
    BY <2>1 DEF EvalRow, TypeInv, RowsOK, EvaluatorsOK
  <2>2. CASE EvalAlerts(e)
    BY <2>2 DEF EvalAlerts, TypeInv, EvaluatorsOK
  <2>3. CASE EvalRoutes(e)
    BY <2>3 DEF EvalRoutes, TypeInv, EvaluatorsOK
  <2>4. CASE EvalAct(e)
    BY <2>4 DEF EvalAct, TypeInv, EvaluatorsOK
  <2> QED BY <2>1, <2>2, <2>3, <2>4 DEF EvaluatorNext
<1>3. UNCHANGED <<worldVars, opVars, left, runVars, off>>
  BY DEF EvaluatorNext, EvalRow, EvalAlerts, EvalRoutes, EvalAct
<1> QED BY <1>1, <1>2, <1>3, Frame DEF TypeInv

LEMMA OperatorKeepsTypes ==
    ASSUME TypeInv, OperatorNext
    PROVE  TypeInv'
<1>1. RowsOK'
  <2>1. ASSUME NEW s \in Switches, SwitchOff(s) \/ SwitchOn(s) PROVE RowsOK'
    BY <2>1 DEF SwitchOff, SwitchOn, TypeInv, RowsOK, rowVars
  <2>2. CASE AdminReset
    BY <2>2 DEF AdminReset, ClearRefusal, TypeInv, RowsOK
  <2>3. CASE SetEnvReset
    BY <2>3, Frame DEF SetEnvReset
  <2> QED BY <2>1, <2>2, <2>3 DEF OperatorNext
<1>2. WorldOK'
  BY BoundsAssumption DEF OperatorNext, SwitchOff, SwitchOn, AdminReset, SetEnvReset, TypeInv, WorldOK, worldVars
<1>3. EvaluatorsOK'
  BY Frame DEF OperatorNext, SwitchOff, SwitchOn, AdminReset, SetEnvReset
<1>4. WorkersInv'
  <2>1. ASSUME NEW s \in Switches, SwitchOff(s) PROVE WorkersInv'
    BY <2>1 DEF SwitchOff, TypeInv, WorkersInv, WorkersOK, WorkerReady, Gating, NextRoute, runVars
  <2>2. ASSUME NEW s \in Switches, SwitchOn(s) PROVE WorkersInv'
    <3>1. WorkersOK'
      BY <2>2 DEF SwitchOn, TypeInv, WorkersInv, WorkersOK
    <3>2. ASSUME NEW v \in Workers PROVE WorkerReady(v)'
      <4>1. since'[v] = since[v] \ {s} /\ off' = off \ {s} /\ UNCHANGED <<pc, todo, res, seen>>
        BY <2>2 DEF SwitchOn
      <4>2. WorkerReady(v)
        BY DEF TypeInv, WorkersInv
      <4> QED BY <4>1, <4>2 DEF WorkerReady, Gating, NextRoute
    <3> QED BY <3>1, <3>2 DEF WorkersInv
  <2>3. CASE AdminReset \/ SetEnvReset
    BY <2>3, Frame DEF AdminReset, SetEnvReset
  <2> QED BY <2>1, <2>2, <2>3 DEF OperatorNext
<1> QED BY <1>1, <1>2, <1>3, <1>4 DEF TypeInv

LEMMA TimeKeepsTypes ==
    ASSUME TypeInv, CooldownEnds \/ ProbationEnds \/ IntervalPasses
    PROVE  TypeInv'
<1>1. RowsOK'
  BY DEF CooldownEnds, ProbationEnds, IntervalPasses, TypeInv, RowsOK, rowVars
<1> QED BY <1>1, Frame DEF CooldownEnds, ProbationEnds, IntervalPasses, TypeInv

LEMMA TypeInvInit ==
    ASSUME Init
    PROVE  TypeInv
<1>1. RowsOK
  BY DEF Init, RowsOK
<1>5. WorldOK
  BY BoundsAssumption DEF Init, WorldOK
<1>2. WorkersOK
  BY DEF Init, WorkersOK, Pcs, Seen, NotSeen
<1>3. ASSUME NEW w \in Workers PROVE WorkerReady(w)
  BY DEF Init, WorkerReady, Gating
<1>4. EvaluatorsOK
  BY DEF Init, EvaluatorsOK
<1> QED BY <1>1, <1>2, <1>3, <1>4, <1>5 DEF TypeInv, WorkersInv

LEMMA TypeInvStep ==
    ASSUME TypeInv, [Next]_vars
    PROVE  TypeInv'
<1>1. ASSUME NEW w \in Workers, WorkerSteps(w) \/ RunThrows(w) PROVE TypeInv'
  BY <1>1, GatesKeepTypes, RechecksKeepTypes, BeginsKeepTypes, RoutesKeepTypes, JobsKeepTypes,
     ThrowsKeepTypes, EndRunKeepsTypes, RecordKeepsTypes, AlertsKeepTypes, CooldownKeepsTypes
     DEF WorkerSteps
<1>2. ASSUME NEW e \in Evaluators, EvaluatorNext(e) PROVE TypeInv'
  BY <1>2, EvaluatorsKeepTypes
<1>3. CASE OperatorNext
  BY <1>3, OperatorKeepsTypes
<1>4. CASE CooldownEnds \/ ProbationEnds \/ IntervalPasses
  BY <1>4, TimeKeepsTypes
<1>5. CASE UNCHANGED vars
  BY <1>5, Frame DEF vars, TypeInv
<1> QED BY <1>1, <1>2, <1>3, <1>4, <1>5 DEF Next

LEMMA Invariance == Spec => []TypeInv
<1>1. Init => TypeInv
  BY TypeInvInit
<1>2. TypeInv /\ [Next]_vars => TypeInv'
  BY TypeInvStep
<1> QED BY <1>1, <1>2, PTL DEF Spec

(* The variables keep their types: the row's columns, the alert and what   *)
(* every worker and evaluator has read of them stay well formed.           *)
THEOREM GateTyped == Spec => []TypeOK
<1>1. TypeInv => TypeOK
  BY DEF TypeInv, WorkersInv, TypeOK
<1> QED BY <1>1, Invariance, PTL

-----------------------------------------------------------------------------
(* A takedown applies at once: whatever the operator switches off, no run  *)
(* and no pass begins a route whose switch, or whose source's switch, it   *)
(* found on, or that was on when it began the route before.                *)
THEOREM TakedownAlwaysHonoured == Spec => TakedownHonoured
<1> DEFINE Honoured ==
      \A w \in Workers : fetching'[w] # fetching[w] /\ fetching'[w] # 0 =>
          {Source, fetching'[w]} \cap since[w] = {}
<1>1. ASSUME TypeInv, [Next]_vars PROVE Honoured
  <2> SUFFICES ASSUME NEW v \in Workers, fetching'[v] # fetching[v], fetching'[v] # 0
               PROVE  {Source, fetching'[v]} \cap since[v] = {}
    OBVIOUS
  <2>1. fetching \in [Workers -> Routes \cup {0}] /\ WorkerReady(v)
    BY <1>1 DEF TypeInv, WorkersInv, WorkersOK
  <2>2. CASE BeginRoute(v)
    <3>1. pc[v] = "begin" /\ fetching'[v] = NextRoute(v)
      BY <2>1, <2>2 DEF BeginRoute
    <3> QED BY <2>1, <3>1 DEF WorkerReady
  <2>3. CASE BeginJob(v)
    <3>1. pc[v] = "jobs" /\ fetching'[v] = NextRoute(v)
      BY <2>1, <2>3 DEF BeginJob, Stops
    <3>2. NextRoute(v) \in todo[v]
      BY <2>1, <3>1, NextRouteLeft DEF WorkerReady
    <3> QED BY <2>1, <3>1, <3>2 DEF WorkerReady, Gating
  <2>4. ASSUME NEW w \in Workers, WorkerSteps(w) \/ RunThrows(w)
        PROVE  BeginRoute(v) \/ BeginJob(v)
    <3>1. CASE StartRun(w) \/ ReadRouteSwitches(w) \/ ReadRefusal(w) \/ ResetByEnv(w) \/ Claim(w)
               \/ RecheckSwitch(w) \/ RecheckRoute(w)
      BY <2>1, <3>1 DEF StartRun, ReadRouteSwitches, ReadRefusal, ResetByEnv, Claim, RecheckSwitch,
              RecheckRoute, Skip, OnlyGoes, Stops
    <3>2. CASE RouteOk(w) \/ RouteRefused(w) \/ RouteFails(w) \/ JobEnds(w)
      BY <2>1, <3>2 DEF RouteOk, RouteRefused, RouteFails, JobEnds, RouteGave
    <3>3. CASE EndRun(w) \/ RecordRefusal(w) \/ OpenAlert(w) \/ EscalateAlert(w)
               \/ EndCooldown(w) \/ ResolveAlert(w) \/ DecayRefusal(w) \/ RunThrows(w)
      BY <2>1, <3>3 DEF EndRun, RecordRefusal, OpenAlert, EscalateAlert, EndCooldown, ResolveAlert,
              DecayRefusal, RunThrows, OnlyGoes, Stops
    <3>4. CASE BeginRoute(w) \/ BeginJob(w)
      BY <2>1, <3>4 DEF BeginRoute, BeginJob, Stops
    <3> QED BY <2>4, <3>1, <3>2, <3>3, <3>4 DEF WorkerSteps
  <2>5. CASE \/ \E e \in Evaluators : EvaluatorNext(e)
             \/ OperatorNext \/ CooldownEnds \/ ProbationEnds \/ IntervalPasses \/ UNCHANGED vars
    BY <2>5 DEF EvaluatorNext, EvalRow, EvalAlerts, EvalRoutes, EvalAct, OperatorNext, SwitchOff,
            SwitchOn, AdminReset, SetEnvReset, CooldownEnds, ProbationEnds, IntervalPasses, vars, runVars
  <2> QED BY <1>1, <2>2, <2>3, <2>4, <2>5 DEF Next
<1>2. TypeInv /\ [Next]_vars => [Honoured]_vars
  BY <1>1
<1> QED BY <1>2, Invariance, PTL DEF Spec, TakedownHonoured

-----------------------------------------------------------------------------
(* No refusal is lost while nothing escapes the runs' route loop. Holding  *)
(* are the workers that have met a refusal and not recorded it.            *)
Holding == {w \in Workers : "refused" \in res[w]}

LEMMA HoldingSame ==
    ASSUME \A w \in Workers : "refused" \in res'[w] <=> "refused" \in res[w],
           UNCHANGED worldVars, RefusalsRecorded
    PROVE  RefusalsRecorded'
<1>1. Holding' = Holding
  BY DEF Holding
<1> QED BY <1>1 DEF RefusalsRecorded, Holding, worldVars

LEMMA HoldingGrows ==
    ASSUME TypeInv, NEW w \in Workers, "refused" \notin res[w], "refused" \in res'[w],
           \A v \in Workers \ {w} : res'[v] = res[v],
           heard' = heard + 1, said' = said, swallowed' = swallowed, RefusalsRecorded
    PROVE  RefusalsRecorded'
<1>1. Holding' = Holding \cup {w} /\ w \notin Holding
  BY DEF Holding
<1>2. IsFiniteSet(Holding)
  BY WorkersAssumption, FS_Subset DEF Holding
<1>3. Cardinality(Holding') = Cardinality(Holding) + 1
  BY <1>1, <1>2, FS_AddElement
<1>4. Cardinality(Holding) \in Nat
  BY <1>2, FS_CardinalityType
<1> QED BY <1>3, <1>4 DEF RefusalsRecorded, Holding, TypeInv, WorldOK

LEMMA HoldingShrinks ==
    ASSUME TypeInv, NEW w \in Workers, "refused" \in res[w], "refused" \notin res'[w],
           \A v \in Workers \ {w} : res'[v] = res[v],
           heard' = heard, said' = said + 1, swallowed' = swallowed, RefusalsRecorded
    PROVE  RefusalsRecorded'
<1>1. Holding' = Holding \ {w} /\ w \in Holding
  BY DEF Holding
<1>2. IsFiniteSet(Holding)
  BY WorkersAssumption, FS_Subset DEF Holding
<1>3. Cardinality(Holding') = Cardinality(Holding) - 1
  BY <1>1, <1>2, FS_RemoveElement
<1>4. Cardinality(Holding) \in Nat
  BY <1>2, FS_CardinalityType
<1> QED BY <1>3, <1>4 DEF RefusalsRecorded, Holding, TypeInv, WorldOK

LEMMA HoldingSwallows ==
    ASSUME TypeInv, \A w \in Workers : "refused" \in res'[w] <=> "refused" \in res[w],
           heard' = heard + 1, said' = said, swallowed' = swallowed + 1, RefusalsRecorded
    PROVE  RefusalsRecorded'
<1>1. Holding' = Holding
  BY DEF Holding
<1>2. Cardinality(Holding) \in Nat
  BY WorkersAssumption, FS_Subset, FS_CardinalityType DEF Holding
<1>3. heard = said + swallowed + Cardinality(Holding)
  BY DEF RefusalsRecorded, Holding
<1>4. heard' = said' + swallowed' + Cardinality(Holding')
  BY <1>1, <1>2, <1>3 DEF TypeInv, WorldOK
<1> QED BY <1>4 DEF RefusalsRecorded, Holding

\* A worker that stops had no refusal of its own.
LEMMA StopsHeld ==
    ASSUME TypeInv, NEW w \in Workers, Stops(w), "refused" \notin res[w]
    PROVE  \A v \in Workers : "refused" \in res'[v] <=> "refused" \in res[v]
BY DEF Stops, TypeInv, WorkersInv, WorkersOK

LEMMA RefusalsStep ==
    ASSUME TypeInv, RefusalsRecorded, "throw" \notin Faults, [Next]_vars
    PROVE  RefusalsRecorded'
<1>1. ASSUME NEW w \in Workers, WorkerSteps(w) PROVE RefusalsRecorded'
  <2>0. res \in [Workers -> SUBSET {"ok", "refused", "failed"}] /\ WorkerReady(w)
    BY DEF TypeInv, WorkersInv, WorkersOK
  <2>1. CASE StartRun(w) \/ ReadRouteSwitches(w) \/ ReadRefusal(w) \/ ResetByEnv(w) \/ Claim(w)
    <3>1. "refused" \notin res[w]
      BY <2>0, <2>1 DEF StartRun, ReadRouteSwitches, ReadRefusal, ResetByEnv, Claim, WorkerReady
    <3>2. Stops(w) \/ res' = res
      BY <2>1 DEF StartRun, ReadRouteSwitches, ReadRefusal, ResetByEnv, Claim, OnlyGoes
    <3>3. UNCHANGED worldVars
      BY <2>1 DEF StartRun, ReadRouteSwitches, ReadRefusal, ResetByEnv, Claim
    <3> QED BY <3>1, <3>2, <3>3, StopsHeld, HoldingSame
  <2>2. CASE RecheckSwitch(w) \/ RecheckRoute(w) \/ BeginRoute(w)
    <3>1. res' = res /\ UNCHANGED worldVars
      BY <2>2 DEF RecheckSwitch, RecheckRoute, BeginRoute, Skip, OnlyGoes
    <3> QED BY <3>1, HoldingSame
  <2>3. CASE BeginJob(w)
    <3>1. "refused" \notin res[w]
      BY <2>0, <2>3 DEF BeginJob, WorkerReady
    <3>2. (Stops(w) \/ res' = res) /\ UNCHANGED worldVars
      BY <2>3 DEF BeginJob
    <3> QED BY <3>1, <3>2, StopsHeld, HoldingSame
  <2>4. CASE RouteOk(w)
    <3>1. res' = [res EXCEPT ![w] = @ \cup {"ok"}] /\ UNCHANGED worldVars
      BY <2>4 DEF RouteOk, RouteGave, worldVars
    <3> QED BY <2>0, <3>1, HoldingSame
  <2>5. CASE RouteFails(w)
    <3>1. PICK what \in {{}, {"ok", "failed"}} : res' = [res EXCEPT ![w] = @ \cup what]
      BY <2>5 DEF RouteFails, RouteGave
    <3>2. UNCHANGED worldVars
      BY <2>5 DEF RouteFails, RouteGave, worldVars
    <3> QED BY <2>0, <3>1, <3>2, HoldingSame
  <2>6. CASE RouteRefused(w)
    <3>1. PICK more \in {{}, {"ok"}} : res' = [res EXCEPT ![w] = @ \cup ({"refused"} \cup more)]
      BY <2>6 DEF RouteRefused, RouteGave
    <3>2. said' = said /\ swallowed' = swallowed /\ heard' = IF "refused" \in res[w] THEN heard ELSE heard + 1
      BY <2>6 DEF RouteRefused, RouteGave
    <3>3. "refused" \in res'[w] /\ \A v \in Workers \ {w} : res'[v] = res[v]
      BY <2>0, <3>1
    <3>4. CASE "refused" \in res[w]
      BY <3>2, <3>3, <3>4, HoldingSame DEF worldVars
    <3>5. CASE "refused" \notin res[w]
      BY <3>2, <3>3, <3>5, HoldingGrows
    <3> QED BY <3>4, <3>5
  <2>7. CASE JobEnds(w)
    <3>1. "refused" \notin res[w]
      BY <2>0, <2>7 DEF JobEnds, RouteGave, WorkerReady
    <3>2. CASE res' = [res EXCEPT ![w] = @ \cup {}] /\ UNCHANGED worldVars
      BY <2>0, <3>2, HoldingSame
    <3>3. CASE /\ res' = [res EXCEPT ![w] = @ \cup {"refused"}]
               /\ heard' = heard + 1 /\ said' = said /\ swallowed' = swallowed
      BY <2>0, <3>1, <3>3, HoldingGrows
    <3>4. CASE /\ res' = [res EXCEPT ![w] = @ \cup {}]
               /\ heard' = heard + 1 /\ said' = said /\ swallowed' = swallowed + 1
      BY <2>0, <3>4, HoldingSwallows
    <3> QED BY <2>7, <3>2, <3>3, <3>4 DEF JobEnds, RouteGave, worldVars
  <2>8. CASE EndRun(w)
    <3>1. UNCHANGED worldVars /\ (res' = res \/ (Stops(w) /\ "refused" \notin res[w]))
      BY <2>8 DEF EndRun, OnlyGoes, Refused
    <3> QED BY <3>1, StopsHeld, HoldingSame
  <2>9. CASE RecordRefusal(w)
    <3>1. /\ "refused" \in res[w] /\ res' = [res EXCEPT ![w] = {}]
          /\ heard' = heard /\ said' = said + 1 /\ swallowed' = swallowed
      BY <2>0, <2>9 DEF RecordRefusal, WorkerReady
    <3> QED BY <2>0, <3>1, HoldingShrinks
  <2>10. CASE OpenAlert(w) \/ EscalateAlert(w) \/ EndCooldown(w) \/ ResolveAlert(w) \/ DecayRefusal(w)
    <3>1. "refused" \notin res[w]
      BY <2>0, <2>10 DEF OpenAlert, EscalateAlert, EndCooldown, ResolveAlert, DecayRefusal, WorkerReady
    <3>2. (Stops(w) \/ res' = res) /\ UNCHANGED worldVars
      BY <2>10 DEF OpenAlert, EscalateAlert, EndCooldown, ResolveAlert, DecayRefusal, OnlyGoes
    <3> QED BY <3>1, <3>2, StopsHeld, HoldingSame
  <2> QED BY <1>1, <2>1, <2>2, <2>3, <2>4, <2>5, <2>6, <2>7, <2>8, <2>9, <2>10 DEF WorkerSteps
<1>2. CASE \/ \E w \in Workers : RunThrows(w)
           \/ \E e \in Evaluators : EvaluatorNext(e)
           \/ OperatorNext \/ CooldownEnds \/ ProbationEnds \/ IntervalPasses \/ UNCHANGED vars
  <2>1. ~ \E w \in Workers : RunThrows(w)
    BY DEF RunThrows, Spend
  <2>2. UNCHANGED <<res, worldVars>>
    BY <1>2, <2>1 DEF EvaluatorNext, EvalRow, EvalAlerts, EvalRoutes, EvalAct, OperatorNext, SwitchOff,
            SwitchOn, AdminReset, SetEnvReset, CooldownEnds, ProbationEnds, IntervalPasses, vars, runVars
  <2> QED BY <2>2, HoldingSame
<1> QED BY <1>1, <1>2 DEF Next

(* Without a fault that escapes the route loop, every refusal the source   *)
(* gave is recorded, or will be by the run or pass that has it, but those  *)
(* a maintenance pass swallowed: no run loses one.                         *)
THEOREM RefusalsAlwaysRecorded ==
    ASSUME "throw" \notin Faults
    PROVE  Spec => []RefusalsRecorded
<1>1. Init => RefusalsRecorded
  <2> SUFFICES ASSUME Init PROVE RefusalsRecorded
    OBVIOUS
  <2>1. Holding = {}
    BY DEF Init, Holding
  <2>2. Cardinality(Holding) = 0
    BY <2>1, FS_EmptySet
  <2>3. heard = 0 /\ said = 0 /\ swallowed = 0
    BY DEF Init
  <2> QED BY <2>2, <2>3 DEF RefusalsRecorded, Holding
<1>2. TypeInv /\ RefusalsRecorded /\ [Next]_vars => RefusalsRecorded'
  BY RefusalsStep
<1> QED BY <1>1, <1>2, Invariance, PTL DEF Spec

-----------------------------------------------------------------------------
(* What an environment reset may clear beside the refusal that it was      *)
(* approved for.                                                           *)

\* A reset is approved for what was recorded by then, and a run that is about to
\* clear the row has read a refusal that its reset covers.
ReadInv ==
    /\ denied <= said /\ last <= said
    /\ envReset <= approved /\ approved <= said
    /\ \A w \in Workers : env[w] <= approved /\ (pc[w] = "reset" => seen[w].denied <= approved)

\* The other steps of a worker bring no reset date and nobody to the reset.
LEMMA OthersRead ==
    ASSUME TypeInv, ReadInv, NEW w \in Workers, UNCHANGED <<envReset, approved>>,
           denied' <= said', last' <= said', said' \in {said, said + 1},
           Stops(w) \/ (UNCHANGED <<env, seen>> /\ \E p \in Pcs \ {"reset"} : Goes(w, p))
    PROVE  ReadInv'
<1>0. /\ env \in [Workers -> Nat] /\ pc \in [Workers -> Pcs] /\ seen \in [Workers -> Seen]
      /\ said \in Nat /\ approved \in Nat
  BY DEF TypeInv, WorkersInv, WorkersOK, WorldOK
<1>1. ASSUME NEW v \in Workers
      PROVE  env'[v] <= approved' /\ (pc'[v] = "reset" => seen'[v].denied <= approved')
  <2>1. env[v] <= approved /\ (pc[v] = "reset" => seen[v].denied <= approved)
    BY DEF ReadInv
  <2>2. env'[v] \in {0, env[v]} /\ (pc'[v] = "reset" => pc[v] = "reset" /\ seen'[v] = seen[v])
    BY <1>0 DEF Stops, Goes
  <2> QED BY <1>0, <2>1, <2>2
<1>2. approved' <= said'
  BY <1>0 DEF ReadInv
<1> QED BY <1>1, <1>2 DEF ReadInv

\* Every worker's step keeps ReadInv.
LEMMA WorkersRead ==
    ASSUME TypeInv, ReadInv, NEW w \in Workers, WorkerSteps(w) \/ RunThrows(w)
    PROVE  ReadInv'
<1>0. /\ env \in [Workers -> Nat] /\ pc \in [Workers -> Pcs] /\ seen \in [Workers -> Seen]
      /\ denied \in Nat /\ last \in Nat /\ said \in Nat /\ envReset \in Nat /\ approved \in Nat
  BY DEF TypeInv, WorkersInv, WorkersOK, RowsOK, WorldOK
<1>1. CASE StartRun(w)
  <2>1. UNCHANGED <<denied, last, said, envReset, approved, seen>> /\ Goes(w, "routes")
    BY <1>1 DEF StartRun, rowVars, worldVars, opVars
  <2>2. \A v \in Workers : env'[v] \in {0, envReset, env[v]} /\ (pc'[v] = "reset" => pc[v] = "reset")
    BY <1>0, <1>1, <2>1 DEF StartRun, Goes
  <2> QED BY <1>0, <2>1, <2>2 DEF ReadInv
<1>2. CASE ReadRefusal(w)
  <2>1. UNCHANGED <<denied, last, said, envReset, approved>>
    BY <1>2 DEF ReadRefusal, rowVars, worldVars, opVars
  <2>2. CASE GateState(w) = "cooldown"
    <3>1. Stops(w) BY <1>2, <2>2 DEF ReadRefusal
    <3> QED BY <1>0, <2>1, <3>1, OthersRead DEF ReadInv
  <2>3. CASE GateState(w) # "cooldown"
    <3>1. /\ env' = [env EXCEPT ![w] = 0] /\ seen'[w].denied = denied
          /\ \A v \in Workers \ {w} : seen'[v] = seen[v] /\ pc'[v] = pc[v]
          /\ pc'[w] = "reset" => GateState(w) = "reset"
      BY <1>0, <1>2, <2>3 DEF ReadRefusal, Goes
    <3>2. GateState(w) = "reset" => denied <= env[w]
      BY <1>0 DEF GateState, EnvReset
    <3>3. \A v \in Workers : env'[v] <= approved /\ (pc'[v] = "reset" => seen'[v].denied <= approved)
      BY <1>0, <3>1, <3>2 DEF ReadInv
    <3> QED BY <2>1, <3>3 DEF ReadInv
  <2> QED BY <2>2, <2>3
<1>3. CASE RecordRefusal(w)
  <2>1. /\ UNCHANGED <<envReset, approved, env, seen>> /\ Goes(w, "open")
        /\ denied' = said + 1 /\ last' = said + 1 /\ said' = said + 1
    BY <1>3 DEF RecordRefusal, opVars
  <2> QED BY <1>0, <2>1, OthersRead DEF Pcs
<1>4. CASE RouteOk(w) \/ RouteRefused(w) \/ RouteFails(w) \/ JobEnds(w)
  <2>1. \E p \in {NextPc(todo[w]), "jobs", "record"} : Goes(w, p) /\ UNCHANGED <<env, seen>>
    BY <1>4 DEF RouteOk, RouteRefused, RouteFails, JobEnds, RouteGave
  <2>2. UNCHANGED <<denied, last, said, envReset, approved>>
    BY <1>4 DEF RouteOk, RouteRefused, RouteFails, JobEnds, RouteGave, rowVars, opVars
  <2>3. \E p \in Pcs \ {"reset"} : Goes(w, p)
    BY <2>1, NextPcLeft DEF Pcs
  <2> QED BY <1>0, <2>1, <2>2, <2>3, OthersRead DEF ReadInv
<1>5. CASE EndCooldown(w) \/ DecayRefusal(w) \/ ResetByEnv(w)
  <2>1. Stops(w) \/ (UNCHANGED <<env, seen>> /\ \E p \in Pcs \ {"reset"} : Goes(w, p))
    BY <1>5 DEF EndCooldown, DecayRefusal, ResetByEnv, OnlyGoes, Pcs
  <2>2. denied' \in {0, denied} /\ last' \in {0, last} /\ UNCHANGED <<said, envReset, approved>>
    BY <1>5 DEF EndCooldown, DecayRefusal, ResetByEnv, ClearRefusal, worldVars, opVars
  <2> QED BY <1>0, <2>1, <2>2, OthersRead DEF ReadInv
<1>6. CASE \/ ReadRouteSwitches(w) \/ Claim(w) \/ RecheckSwitch(w) \/ RecheckRoute(w) \/ BeginRoute(w)
           \/ BeginJob(w) \/ RunThrows(w) \/ EndRun(w) \/ OpenAlert(w) \/ EscalateAlert(w) \/ ResolveAlert(w)
  <2>1. Stops(w) \/ (UNCHANGED <<env, seen>> /\ \E p \in Pcs \ {"reset"} : Goes(w, p))
    BY <1>6, NextPcLeft DEF ReadRouteSwitches, Claim, RecheckSwitch, RecheckRoute, BeginRoute, BeginJob,
            RunThrows, EndRun, OpenAlert, EscalateAlert, ResolveAlert, Skip, OnlyGoes, Pcs
  <2>2. UNCHANGED <<denied, last, said, envReset, approved>>
    BY <1>6 DEF ReadRouteSwitches, Claim, RecheckSwitch, RecheckRoute, BeginRoute, BeginJob, RunThrows,
            EndRun, OpenAlert, EscalateAlert, ResolveAlert, rowVars, worldVars, opVars
  <2> QED BY <1>0, <2>1, <2>2, OthersRead DEF ReadInv
<1> QED BY <1>1, <1>2, <1>3, <1>4, <1>5, <1>6 DEF WorkerSteps

\* ReadInv is kept by every step.
LEMMA ReadStep == TypeInv /\ ReadInv /\ [Next]_vars => ReadInv'
<1> SUFFICES ASSUME TypeInv, ReadInv, [Next]_vars PROVE ReadInv'
  OBVIOUS
<1>0. /\ env \in [Workers -> Nat] /\ seen \in [Workers -> Seen]
      /\ denied \in Nat /\ last \in Nat /\ said \in Nat /\ envReset \in Nat /\ approved \in Nat
  BY DEF TypeInv, WorkersInv, WorkersOK, RowsOK, WorldOK
<1>1. CASE UNCHANGED <<denied, last, said, envReset, approved, env, seen, pc>>
  BY <1>1 DEF ReadInv
<1>2. CASE AdminReset \/ SetEnvReset
  <2>1. /\ denied' \in {0, denied} /\ last' \in {0, last} /\ said' = said /\ approved' = said
        /\ envReset' \in {said, envReset} /\ UNCHANGED <<env, seen, pc>>
    BY <1>2 DEF AdminReset, SetEnvReset, ClearRefusal, rowVars, worldVars, runVars
  <2>2. \A w \in Workers : seen[w].denied \in Nat
    BY <1>0 DEF Seen
  <2> QED BY <1>0, <2>1, <2>2 DEF ReadInv
<1>3. CASE (\E e \in Evaluators : EvaluatorNext(e)) \/ CooldownEnds \/ ProbationEnds \/ IntervalPasses
           \/ UNCHANGED vars
  <2>1. UNCHANGED <<denied, last, said, envReset, approved, env, seen, pc>>
    BY <1>3 DEF EvaluatorNext, EvalRow, EvalAlerts, EvalRoutes, EvalAct, CooldownEnds, ProbationEnds,
            IntervalPasses, vars, rowVars, worldVars, opVars, runVars
  <2> QED BY <1>1, <2>1
<1>4. CASE \E s \in Switches : SwitchOff(s) \/ SwitchOn(s)
  <2>1. UNCHANGED <<denied, last, said, envReset, approved, env, seen, pc>>
    BY <1>4 DEF SwitchOff, SwitchOn, rowVars, worldVars, runVars
  <2> QED BY <1>1, <2>1
<1> QED BY <1>2, <1>3, <1>4, WorkersRead DEF Next, OperatorNext

\* The steps that change the refusal, with any resets.
LEMMA RefusalMoves ==
    ASSUME TypeInv, ReadInv, [Next]_vars
    PROVE  \/ denied' = denied /\ count' = count
           \/ \E w \in Workers : RecordRefusal(w) \/ EndCooldown(w) \/ DecayRefusal(w)
           \/ AdminReset
           \/ \E w \in Runs : pc[w] = "reset" /\ pc'[w] = "claim" /\ seen[w].denied <= approved
                                /\ approved' = approved
<1>1. ASSUME NEW w \in Workers, WorkerSteps(w) \/ RunThrows(w), ~ResetByEnv(w)
      PROVE  UNCHANGED rowVars \/ RecordRefusal(w) \/ EndCooldown(w) \/ DecayRefusal(w)
  BY <1>1 DEF WorkerSteps, RunThrows, StartRun, ReadRouteSwitches, ReadRefusal, Claim,
          RecheckSwitch, RecheckRoute, BeginRoute, RouteOk, RouteRefused, RouteFails, RouteGave,
          BeginJob, JobEnds, EndRun, OpenAlert, EscalateAlert, ResolveAlert
<1>2. ASSUME NEW w \in Workers, ResetByEnv(w)
      PROVE  w \in Runs /\ pc[w] = "reset" /\ pc'[w] = "claim" /\ seen[w].denied <= approved
             /\ approved' = approved
  <2>1. pc[w] = "reset" /\ Goes(w, "claim") /\ approved' = approved
    BY <1>2 DEF ResetByEnv, OnlyGoes, opVars
  <2>2. w \in Runs
    BY <2>1 DEF TypeInv, WorkersInv, WorkerReady, Workers
  <2>3. pc'[w] = "claim"
    BY <2>1 DEF TypeInv, WorkersInv, WorkersOK, Goes
  <2> QED BY <2>1, <2>2, <2>3 DEF ReadInv
<1>3. ASSUME NEW e \in Evaluators, EvaluatorNext(e) PROVE UNCHANGED rowVars
  BY <1>3 DEF EvaluatorNext, EvalRow, EvalAlerts, EvalRoutes, EvalAct
<1>4. CASE OperatorNext
  BY <1>4 DEF OperatorNext, SwitchOff, SwitchOn, SetEnvReset, rowVars
<1>5. CASE CooldownEnds \/ ProbationEnds \/ IntervalPasses \/ UNCHANGED vars
  BY <1>5 DEF CooldownEnds, ProbationEnds, IntervalPasses, vars, rowVars
<1> QED BY <1>1, <1>2, <1>3, <1>4, <1>5 DEF Next, rowVars

(* However runs, passes, resets and the operator overlap, a fresh refusal  *)
(* is lost in one way only: an environment reset clears what was recorded  *)
(* after its run had read the row (runCollection clears it without a       *)
(* guard). Every other refusal ends by a probe of that very refusal or by  *)
(* a reset that covers it; and the count is lost to a stale reset, or      *)
(* falls after its probation or by a reset that covers the last refusal.   *)
THEOREM OnlyStaleResetsLose ==
    Spec => /\ FreshRefusalKept
            /\ [][count' < count =>
                     \/ (denied = 0 /\ probation # "on") \/ last <= approved'
                     \/ StaleReset(last)]_vars
<1> DEFINE Falls == count' < count =>
                \/ (denied = 0 /\ probation # "on") \/ last <= approved'
                \/ StaleReset(last)
<1>1. ASSUME TypeInv, ReadInv, [Next]_vars PROVE EndsRightly /\ Falls
  <2>0. /\ count \in Nat /\ denied \in Nat /\ last \in Nat /\ said \in Nat /\ approved \in Nat
        /\ \A w \in Workers : seen[w].denied \in Nat
    BY <1>1 DEF TypeInv, RowsOK, WorldOK, WorkersInv, WorkersOK, Seen
  <2>1. CASE AdminReset
    BY <1>1, <2>0, <2>1 DEF AdminReset, ReadInv, EndsRightly
  <2>2. ASSUME NEW w \in Workers, EndCooldown(w) PROVE EndsRightly /\ Falls
    <3>1. pc[w] = "endCooldown" /\ WorkerReady(w)
      BY <1>1, <2>2 DEF EndCooldown, TypeInv, WorkersInv
    <3>2. w \in Runs /\ seen[w].gate = "probe"
      BY <3>1 DEF WorkerReady, Workers
    <3>3. count' = count /\ (denied # 0 /\ denied' = 0 => seen[w].denied = denied)
      BY <2>2 DEF EndCooldown
    <3> QED BY <2>0, <3>1, <3>2, <3>3 DEF EndsRightly
  <2>3. ASSUME NEW w \in Workers, RecordRefusal(w) PROVE EndsRightly /\ Falls
    <3>1. denied' = said + 1 /\ count' = PriorCount + 1
      BY <2>3 DEF RecordRefusal
    <3>2. EndsRightly BY <2>0, <3>1 DEF EndsRightly
    <3>3. Falls BY <2>0, <3>1 DEF PriorCount
    <3> QED BY <3>2, <3>3
  <2>4. ASSUME NEW w \in Workers, DecayRefusal(w) PROVE EndsRightly /\ Falls
    BY <2>0, <2>4 DEF DecayRefusal, EndsRightly
  <2>5. CASE denied' = denied /\ count' = count
    BY <2>0, <2>5 DEF EndsRightly
  <2>6. ASSUME NEW w \in Runs, pc[w] = "reset", pc'[w] = "claim", seen[w].denied <= approved,
               approved' = approved
        PROVE  EndsRightly /\ Falls
    <3>1. seen[w].denied \in Nat BY <2>0 DEF Workers
    <3>2. approved < denied => StaleReset(denied) BY <2>0, <2>6, <3>1 DEF StaleReset
    <3>3. approved < last => StaleReset(last) BY <2>0, <2>6, <3>1 DEF StaleReset
    <3> QED BY <2>0, <2>6, <3>2, <3>3 DEF EndsRightly
  <2> QED BY <1>1, <2>1, <2>2, <2>3, <2>4, <2>5, <2>6, RefusalMoves
<1>2. TypeInv /\ ReadInv /\ [Next]_vars => [EndsRightly]_vars /\ [Falls]_vars
  BY <1>1
<1>3. Init => ReadInv
  BY DEF Init, ReadInv
<1> QED BY <1>2, <1>3, ReadStep, Invariance, PTL DEF Spec, FreshRefusalKept
=============================================================================
