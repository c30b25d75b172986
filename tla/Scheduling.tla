---------------------------- MODULE Scheduling -----------------------------
(***************************************************************************)
(* How a source comes to be collected: the pass of a worker process that   *)
(* keeps the source's repeatable job and records every change of its gate, *)
(* while operators throw the switches of the database.                     *)
(*                                                                         *)
(*   src/workers/collector.scheduler.js, src/collectors/governance.js,     *)
(*   src/config/source-registry.js (sourceStatus), scripts/source-admin.js *)
(*                                                                         *)
(* One source. A pass stands for a worker process, or for one of two       *)
(* overlapping passes of it: schedule() runs on an interval with no guard. *)
(***************************************************************************)
EXTENDS Naturals, FiniteSets

CONSTANTS
    Passes,
    SourceRoutes, StaleRoute,   \* the registry's routes, and one it no longer has
    GatedRoutes,                \* need a named approval
    ReplacedBy,                 \* route -> the routes it supersedes
    PollOf, BasePoll,           \* cadence a route's quota asks for; the source's own
    SchEnvs,                    \* environments a worker may be started with
    NoApprover,
    SchMaxChanges               \* bound: switches, restarts and failures

ASSUME SchedulingAssumption ==
    /\ IsFiniteSet(SourceRoutes) /\ GatedRoutes \subseteq SourceRoutes /\ StaleRoute \notin SourceRoutes
    /\ ReplacedBy \in [SourceRoutes -> SUBSET SourceRoutes]
    /\ PollOf \in [SourceRoutes -> Nat] /\ BasePoll \in Nat \ {0} /\ SchMaxChanges \in Nat
    /\ \A e \in SchEnvs : /\ e.allowed \in BOOLEAN      \* no env kill switch, contact URL set
                          /\ e.sound \in BOOLEAN        \* COLLECTORS_DISABLED_ROUTES names known routes
                          /\ e.configured \subseteq SourceRoutes
                          /\ e.off \subseteq SourceRoutes
                          /\ e.window \in Nat \ {0}     \* COLLECT_WINDOW_MS
                          /\ e.keyed \in Nat            \* pollIntervalSecWithEnv of a key it has; 0: none

VARIABLES
    registered,     \* cadence of the source's job scheduler; 0: none
    switched,       \* data_sources.collection_disabled_at
    routeKills,     \* source_route_state: routes switched off
    lastGate,       \* last gate_opened or gate_closed event of the source
    schEnv, schAt,  \* pass -> its environment; where it is
    killsRead,      \* pass -> the route switches it schedules by
    gateRead,       \* pass -> the event and the source switch it read
    toTell,         \* pass -> the event it is about to record
    quiet,          \* pass -> nothing else happened since it began
    schLeft

schReads == <<killsRead, gateRead, toTell>>
schPass == <<schEnv, schAt, schReads, quiet>>
SchedulingVars == <<registered, switched, routeKills, lastGate, schPass, schLeft>>

---------------------------------------------------------------------------
(* sourceStatus                                                            *)

Candidates(e) ==
    LET ready == {r \in e.configured : e.approver # NoApprover \/ r \notin GatedRoutes}
    IN  ready \ UNION {ReplacedBy[r] : r \in ready}

RunRoutes(e, kills) == Candidates(e) \ (e.off \cup kills)

\* A switch naming a route nobody knows holds the whole source.
HeldDisabled(e, kills) == ~e.allowed \/ ~e.sound \/ kills \ SourceRoutes # {}

StatusUnder(e, kills) ==
    LET off == e.off \cup kills
    IN  IF HeldDisabled(e, kills) THEN "disabled"
        ELSE IF RunRoutes(e, kills) # {} THEN "collecting"
        ELSE IF off # {} /\ (Candidates(e) # {} \/ SourceRoutes \subseteq off) THEN "disabled"
        ELSE "closed"       \* awaiting a key, an approval, a licence; or blocked

\* pollIntervalSec, and the window: a key's own cadence, or that of the slowest
\* open route.
AskedUnder(e, kills) ==
    IF e.keyed # 0 THEN {e.window, e.keyed}
    ELSE {e.window, BasePoll} \cup {PollOf[r] : r \in RunRoutes(e, kills)}

CadenceUnder(e, kills) ==
    IF StatusUnder(e, kills) # "collecting" THEN 0
    ELSE LET asked == AskedUnder(e, kills)
         IN  CHOOSE c \in asked : \A d \in asked : d <= c

\* The gate as it is recorded: the source's own switch closes it too.
GateUnder(e, off, kills) ==
    LET open == StatusUnder(e, kills) = "collecting" /\ ~off
        runs == RunRoutes(e, kills)
    IN  [status |-> IF StatusUnder(e, kills) = "collecting" /\ off THEN "disabled"
                    ELSE StatusUnder(e, kills),
         approver |-> IF open /\ runs \cap GatedRoutes # {} THEN e.approver ELSE NoApprover,
         routes |-> IF open THEN runs ELSE {},
         listed |-> TRUE]

\* Whether an event would only repeat the last one. One written before
\* migration 056 lists no routes, and never says the same as an open gate.
SameGate(last, gate) ==
    /\ last.status = gate.status
    /\ gate.status = "collecting" =>
            last.approver = gate.approver /\ last.listed /\ last.routes = gate.routes

---------------------------------------------------------------------------

NoGate == [status |-> "none", approver |-> NoApprover, routes |-> {}, listed |-> TRUE]
Unread == [last |-> NoGate, off |-> FALSE]
OldGate == [status |-> "collecting", approver |-> NoApprover, routes |-> {}, listed |-> FALSE]

Gates == [status : {"none", "collecting", "disabled", "closed"},
          approver : {e.approver : e \in SchEnvs} \cup {NoApprover},
          routes : SUBSET SourceRoutes, listed : BOOLEAN]

\* The type invariant of the scheduling of a source.
SchedulingTypeOK ==
    /\ registered \in {0, BasePoll} \cup {PollOf[r] : r \in SourceRoutes}
                     \cup {e.window : e \in SchEnvs} \cup {e.keyed : e \in SchEnvs}
    /\ switched \in BOOLEAN /\ routeKills \subseteq SourceRoutes \cup {StaleRoute}
    /\ lastGate \in Gates
    /\ schEnv \in [Passes -> SchEnvs]
    /\ schAt \in [Passes -> {"idle", "tidy", "gate", "kills", "insert", "upsert"}]
    /\ killsRead \in [Passes -> SUBSET (SourceRoutes \cup {StaleRoute})]
    /\ gateRead \in [Passes -> [last : Gates, off : BOOLEAN]]
    /\ toTell \in [Passes -> Gates]
    /\ quiet \in [Passes -> BOOLEAN] /\ schLeft \in 0 .. SchMaxChanges

SchedulingInit ==
    /\ registered = 0 /\ switched = FALSE /\ routeKills \in {{}, {StaleRoute}}
    /\ lastGate \in {NoGate, OldGate}
    /\ schEnv \in [Passes -> SchEnvs] /\ schAt = [p \in Passes |-> "idle"]
    /\ killsRead = [p \in Passes |-> {}]
    /\ gateRead = [p \in Passes |-> Unread] /\ toTell = [p \in Passes |-> NoGate]
    /\ quiet = [p \in Passes |-> FALSE] /\ schLeft = SchMaxChanges

SchSpend == schLeft > 0 /\ schLeft' = schLeft - 1 /\ quiet' = [p \in Passes |-> FALSE]
SchGoes(p, step) == schAt' = [schAt EXCEPT ![p] = step]

\* A pass ends: what it had read is gone.
PassEnds(p) ==
    /\ SchGoes(p, "idle") /\ killsRead' = [killsRead EXCEPT ![p] = {}]
    /\ gateRead' = [gateRead EXCEPT ![p] = Unread] /\ toTell' = [toTell EXCEPT ![p] = NoGate]

---------------------------------------------------------------------------
(* The operator, and the environment of a process.                         *)

\* source:disable and source:enable of the source or of one route, each one
\* transaction; a route the registry no longer has may only be cleared.
ThrowSwitch ==
    /\ SchSpend
    /\ \/ switched' = ~switched /\ UNCHANGED routeKills
       \/ \E r \in SourceRoutes : routeKills' = routeKills \cup {r} /\ UNCHANGED switched
       \/ \E r \in routeKills : routeKills' = routeKills \ {r} /\ UNCHANGED switched
    /\ UNCHANGED <<registered, lastGate, schEnv, schAt, schReads>>

\* A worker dies at any point of its pass, and is started again.
Redeploy(p) ==
    /\ SchSpend /\ \E e \in SchEnvs : schEnv' = [schEnv EXCEPT ![p] = e]
    /\ PassEnds(p)
    /\ UNCHANGED <<registered, switched, routeKills, lastGate>>

---------------------------------------------------------------------------
(* scheduleAllSources                                                      *)

\* The route switches are read; if they cannot be, the environment alone counts.
BeginPass(p) ==
    /\ schAt[p] = "idle"
    /\ \/ /\ killsRead' = [killsRead EXCEPT ![p] = routeKills] /\ UNCHANGED schLeft
          /\ quiet' = [q \in Passes |-> q = p /\ \A o \in Passes \ {p} : schAt[o] = "idle"]
       \/ SchSpend /\ killsRead' = [killsRead EXCEPT ![p] = {}]
    /\ SchGoes(p, "tidy")
    /\ UNCHANGED <<registered, switched, routeKills, lastGate, schEnv, gateRead, toTell>>

\* A scheduler whose source no longer collects is removed.
TidySchedulers(p) ==
    /\ schAt[p] = "tidy"
    /\ registered' = IF CadenceUnder(schEnv[p], killsRead[p]) = 0 THEN 0 ELSE registered
    /\ SchGoes(p, "gate")
    /\ UNCHANGED <<switched, routeKills, lastGate, schEnv, schReads, quiet, schLeft>>

\* recordGateTransitions: two reads, the second after the first.
ReadGate(p) ==
    /\ schAt[p] = "gate"
    /\ gateRead' = [gateRead EXCEPT ![p] = [last |-> lastGate, off |-> switched]]
    /\ SchGoes(p, "kills")
    /\ UNCHANGED <<registered, switched, routeKills, lastGate, schEnv, killsRead, toTell, quiet, schLeft>>

\* Mutant: the gate is recorded by every pass.
CompareNothing(p) ==
    /\ schAt[p] = "kills" /\ SchGoes(p, "insert")
    /\ toTell' = [toTell EXCEPT ![p] = GateUnder(schEnv[p], gateRead[p].off, routeKills)]
    /\ UNCHANGED <<registered, switched, routeKills, lastGate, schEnv, killsRead, gateRead, quiet, schLeft>>

CompareGate(p) ==
    /\ schAt[p] = "kills"
    /\ LET gate == GateUnder(schEnv[p], gateRead[p].off, routeKills)
       IN  IF SameGate(gateRead[p].last, gate) THEN SchGoes(p, "upsert") /\ UNCHANGED toTell
           ELSE SchGoes(p, "insert") /\ toTell' = [toTell EXCEPT ![p] = gate]
    /\ UNCHANGED <<registered, switched, routeKills, lastGate, schEnv, killsRead, gateRead, quiet, schLeft>>

RecordGate(p) ==
    /\ schAt[p] = "insert"
    /\ lastGate' = toTell[p] /\ SchGoes(p, "upsert")
    /\ UNCHANGED <<registered, switched, routeKills, schEnv, schReads, quiet, schLeft>>

\* A failure of the gate's reads or of its insert is logged; the pass goes on.
GateFails(p) ==
    /\ schAt[p] \in {"gate", "kills", "insert"}
    /\ SchSpend /\ SchGoes(p, "upsert")
    /\ UNCHANGED <<registered, switched, routeKills, lastGate, schEnv, schReads>>

\* Mutant: the cadence is that of the environment alone.
EndPassByEnv(p) ==
    /\ schAt[p] = "upsert"
    /\ LET every == CadenceUnder(schEnv[p], {})
       IN  registered' = IF every = 0 THEN registered ELSE every
    /\ PassEnds(p)
    /\ UNCHANGED <<switched, routeKills, lastGate, schEnv, quiet, schLeft>>

\* The job scheduler of a collecting source is added or given its cadence.
EndPass(p) ==
    /\ schAt[p] = "upsert"
    /\ LET every == CadenceUnder(schEnv[p], killsRead[p])
       IN  registered' = IF every = 0 THEN registered ELSE every
    /\ PassEnds(p)
    /\ UNCHANGED <<switched, routeKills, lastGate, schEnv, quiet, schLeft>>

\* Redis fails: the whole pass is given up until the next one.
PassFails(p) ==
    /\ schAt[p] \in {"tidy", "upsert"}
    /\ SchSpend /\ PassEnds(p)
    /\ UNCHANGED <<registered, switched, routeKills, lastGate, schEnv>>

SchedulingNext ==
    \/ ThrowSwitch
    \/ \E p \in Passes :
        \/ Redeploy(p) \/ BeginPass(p) \/ TidySchedulers(p) \/ ReadGate(p)
        \/ CompareGate(p) \/ RecordGate(p) \/ GateFails(p) \/ EndPass(p) \/ PassFails(p)

SchedulingSpec == SchedulingInit /\ [][SchedulingNext]_SchedulingVars

---------------------------------------------------------------------------

\* After a pass in which nothing failed and nothing else happened, and until
\* something does, the source's job runs at the cadence its environment and
\* the route switches give it, or not at all; and the last gate event names
\* the status, the approver and the routes that are in force. So whatever
\* overlapping passes, stale reads and failures left behind, one undisturbed
\* pass puts right.
OnePassSettles ==
    \A p \in Passes :
        schAt[p] = "idle" /\ quiet[p] =>
            /\ registered = CadenceUnder(schEnv[p], routeKills)
            /\ SameGate(lastGate, GateUnder(schEnv[p], switched, routeKills))

\* Two gate events of a source in a row say the same only when two passes
\* overlapped, or something changed while a pass was under way.
NoEcho ==
    [][\A p \in Passes :
            schAt[p] = "insert" /\ schAt'[p] = "upsert" /\ SameGate(lastGate, lastGate') =>
                ~quiet[p] \/ schLeft' < schLeft]_SchedulingVars
=============================================================================
