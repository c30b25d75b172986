---------------------------- MODULE MCComponents ---------------------------
(***************************************************************************)
(* The instances of the components that share no state, checked side by    *)
(* side: in a behaviour only the component in focus moves, the others stay *)
(* in their first state. The reachable states are the sum of the           *)
(* components' own, and every property is that of its component.           *)
(***************************************************************************)
EXTENDS RateHolds, PoliteRequest, RedditJobs, Scheduling, TextRetention, RouteCursors, StoryPage,
        Maintenance, Watchdog, CycleJoin

CONSTANT Components

VARIABLE focus

---------------------------------------------------------------------------
(* RateHolds: a source at host a, and one at b that may redirect there.    *)

MCSourceOf == [r1 |-> "s1", r2 |-> "s2"]
MCHostsOf == [s1 |-> {"a"}, s2 |-> {"a", "b"}]
MCEntryOf == [s1 |-> "a", s2 |-> "b"]
MCRedirectsTo == [a |-> {}, b |-> {"a"}]
MCLimitAnswers == {<<"body", 0>>, <<"retry_after_5xx", 1>>, <<"remaining_zero", 2>>}

(* PoliteRequest: f2 carries a key.                                        *)

MCFirstOrigin == [f1 |-> "a", f2 |-> "b"]
MCAllowedOrigins == [f1 |-> {"a", "b"}, f2 |-> {"a", "b"}]

Answer(s, w, e, t, d) == [status |-> s, wall |-> w, spent |-> e, wait |-> t, decoded |-> d]

MCResponses ==
    {Answer(s, "no", "no", "none", TRUE) : s \in {"2xx", "3xx", "401", "403", "4xx", "error"}}
    \cup {Answer("3xx", "header", "no", "none", TRUE), Answer("403", "no", "header", "none", TRUE),
          Answer("429", "no", "no", "short", TRUE), Answer("429", "header", "no", "short", TRUE),
          Answer("403", "no", "no", "none", FALSE)}

(* Scheduling: the gated route api replaces feed once it is approved.      *)

Env(sound, approver, off, keyed) ==
    [allowed |-> TRUE, sound |-> sound, approver |-> approver, configured |-> {"feed", "api"},
     off |-> off, window |-> 1, keyed |-> keyed]

MCEnvs == {Env(TRUE, "ann", {}, 0), Env(TRUE, "none", {}, 2), Env(FALSE, "none", {"feed"}, 0)}
MCReplacedBy == [api |-> {"feed"}, feed |-> {}]
MCPollOf == [api |-> 3, feed |-> 1]

(* TextRetention: two posts under platform terms, another, and a demo post. *)

MCTrSourceOf == <<"reddit", "reddit", "blog", "demo">>
MCTrSources == <<"blog", "reddit">>

(* RouteCursors: sources with one route of a kind, and one with two.       *)

MCRouteLists == {<<"dataset">>, <<"feeds">>, <<"search">>, <<"alerts">>, <<"hits", "site">>}
MCKindOf == [dataset |-> "files", site |-> "files", feeds |-> "feeds", search |-> "search", hits |-> "search",
             alerts |-> "mailbox"]
MCMostUnits == [dataset |-> 2, site |-> 1, feeds |-> 2, search |-> 2, hits |-> 1, alerts |-> 1]
MCOutOfScope == {<<"feeds", 2>>}

(* StoryPage: the bundled data and the mixed snapshot lack a city.         *)

MCSpAnswers == {[mode |-> "live", cities |-> {"rome", "oslo"}], [mode |-> "none", cities |-> {"rome", "oslo"}],
                [mode |-> "mixed", cities |-> {"rome"}], [mode |-> "fallback", cities |-> {"rome"}]}

(* Maintenance: two days of two rows, one of them with a dropped count.    *)

MCMtDayOf == [a1 |-> "day1", a2 |-> "day1", b1 |-> "day2", b2 |-> "day2"]
MCMtDropped == [a1 |-> 2, a2 |-> NotRecorded, b1 |-> NotRecorded, b2 |-> NotRecorded]
MCMtChecks == <<"negative_dominance">>

(* Watchdog: a poll finds nothing wrong, a dead worker, no Redis, or no    *)
(* database.                                                               *)

Found(answer, db, redis, beat) ==
    [answer |-> answer, db |-> db, dbSaid |-> TRUE, redis |-> redis, beat |-> beat,
     queues |-> redis, bad |-> {}]

MCProbes == {Found("ok", TRUE, TRUE, "alive"), Found("ok", TRUE, TRUE, "stale"),
             Found("ok", TRUE, FALSE, "stale"), Found("5xx", FALSE, TRUE, "stale")}

---------------------------------------------------------------------------

ComponentsInit ==
    /\ focus \in Components
    /\ RateHoldsInit /\ PoliteInit /\ RedditInit /\ SchedulingInit /\ TextRetentionInit
    /\ RouteCursorsInit /\ StoryPageInit /\ MaintenanceInit /\ WatchdogInit /\ CycleJoinInit
    /\ focus # "Scheduling" => /\ routeKills = {} /\ lastGate = NoGate
                               /\ schEnv = [p \in Passes |-> Env(TRUE, "ann", {}, 0)]
    /\ focus # "TextRetention" => items = {}
    /\ focus # "Maintenance" => old = MtRows
    /\ focus # "RouteCursors" => routeList = <<"dataset">>
    /\ focus # "Watchdog" => smtp

RateHoldsMoves == focus = "RateHolds" /\ RateHoldsNext
    /\ UNCHANGED <<focus, PoliteVars, RedditVars, SchedulingVars, TextRetentionVars,
                   RouteCursorsVars, StoryPageVars, MaintenanceVars, WatchdogVars, CycleJoinVars>>
PoliteMoves == focus = "PoliteRequest" /\ PoliteNext
    /\ UNCHANGED <<focus, RateHoldsVars, RedditVars, SchedulingVars, TextRetentionVars,
                   RouteCursorsVars, StoryPageVars, MaintenanceVars, WatchdogVars, CycleJoinVars>>
RedditMoves == focus = "RedditJobs" /\ RedditNext
    /\ UNCHANGED <<focus, RateHoldsVars, PoliteVars, SchedulingVars, TextRetentionVars,
                   RouteCursorsVars, StoryPageVars, MaintenanceVars, WatchdogVars, CycleJoinVars>>
SchedulingMoves == focus = "Scheduling" /\ SchedulingNext
    /\ UNCHANGED <<focus, RateHoldsVars, PoliteVars, RedditVars, TextRetentionVars,
                   RouteCursorsVars, StoryPageVars, MaintenanceVars, WatchdogVars, CycleJoinVars>>
TextMoves == focus = "TextRetention" /\ TextRetentionNext
    /\ UNCHANGED <<focus, RateHoldsVars, PoliteVars, RedditVars, SchedulingVars,
                   RouteCursorsVars, StoryPageVars, MaintenanceVars, WatchdogVars, CycleJoinVars>>
CursorMoves == focus = "RouteCursors" /\ RouteCursorsNext
    /\ UNCHANGED <<focus, RateHoldsVars, PoliteVars, RedditVars, SchedulingVars,
                   TextRetentionVars, StoryPageVars, MaintenanceVars, WatchdogVars, CycleJoinVars>>
PageMoves == focus = "StoryPage" /\ StoryPageNext
    /\ UNCHANGED <<focus, RateHoldsVars, PoliteVars, RedditVars, SchedulingVars,
                   TextRetentionVars, RouteCursorsVars, MaintenanceVars, WatchdogVars, CycleJoinVars>>
MaintenanceMoves == focus = "Maintenance" /\ MaintenanceNext
    /\ UNCHANGED <<focus, RateHoldsVars, PoliteVars, RedditVars, SchedulingVars,
                   TextRetentionVars, RouteCursorsVars, StoryPageVars, WatchdogVars, CycleJoinVars>>
WatchdogMoves == focus = "Watchdog" /\ WatchdogNext
    /\ UNCHANGED <<focus, RateHoldsVars, PoliteVars, RedditVars, SchedulingVars, TextRetentionVars,
                   RouteCursorsVars, StoryPageVars, MaintenanceVars, CycleJoinVars>>
CycleMoves == focus = "CycleJoin" /\ CycleJoinNext
    /\ UNCHANGED <<focus, RateHoldsVars, PoliteVars, RedditVars, SchedulingVars, TextRetentionVars,
                   RouteCursorsVars, StoryPageVars, MaintenanceVars, WatchdogVars>>

ComponentsNext ==
    RateHoldsMoves \/ PoliteMoves \/ RedditMoves \/ SchedulingMoves \/ TextMoves
    \/ CursorMoves \/ PageMoves \/ MaintenanceMoves \/ WatchdogMoves
    \/ CycleMoves

ComponentsSpec == ComponentsInit
    /\ [][ComponentsNext]_<<focus, RateHoldsVars, PoliteVars, RedditVars, SchedulingVars,
                            TextRetentionVars, RouteCursorsVars, StoryPageVars, MaintenanceVars,
                            WatchdogVars, CycleJoinVars>>

\* The component that moves keeps the types of its state.
ComponentsTyped ==
    /\ focus = "RateHolds" => RateHoldsTypeOK
    /\ focus = "PoliteRequest" => PoliteTypeOK
    /\ focus = "RedditJobs" => RedditTypeOK
    /\ focus = "Scheduling" => SchedulingTypeOK
    /\ focus = "TextRetention" => TextRetentionTypeOK
    /\ focus = "RouteCursors" => RouteCursorsTypeOK
    /\ focus = "StoryPage" => StoryPageTypeOK
    /\ focus = "Maintenance" => MaintenanceTypeOK
    /\ focus = "Watchdog" => WatchdogTypeOK
    /\ focus = "CycleJoin" => CycleJoinTypeOK
\* A state is told from the others by what moves; the rest of it never changes.
InFocus ==
    <<focus,
      CASE focus = "RateHolds" -> RateHoldsVars [] focus = "PoliteRequest" -> PoliteVars
        [] focus = "RedditJobs" -> RedditVars [] focus = "Scheduling" -> SchedulingVars
        [] focus = "TextRetention" -> TextRetentionVars [] focus = "RouteCursors" -> RouteCursorsVars
        [] focus = "StoryPage" -> StoryPageVars [] focus = "Maintenance" -> MaintenanceVars
        [] focus = "Watchdog" -> WatchdogVars [] focus = "CycleJoin" -> CycleJoinVars>>
=============================================================================
