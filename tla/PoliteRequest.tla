--------------------------- MODULE PoliteRequest ---------------------------
(***************************************************************************)
(* One request of a collector, from the URL its route asks to the answer   *)
(* that ends it: the checks before every hop, robots.txt and its cache,    *)
(* retries, redirects, and the answers that mean no.                       *)
(*                                                                         *)
(*   src/collectors/http.js, robots.js, netguard.js, challenge.js          *)
(*                                                                         *)
(* The cache of robots.txt is shared by the runs of a process; the rest is *)
(* a run's own. A tick stands for the ten minutes of UNREACHABLE_TTL_MS.   *)
(* A step ends at every await on the network.                              *)
(***************************************************************************)
EXTENDS Naturals, FiniteSets

CONSTANTS
    Fetchers,           \* runs of one worker process
    Origins,
    FirstOrigin,        \* fetcher -> the origin its route asks first
    AllowedOrigins,     \* fetcher -> the origins its route may end at
    Credentialed,       \* fetchers whose request has a key, a cookie or a body
    HeldOrigins,        \* the rate-limit holds a run may start with
    MaxRedirects, MaxRetries, RobotsHops,
    RobotsLife,         \* TTL_MS
    Responses,          \* the answers that may come
    LastTenth,          \* bound: time
    LastRequest         \* bound: requests

SoftLife == 1           \* UNREACHABLE_TTL_MS

ASSUME PoliteAssumption ==
    /\ FirstOrigin \in [Fetchers -> Origins]
    /\ AllowedOrigins \in [Fetchers -> SUBSET Origins] /\ HeldOrigins \subseteq SUBSET Origins
    /\ Credentialed \subseteq Fetchers
    /\ MaxRedirects \in Nat /\ MaxRetries \in Nat /\ RobotsHops \in Nat \ {0}
    /\ RobotsLife \in Nat /\ LastTenth \in Nat /\ LastRequest \in Nat

\* What robots.txt was read as: its rules allow or disallow the page; there is
\* none (most 4xx); a plain 403; nothing that can be used.
Verdicts == {"allows", "disallows", "absent", "forbidden", "unreachable"}
Permitting == {"allows", "absent", "forbidden"}
\* Mutant: every verdict is good for a day.
LifeOfDay(v) == RobotsLife

LifeOf(v) == IF v \in {"forbidden", "unreachable"} /\ SoftLife < RobotsLife THEN SoftLife ELSE RobotsLife

VARIABLES
    tenth,          \* the time
    asks,           \* requests so far
    robots,         \* RobotsPolicy.cache: the origins read, [verdict, at]
    \* fetcher -> its request
    prAt,           \* "idle", "hop", "robots", "fetching", "page", "asked"
    target,         \* the origin of this hop
    robotsAt,       \* where robots.txt is asked, after its redirects
    hops, attempts, robotsHop,
    holding,        \* origins the run holds
    \* history
    saidNo,         \* the source has said no to this request
    permitted,      \* by the last word of the origin's robots.txt, when it was checked
    lastSaid        \* origin -> its last verdict and when

prRequest == <<target, robotsAt, hops, attempts, robotsHop, holding>>
prHistory == <<saidNo, permitted, lastSaid>>
PoliteVars == <<tenth, asks, robots, prAt, prRequest, prHistory>>

Said == [verdict : Verdicts, at : Nat]
Nothing == [verdict |-> "unreachable", at |-> 0]

\* The type invariant of the requests and of the cache of robots.txt.
PoliteTypeOK ==
    /\ tenth \in 0 .. LastTenth /\ asks \in 0 .. LastRequest
    /\ DOMAIN robots \subseteq Origins /\ \A o \in DOMAIN robots : robots[o] \in Said
    /\ prAt \in [Fetchers -> {"idle", "hop", "robots", "fetching", "page", "asked"}]
    /\ target \in [Fetchers -> Origins] /\ robotsAt \in [Fetchers -> Origins]
    /\ hops \in [Fetchers -> 0 .. MaxRedirects + 1] /\ attempts \in [Fetchers -> 0 .. MaxRetries]
    /\ robotsHop \in [Fetchers -> 0 .. RobotsHops]
    /\ holding \in [Fetchers -> SUBSET Origins]
    /\ saidNo \in [Fetchers -> BOOLEAN] /\ permitted \in [Fetchers -> BOOLEAN]
    /\ lastSaid \in [Origins -> Said]

PoliteInit ==
    /\ tenth = 0 /\ asks = 0 /\ robots = [o \in {} |-> Nothing]
    /\ prAt = [f \in Fetchers |-> "idle"]
    /\ target = FirstOrigin /\ robotsAt = FirstOrigin
    /\ hops = [f \in Fetchers |-> 0] /\ attempts = [f \in Fetchers |-> 0]
    /\ robotsHop = [f \in Fetchers |-> 0]
    /\ holding = [f \in Fetchers |-> {}]
    /\ saidNo = [f \in Fetchers |-> FALSE] /\ permitted = [f \in Fetchers |-> FALSE]
    /\ lastSaid = [o \in Origins |-> Nothing]

PrGoes(f, p) == prAt' = [prAt EXCEPT ![f] = p]

\* The request is over, with an answer or with an error.
Ends(f) ==
    /\ PrGoes(f, "idle")
    /\ target' = [target EXCEPT ![f] = FirstOrigin[f]] /\ robotsAt' = [robotsAt EXCEPT ![f] = FirstOrigin[f]]
    /\ hops' = [hops EXCEPT ![f] = 0] /\ attempts' = [attempts EXCEPT ![f] = 0]
    /\ robotsHop' = [robotsHop EXCEPT ![f] = 0]
    /\ holding' = [holding EXCEPT ![f] = {}]
    /\ permitted' = [permitted EXCEPT ![f] = FALSE]

StartRequest(f, held) ==
    /\ prAt[f] = "idle" /\ asks < LastRequest /\ PrGoes(f, "hop") /\ asks' = asks + 1
    /\ holding' = [holding EXCEPT ![f] = held]
    /\ saidNo' = [saidNo EXCEPT ![f] = FALSE]
    /\ UNCHANGED <<tenth, robots, target, robotsAt, hops, attempts, robotsHop, permitted, lastSaid>>

---------------------------------------------------------------------------
(* Answers                                                                 *)

\* What of an answer decides: its status ("401" stands for a 451 too, "error"
\* for no answer that may come again, "dns" for one that will not); a bot wall,
\* shown by a header or by the page; evidence of a spent limit on a 403, by
\* headers or by the body; the wait it names; whether its body can be decoded.
Response == [status : {"2xx", "304", "3xx", "401", "403", "4xx", "429", "5xx", "error", "dns"},
             wall : {"no", "header", "page"}, spent : {"no", "header", "body"},
             wait : {"none", "short", "long"}, decoded : BOOLEAN]

ASSUME ResponsesAssumption ==
    \A r \in Responses :
        /\ r \in Response
        /\ r.status \in {"304", "error", "dns"} => r.wall = "no" /\ r.decoded
        /\ r.status # "403" => r.spent = "no"
        /\ r.status \notin {"403", "429", "5xx"} => r.wait = "none"
        /\ ~r.decoded => r.wall # "page" /\ r.spent # "body"

Challenge(r) == r.wall # "no"

\* rateLimitSignal: a bot wall is none, whatever else it says.
SignalsLimit(r) == ~Challenge(r) /\ (r.status = "429" \/ (r.status = "403" /\ r.spent # "no"))

\* Mutant: a bot wall on a 429 or 5xx is asked again.
MayPassWall(r) == r.status = "error" \/ (r.status \in {"429", "5xx"} /\ r.decoded /\ r.wait # "long")

\* withRetries: waited for and asked again, unless it is too long to wait.
MayPass(r) ==
    \/ r.status = "error"
    \/ r.status \in {"429", "5xx"} /\ r.decoded /\ ~Challenge(r) /\ r.wait # "long"

\* request(): a bot wall is a refusal at any status. A limit is, too, when
\* it comes too often (RateHolds).
PageMeans(r) ==
    CASE Challenge(r) -> "refused"
      [] ~Challenge(r) /\ r.status = "3xx" /\ r.decoded -> "redirect"
      [] SignalsLimit(r) -> "limited"
      [] ~Challenge(r) /\ ~SignalsLimit(r) /\ r.status \in {"401", "403"} -> "refused"
      [] ~Challenge(r) /\ r.status \in {"2xx", "304"} /\ r.decoded -> "content"
      [] OTHER -> "failed"

\* classifyRobots and policyFor: a plain 403 is "no rules" here, but one that
\* names a wait, and any body that cannot be decoded, is no answer at all.
RobotsMeans(r) ==
    CASE SignalsLimit(r) -> "limited"
      [] Challenge(r) \/ r.status = "401" -> "refused"
      [] ~Challenge(r) /\ r.status = "2xx" /\ r.decoded -> "rules"
      [] ~Challenge(r) /\ r.status = "3xx" /\ r.decoded -> "redirect"
      [] ~Challenge(r) /\ r.status = "4xx" /\ r.decoded -> "absent"
      [] ~Challenge(r) /\ r.status = "403" /\ r.spent = "no" /\ r.decoded /\ r.wait = "none" -> "forbidden"
      [] OTHER -> "unreachable"

---------------------------------------------------------------------------
(* robots.js                                                               *)

Fresh(o) == o \in DOMAIN robots /\ tenth - robots[o].at < LifeOf(robots[o].verdict)

SendRobots(f) ==
    /\ prAt[f] = "robots" /\ robotsAt[f] \notin holding[f] /\ PrGoes(f, "fetching")
    /\ UNCHANGED <<tenth, asks, robots, prRequest, prHistory>>

\* A redirect into a host that is held: thrown, and nothing is cached.
RobotsHeld(f) ==
    /\ prAt[f] = "robots" /\ robotsAt[f] \in holding[f]
    /\ Ends(f) /\ UNCHANGED <<tenth, asks, robots, saidNo, lastSaid>>

\* The verdict is kept for the origin asked, whoever answered for it, and heeded.
Reads(f, v) ==
    LET said == [verdict |-> v, at |-> tenth]
    IN  /\ robots' = [o \in DOMAIN robots \cup {target[f]} |-> IF o = target[f] THEN said ELSE robots[o]]
        /\ lastSaid' = [lastSaid EXCEPT ![target[f]] = said]
        /\ IF v \in Permitting
           THEN /\ PrGoes(f, "page") /\ permitted' = [permitted EXCEPT ![f] = TRUE]
                /\ robotsAt' = [robotsAt EXCEPT ![f] = target[f]] /\ robotsHop' = [robotsHop EXCEPT ![f] = 0]
                /\ UNCHANGED <<target, hops, attempts, holding>>
           ELSE Ends(f)

\* What a robots.txt that refuses us says, whatever the code makes of it.
RobotsSaysNo(r) == Challenge(r) \/ SignalsLimit(r) \/ r.status = "401"

RobotsAnswered(f, r) ==
    LET means == RobotsMeans(r)
    IN  /\ prAt[f] = "fetching" /\ means # "redirect" /\ UNCHANGED <<tenth, asks>>
        /\ saidNo' = [saidNo EXCEPT ![f] = @ \/ RobotsSaysNo(r)]
        /\ \/ means = "rules" /\ (Reads(f, "allows") \/ Reads(f, "disallows"))
           \/ means \in Verdicts /\ Reads(f, means)
           \/ means \in {"refused", "limited"} /\ Ends(f) /\ UNCHANGED <<robots, lastSaid>>

\* robots.txt may redirect anywhere that is public; the fifth time is a 508.
RobotsRedirected(f, r, o) ==
    /\ prAt[f] = "fetching" /\ RobotsMeans(r) = "redirect" /\ UNCHANGED <<tenth, asks>>
    /\ saidNo' = [saidNo EXCEPT ![f] = @ \/ RobotsSaysNo(r)]
    /\ \/ /\ robotsHop[f] + 1 < RobotsHops /\ PrGoes(f, "robots")
          /\ robotsAt' = [robotsAt EXCEPT ![f] = o] /\ robotsHop' = [robotsHop EXCEPT ![f] = @ + 1]
          /\ UNCHANGED <<robots, target, hops, attempts, holding, permitted, lastSaid>>
       \/ robotsHop[f] + 1 = RobotsHops /\ Reads(f, "unreachable")

---------------------------------------------------------------------------
(* request()                                                               *)

\* What a hop is refused for before anything is sent to its origin.
HopRefused(f) ==
    \/ hops[f] > MaxRedirects
    \/ target[f] \notin AllowedOrigins[f]
    \/ target[f] \in holding[f]

\* History: the origin's last word, to whichever run, permits and still holds.
StillPermits(o) ==
    \/ lastSaid[o].verdict \in {"allows", "absent"} /\ tenth < lastSaid[o].at + RobotsLife
    \/ lastSaid[o].verdict = "forbidden" /\ tenth < lastSaid[o].at + SoftLife

CheckHop(f) ==
    /\ prAt[f] = "hop" /\ UNCHANGED <<tenth, asks, robots, saidNo, lastSaid>>
    /\ \/ HopRefused(f) /\ Ends(f)
       \/ ~HopRefused(f) /\ Fresh(target[f]) /\ robots[target[f]].verdict \notin Permitting /\ Ends(f)
       \/ /\ ~HopRefused(f) /\ Fresh(target[f]) /\ robots[target[f]].verdict \in Permitting
          /\ PrGoes(f, "page") /\ permitted' = [permitted EXCEPT ![f] = StillPermits(target[f])]
          /\ UNCHANGED prRequest
       \/ /\ ~HopRefused(f) /\ ~Fresh(target[f]) /\ PrGoes(f, "robots")
          /\ robotsAt' = [robotsAt EXCEPT ![f] = target[f]]
          /\ UNCHANGED <<target, hops, attempts, robotsHop, holding, permitted>>

SendPage(f) ==
    /\ prAt[f] = "page" /\ PrGoes(f, "asked")
    /\ UNCHANGED <<tenth, asks, robots, prRequest, prHistory>>

PageSaysNo(r) == Challenge(r) \/ r.status \in {"401", "403"} \/ (r.status = "429" /\ r.wait = "long")

AskAgain(f, r) ==
    /\ prAt[f] = "asked" /\ MayPass(r) /\ attempts[f] < MaxRetries /\ PrGoes(f, "page")
    /\ attempts' = [attempts EXCEPT ![f] = @ + 1]
    /\ saidNo' = [saidNo EXCEPT ![f] = @ \/ PageSaysNo(r)]
    /\ UNCHANGED <<tenth, asks, robots, target, robotsAt, hops, robotsHop, holding, permitted, lastSaid>>

PageAnswered(f, r) ==
    /\ prAt[f] = "asked" /\ ~(MayPass(r) /\ attempts[f] < MaxRetries) /\ PageMeans(r) # "redirect"
    /\ saidNo' = [saidNo EXCEPT ![f] = @ \/ PageSaysNo(r)]
    /\ Ends(f) /\ UNCHANGED <<tenth, asks, robots, lastSaid>>

\* A hop to another origin is refused to a request that carries credentials.
Redirects(f, r, o) ==
    /\ prAt[f] = "asked" /\ PageMeans(r) = "redirect" /\ UNCHANGED <<tenth, asks, robots, lastSaid>>
    /\ saidNo' = [saidNo EXCEPT ![f] = @ \/ PageSaysNo(r)]
    /\ \/ o # target[f] /\ f \in Credentialed /\ Ends(f)
       \/ /\ o = target[f] \/ f \notin Credentialed
          /\ PrGoes(f, "hop") /\ target' = [target EXCEPT ![f] = o]
          /\ hops' = [hops EXCEPT ![f] = @ + 1] /\ attempts' = [attempts EXCEPT ![f] = 0]
          /\ UNCHANGED <<robotsAt, robotsHop, holding, permitted>>

\* The run's deadline: the request under way is aborted, nothing is cached.
Deadline(f) ==
    /\ prAt[f] # "idle"
    /\ Ends(f) /\ UNCHANGED <<tenth, asks, robots, saidNo, lastSaid>>

TenMinutes ==
    /\ tenth < LastTenth /\ tenth' = tenth + 1
    /\ UNCHANGED <<asks, robots, prAt, prRequest, prHistory>>

PoliteNext ==
    \/ TenMinutes
    \/ \E f \in Fetchers :
        \/ \E H \in HeldOrigins : StartRequest(f, H)
        \/ CheckHop(f) \/ SendRobots(f) \/ RobotsHeld(f) \/ SendPage(f) \/ Deadline(f)
        \/ \E r \in Responses : RobotsAnswered(f, r) \/ AskAgain(f, r) \/ PageAnswered(f, r)
        \/ \E r \in Responses, o \in Origins : RobotsRedirected(f, r, o) \/ Redirects(f, r, o)

PoliteSpec == PoliteInit /\ [][PoliteNext]_PoliteVars

---------------------------------------------------------------------------
(* Properties.                                                             *)

\* A page is asked only of an origin whose robots.txt permitted it, by the last
\* word any run of this process read from it, not older than that word is good
\* for: a day for rules, ten minutes for a plain 403. Checked again at every
\* redirect (http.js, robots.js).
RobotsObeyed ==
    [][\A f \in Fetchers : SendPage(f) => permitted[f] /\ target[f] \in AllowedOrigins[f]]_PoliteVars

\* Once the source has said no to a request (a refusal, a bot wall at any
\* status, a limit, from the page or from robots.txt) nothing more is sent for
\* it; and what carries credentials goes to no other origin (http.js).
PoliteCalls ==
    [][\A f \in Fetchers :
         /\ SendPage(f) \/ SendRobots(f) => ~saidNo[f]
         /\ SendPage(f) /\ f \in Credentialed => target[f] = FirstOrigin[f]]_PoliteVars
=============================================================================
