----------------------------- MODULE CycleJoin -----------------------------
(***************************************************************************)
(* How processes agree on one collection cycle (src/collectors/cycle.js),  *)
(* statement by statement: currentCycleJob's transaction under the         *)
(* advisory lock, retryJobFor's guarded UPDATE, leaveCycle, and the claim  *)
(* of due cycles with FOR UPDATE SKIP LOCKED. CollectionCycle takes each   *)
(* of them as one step; what makes that right is stated here. A statement  *)
(* sees what is committed when it starts; an UPDATE waits for a row's lock *)
(* and looks again. NOW() is the time the transaction began.               *)
(***************************************************************************)
EXTENDS Naturals, FiniteSets

CONSTANTS
    Joiners,        \* runs and scoring retries, of any number of processes
    JoinClosers,    \* processes that close cycles
    LastRow,        \* bound: rows 1 .. LastRow of trigger 'cron'
    Window, Grace,  \* windowMs and CYCLE_GRACE_MS
    HardCap,        \* hardCapMs(windowMs)
    LastNow,        \* bound: time goes from 0 to LastNow
    CjMaxFaults     \* bound: transactions rolled back, processes dead

ASSUME JoinAssumption ==
    /\ IsFiniteSet(Joiners) /\ Joiners \cap JoinClosers = {}
    /\ {LastRow, Window, Grace, HardCap, LastNow, CjMaxFaults} \subseteq Nat

CjRows == 1 .. LastRow
NoRow == 0

VARIABLES
    cjNow,
    cjStatus, cjStarted, cjInflight,  \* the columns of processing_jobs
    cjForced,    \* history: rows claimed at the hard cap, with slots taken
    cjAdvisory,  \* who holds the advisory lock
    cjRowLock,   \* per row: who holds its lock
    cjPc,        \* per joiner: its next statement
    cjSince,     \* ... NOW() of its transaction
    cjFound,     \* ... the row it selected, or works under
    cjClaims,    \* per closer: the rows its transaction locked
    cjLeft       \* faults left

CjRowVars == <<cjStatus, cjStarted, cjInflight, cjForced>>
CycleJoinVars == <<cjNow, CjRowVars, cjAdvisory, cjRowLock, cjPc, cjSince, cjFound, cjClaims, cjLeft>>

CjInTransaction == {"lock", "select", "join", "joined", "insert"}

CycleJoinTypeOK ==
    /\ cjNow \in 0 .. LastNow
    /\ cjStatus \in [CjRows -> {"none", "running", "closing"}]
    /\ cjStarted \in [CjRows -> 0 .. LastNow] /\ cjInflight \in [CjRows -> Nat]
    /\ cjForced \subseteq CjRows
    /\ cjAdvisory \subseteq Joiners
    /\ cjRowLock \in [CjRows -> SUBSET (Joiners \cup JoinClosers)]
    /\ cjPc \in [Joiners -> CjInTransaction \cup {"idle", "working"}]
    /\ cjSince \in [Joiners -> 0 .. LastNow] /\ cjFound \in [Joiners -> CjRows \cup {NoRow}]
    /\ cjClaims \in [JoinClosers -> SUBSET CjRows]
    /\ cjLeft \in 0 .. CjMaxFaults

CycleJoinInit ==
    /\ cjNow = 0
    /\ cjStatus = [j \in CjRows |-> "none"] /\ cjStarted = [j \in CjRows |-> 0]
    /\ cjInflight = [j \in CjRows |-> 0] /\ cjForced = {}
    /\ cjAdvisory = {} /\ cjRowLock = [j \in CjRows |-> {}]
    /\ cjPc = [p \in Joiners |-> "idle"] /\ cjSince = [p \in Joiners |-> 0]
    /\ cjFound = [p \in Joiners |-> NoRow] /\ cjClaims = [c \in JoinClosers |-> {}]
    /\ cjLeft = CjMaxFaults

CjGoes(p, pc) == cjPc' = [cjPc EXCEPT ![p] = pc]
\* The joiner has no transaction; it works under row j, or is done.
CjForgets(p, j) ==
    /\ cjSince' = [cjSince EXCEPT ![p] = 0]
    /\ cjFound' = [cjFound EXCEPT ![p] = j]
CjSpend == cjLeft > 0 /\ cjLeft' = cjLeft - 1
CjUnlock(who) == cjRowLock' = [j \in CjRows |-> cjRowLock[j] \ {who}]
CjRunning == {j \in CjRows : cjStatus[j] = "running"}

-----------------------------------------------------------------------------
(* currentCycleJob.                                                         *)
CjBegin(p) ==
    /\ cjPc[p] = "idle"
    /\ CjGoes(p, "lock")
    /\ cjSince' = [cjSince EXCEPT ![p] = cjNow]
    /\ UNCHANGED <<cjNow, CjRowVars, cjAdvisory, cjRowLock, cjFound, cjClaims, cjLeft>>

\* Mutant: no advisory lock.
CjTakeNoLock(p) ==
    /\ cjPc[p] = "lock"
    /\ CjGoes(p, "select")
    /\ UNCHANGED <<cjNow, CjRowVars, cjAdvisory, cjRowLock, cjSince, cjFound, cjClaims, cjLeft>>

CjTakeLock(p) ==
    /\ cjPc[p] = "lock"
    /\ cjAdvisory = {}
    /\ cjAdvisory' = {p}
    /\ CjGoes(p, "select")
    /\ UNCHANGED <<cjNow, CjRowVars, cjRowLock, cjSince, cjFound, cjClaims, cjLeft>>

\* The newest running row of the transaction's window.
CjSelect(p) ==
    /\ cjPc[p] = "select"
    /\ LET open == {j \in CjRunning : cjStarted[j] + Window > cjSince[p]}
       IN  \/ /\ open = {}
              /\ CjGoes(p, "insert")
              /\ UNCHANGED cjFound
           \/ \E j \in open :
                 /\ \A k \in open : cjStarted[k] <= cjStarted[j]
                 /\ cjFound' = [cjFound EXCEPT ![p] = j]
                 /\ CjGoes(p, "join")
    /\ UNCHANGED <<cjNow, CjRowVars, cjAdvisory, cjRowLock, cjSince, cjClaims, cjLeft>>

\* Mutant: the UPDATE does not look at the status again.
CjJoinBlindly(p) ==
    /\ cjPc[p] = "join"
    /\ cjRowLock[cjFound[p]] = {}
    /\ CjGoes(p, "joined")
    /\ cjRowLock' = [cjRowLock EXCEPT ![cjFound[p]] = {p}]
    /\ UNCHANGED <<cjNow, CjRowVars, cjAdvisory, cjSince, cjFound, cjClaims, cjLeft>>

\* ... is joined if, once its lock is had, it is still running.
CjJoin(p) ==
    /\ cjPc[p] = "join"
    /\ cjRowLock[cjFound[p]] = {}
    /\ IF cjStatus[cjFound[p]] = "running"
       THEN /\ CjGoes(p, "joined")
            /\ cjRowLock' = [cjRowLock EXCEPT ![cjFound[p]] = {p}]
       ELSE CjGoes(p, "insert") /\ UNCHANGED cjRowLock
    /\ UNCHANGED <<cjNow, CjRowVars, cjAdvisory, cjSince, cjFound, cjClaims, cjLeft>>

CjCommit(p) ==
    /\ cjPc[p] = "joined"
    /\ cjInflight' = [cjInflight EXCEPT ![cjFound[p]] = @ + 1]
    /\ CjGoes(p, "working") /\ CjForgets(p, cjFound[p])
    /\ cjAdvisory' = cjAdvisory \ {p}
    /\ CjUnlock(p)
    /\ UNCHANGED <<cjNow, cjStatus, cjStarted, cjForced, cjClaims, cjLeft>>

\* INSERT and COMMIT: nobody sees the row before the commit. It starts at the
\* NOW() of its transaction, that is, before the wait for the lock.
CjInsert(p) ==
    /\ cjPc[p] = "insert"
    /\ \E j \in CjRows :
          /\ cjStatus[j] = "none" /\ \A k \in CjRows : cjStatus[k] = "none" => j <= k
          /\ cjStatus' = [cjStatus EXCEPT ![j] = "running"]
          /\ cjStarted' = [cjStarted EXCEPT ![j] = cjSince[p]]
          /\ cjInflight' = [cjInflight EXCEPT ![j] = 1]
          /\ CjForgets(p, j)
    /\ CjGoes(p, "working")
    /\ cjAdvisory' = cjAdvisory \ {p}
    /\ UNCHANGED <<cjNow, cjForced, cjRowLock, cjClaims, cjLeft>>

\* A statement fails, or the process dies: the transaction is rolled back.
CjRollback(p) ==
    /\ cjPc[p] \in CjInTransaction
    /\ CjSpend
    /\ CjGoes(p, "idle") /\ CjForgets(p, NoRow)
    /\ cjAdvisory' = cjAdvisory \ {p}
    /\ CjUnlock(p)
    /\ UNCHANGED <<cjNow, CjRowVars, cjClaims>>

-----------------------------------------------------------------------------
\* retryJobFor: one UPDATE ... WHERE status = 'running', which waits for the
\* row's lock too; a row that is not running sends the retry to CjBegin.
CjRetryJoin(p) ==
    /\ cjPc[p] = "idle"
    /\ \E j \in CjRunning :
          /\ cjRowLock[j] = {}
          /\ cjInflight' = [cjInflight EXCEPT ![j] = @ + 1]
          /\ CjForgets(p, j)
    /\ CjGoes(p, "working")
    /\ UNCHANGED <<cjNow, cjStatus, cjStarted, cjForced, cjAdvisory, cjRowLock, cjClaims, cjLeft>>

CjLeave(p) ==
    /\ cjPc[p] = "working"
    /\ cjRowLock[cjFound[p]] = {}
    /\ cjInflight' = [cjInflight EXCEPT ![cjFound[p]] = IF @ > 0 THEN @ - 1 ELSE 0]
    /\ CjGoes(p, "idle") /\ CjForgets(p, NoRow)
    /\ UNCHANGED <<cjNow, cjStatus, cjStarted, cjForced, cjAdvisory, cjRowLock, cjClaims, cjLeft>>

\* The process dies, or leaveCycle's statement fails: the slot leaks.
CjDie(p) ==
    /\ cjPc[p] = "working"
    /\ CjSpend
    /\ CjGoes(p, "idle") /\ CjForgets(p, NoRow)
    /\ UNCHANGED <<cjNow, CjRowVars, cjAdvisory, cjRowLock, cjClaims>>

-----------------------------------------------------------------------------
(* claimDueCycles.                                                          *)
CjDue(j) ==
    \/ /\ cjStatus[j] = "running" /\ cjStarted[j] + Window + Grace <= cjNow
       /\ cjInflight[j] = 0 \/ cjStarted[j] + HardCap <= cjNow
    \/ cjStatus[j] = "closing" /\ cjStarted[j] + 2 * HardCap <= cjNow

CjClaim(c) ==
    /\ cjClaims[c] = {}
    /\ LET due == {j \in CjRows : CjDue(j) /\ cjRowLock[j] = {}}
       IN  /\ due # {}
           /\ cjClaims' = [cjClaims EXCEPT ![c] = due]
           /\ cjRowLock' = [j \in CjRows |-> IF j \in due THEN {c} ELSE cjRowLock[j]]
    /\ UNCHANGED <<cjNow, CjRowVars, cjAdvisory, cjPc, cjSince, cjFound, cjLeft>>

\* What becomes of a claimed row is CollectionCycle's.
CjMark(c) ==
    /\ cjClaims[c] # {}
    /\ cjStatus' = [j \in CjRows |-> IF j \in cjClaims[c] THEN "closing" ELSE cjStatus[j]]
    /\ cjForced' = cjForced \cup {j \in cjClaims[c] : cjInflight[j] > 0}
    /\ cjClaims' = [cjClaims EXCEPT ![c] = {}]
    /\ CjUnlock(c)
    /\ UNCHANGED <<cjNow, cjStarted, cjInflight, cjAdvisory, cjPc, cjSince, cjFound, cjLeft>>

CjUnclaim(c) ==
    /\ cjClaims[c] # {}
    /\ CjSpend
    /\ cjClaims' = [cjClaims EXCEPT ![c] = {}]
    /\ CjUnlock(c)
    /\ UNCHANGED <<cjNow, CjRowVars, cjAdvisory, cjPc, cjSince, cjFound>>

CjTick ==
    /\ cjNow < LastNow
    /\ cjNow' = cjNow + 1
    /\ UNCHANGED <<CjRowVars, cjAdvisory, cjRowLock, cjPc, cjSince, cjFound, cjClaims, cjLeft>>

CycleJoinNext ==
    \/ \E p \in Joiners :
          \/ CjBegin(p) \/ CjTakeLock(p) \/ CjSelect(p) \/ CjJoin(p) \/ CjCommit(p) \/ CjInsert(p)
          \/ CjRollback(p) \/ CjRetryJoin(p) \/ CjLeave(p) \/ CjDie(p)
    \/ \E c \in JoinClosers : CjClaim(c) \/ CjMark(c) \/ CjUnclaim(c)
    \/ CjTick

CycleJoinSpec == CycleJoinInit /\ [][CycleJoinNext]_CycleJoinVars

-----------------------------------------------------------------------------
\* Two cycles never take runs in for the same window, however long processes
\* wait for the lock, whichever transaction began first, and also when the
\* row a process selected is claimed before it can join (currentCycleJob).
OneJoinableCycle ==
    \A j, k \in CjRunning :
        cjStarted[j] + Window > cjNow /\ cjStarted[k] + Window > cjNow => j = k

\* A run or a retry that was given a cycle works under a row no closer has
\* claimed, unless at the hard cap: between the look at the row and the commit
\* of its slot nobody closes it, and a claim never overlooks a committed slot
\* (currentCycleJob, retryJobFor, leaveCycle, claimDueCycles).
CountedWhileWorking ==
    \A p \in Joiners :
        cjPc[p] = "working" => cjStatus[cjFound[p]] = "running" \/ cjFound[p] \in cjForced
=============================================================================
