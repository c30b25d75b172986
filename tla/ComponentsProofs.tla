------------------------- MODULE ComponentsProofs --------------------------
(***************************************************************************)
(* Theorems about CycleJoin, for every number of processes and rows; then  *)
(* the components that share no state, side by side as MCComponents checks *)
(* them: what is proved of each alone holds of the composition, because    *)
(* its every step is a step of one component and leaves the others as they *)
(* were.                                                                   *)
(***************************************************************************)
EXTENDS MCComponents, RequestProofs, MaintenanceProofs, ReadSideProofs, TextRetentionProofs,
        WatchdogProofs

-----------------------------------------------------------------------------
(* CycleJoin. Who has what: the advisory lock is one joiner's, a row's lock
   one transaction's, and a joiner past its look at a row names one.        *)
CjTypes ==
    /\ CycleJoinTypeOK
    /\ \A p \in Joiners : cjPc[p] \in {"join", "joined", "working"} => cjFound[p] \in CjRows

CjLocks ==
    /\ \A p \in Joiners : cjPc[p] \in {"select", "join", "joined", "insert"} => p \in cjAdvisory
    /\ \A p, q \in cjAdvisory : p = q
    /\ \A j \in CjRows : \A a, b \in cjRowLock[j] : a = b
    /\ \A p \in Joiners : cjPc[p] = "joined" => p \in cjRowLock[cjFound[p]] /\ cjStatus[cjFound[p]] = "running"
    /\ \A c \in JoinClosers : \A j \in cjClaims[c] : c \in cjRowLock[j] /\ cjStatus[j] # "none"

(* The running rows a joiner has not chosen are past their window for as long
   as it holds the advisory lock.                                           *)
CjPast(j) == cjStarted[j] + Window <= cjNow

CjWindows ==
    /\ \A p \in Joiners : cjPc[p] \in CjInTransaction => cjSince[p] <= cjNow
    /\ \A p \in Joiners : cjPc[p] \in {"join", "joined"} => \A j \in CjRunning \ {cjFound[p]} : CjPast(j)
    /\ \A p \in Joiners : cjPc[p] = "insert" => \A j \in CjRunning : CjPast(j)
    /\ OneJoinableCycle

(* A row counts at least those who work under it.                           *)
CjWorkers(j) == {p \in Joiners : cjPc[p] = "working" /\ cjFound[p] = j}

CjCounts ==
    /\ \A j \in CjRows : Cardinality(CjWorkers(j)) <= cjInflight[j]
    /\ \A j \in CjRows : cjStatus[j] = "none" => CjWorkers(j) = {}
    /\ CountedWhileWorking

\* Types.
LEMMA CjTypesStep ==
    ASSUME CjTypes, [CycleJoinNext]_CycleJoinVars
    PROVE  CjTypes'
<1> USE JoinAssumption DEF CjTypes, CycleJoinTypeOK, CjGoes, CjForgets, CjUnlock, CjSpend, CjRowVars, CjInTransaction, CjRunning
<1>1. ASSUME NEW p \in Joiners, CjBegin(p) PROVE CjTypes'
  BY <1>1 DEF CjBegin
<1>2. ASSUME NEW p \in Joiners, CjTakeLock(p) PROVE CjTypes'
  BY <1>2 DEF CjTakeLock
<1>3. ASSUME NEW p \in Joiners, CjSelect(p) PROVE CjTypes'
  BY <1>3 DEF CjSelect
<1>4. ASSUME NEW p \in Joiners, CjJoin(p) PROVE CjTypes'
  BY <1>4 DEF CjJoin
<1>5. ASSUME NEW p \in Joiners, CjCommit(p) PROVE CjTypes'
  BY <1>5 DEF CjCommit
<1>6. ASSUME NEW p \in Joiners, CjInsert(p) PROVE CjTypes'
  BY <1>6 DEF CjInsert
<1>7. ASSUME NEW p \in Joiners, CjRollback(p) PROVE CjTypes'
  BY <1>7 DEF CjRollback
<1>8. ASSUME NEW p \in Joiners, CjRetryJoin(p) PROVE CjTypes'
  BY <1>8 DEF CjRetryJoin
<1>9. ASSUME NEW p \in Joiners, CjLeave(p) PROVE CjTypes'
  BY <1>9 DEF CjLeave
<1>10. ASSUME NEW p \in Joiners, CjDie(p) PROVE CjTypes'
  BY <1>10 DEF CjDie
<1>11. ASSUME NEW c \in JoinClosers, CjClaim(c) PROVE CjTypes'
  BY <1>11 DEF CjClaim
<1>12. ASSUME NEW c \in JoinClosers, CjMark(c) PROVE CjTypes'
  BY <1>12 DEF CjMark
<1>13. ASSUME NEW c \in JoinClosers, CjUnclaim(c) PROVE CjTypes'
  BY <1>13 DEF CjUnclaim
<1>14. CASE CjTick
  BY <1>14 DEF CjTick
<1>15. CASE UNCHANGED CycleJoinVars
  BY <1>15 DEF CycleJoinVars
<1> QED BY <1>1, <1>2, <1>3, <1>4, <1>5, <1>6, <1>7, <1>8, <1>9, <1>10, <1>11, <1>12, <1>13, <1>14, <1>15
        DEF CycleJoinNext

\* A lock is given to one, and kept until its transaction ends.
LEMMA CjLocksStep ==
    ASSUME CjTypes, CjLocks, [CycleJoinNext]_CycleJoinVars
    PROVE  CjLocks'
<1> USE JoinAssumption DEF CjTypes, CycleJoinTypeOK, CjLocks, CjGoes, CjForgets, CjUnlock, CjSpend, CjRowVars, CjInTransaction, CjRunning
<1>1. ASSUME NEW p \in Joiners, CjBegin(p) PROVE CjLocks'
  BY <1>1 DEF CjBegin
<1>2. ASSUME NEW p \in Joiners, CjTakeLock(p) PROVE CjLocks'
  BY <1>2 DEF CjTakeLock
<1>3. ASSUME NEW p \in Joiners, CjSelect(p) PROVE CjLocks'
  BY <1>3 DEF CjSelect
<1>4. ASSUME NEW p \in Joiners, CjJoin(p) PROVE CjLocks'
  BY <1>4 DEF CjJoin
<1>5. ASSUME NEW p \in Joiners, CjCommit(p) PROVE CjLocks'
  BY <1>5 DEF CjCommit
<1>6. ASSUME NEW p \in Joiners, CjInsert(p) PROVE CjLocks'
  BY <1>6 DEF CjInsert
<1>7. ASSUME NEW p \in Joiners, CjRollback(p) PROVE CjLocks'
  BY <1>7 DEF CjRollback
<1>8. ASSUME NEW p \in Joiners, CjRetryJoin(p) PROVE CjLocks'
  BY <1>8 DEF CjRetryJoin
<1>9. ASSUME NEW p \in Joiners, CjLeave(p) PROVE CjLocks'
  BY <1>9 DEF CjLeave
<1>10. ASSUME NEW p \in Joiners, CjDie(p) PROVE CjLocks'
  BY <1>10 DEF CjDie
<1>11. ASSUME NEW c \in JoinClosers, CjClaim(c) PROVE CjLocks'
  <2> DEFINE due == {j \in CjRows : CjDue(j) /\ cjRowLock[j] = {}}
  <2>1. \A j \in CjRows : cjRowLock'[j] = IF j \in due THEN {c} ELSE cjRowLock[j]
    BY <1>11 DEF CjClaim
  <2>2. \A d \in JoinClosers : cjClaims'[d] = IF d = c THEN due ELSE cjClaims[d]
    BY <1>11 DEF CjClaim
  <2>3. \A j \in due : j \in CjRows /\ cjRowLock[j] = {} /\ cjStatus[j] # "none"
    BY DEF CjDue
  <2> QED BY <1>11, <2>1, <2>2, <2>3 DEF CjClaim
<1>12. ASSUME NEW c \in JoinClosers, CjMark(c) PROVE CjLocks'
  BY <1>12 DEF CjMark
<1>13. ASSUME NEW c \in JoinClosers, CjUnclaim(c) PROVE CjLocks'
  BY <1>13 DEF CjUnclaim
<1>14. CASE CjTick
  BY <1>14 DEF CjTick
<1>15. CASE UNCHANGED CycleJoinVars
  BY <1>15 DEF CycleJoinVars
<1> QED BY <1>1, <1>2, <1>3, <1>4, <1>5, <1>6, <1>7, <1>8, <1>9, <1>10, <1>11, <1>12, <1>13, <1>14, <1>15
        DEF CycleJoinNext

\* Nobody else inserts or joins behind the advisory lock.
LEMMA CjWindowsStep ==
    ASSUME CjTypes, CjLocks, CjWindows, [CycleJoinNext]_CycleJoinVars
    PROVE  CjWindows'
<1> USE JoinAssumption DEF CjTypes, CycleJoinTypeOK, CjLocks, CjWindows, CjPast, OneJoinableCycle, CjGoes, CjForgets, CjUnlock, CjSpend, CjRowVars, CjInTransaction, CjRunning
<1>1. ASSUME NEW p \in Joiners, CjBegin(p) PROVE CjWindows'
  BY <1>1 DEF CjBegin
<1>2. ASSUME NEW p \in Joiners, CjTakeLock(p) PROVE CjWindows'
  BY <1>2 DEF CjTakeLock
<1>3. ASSUME NEW p \in Joiners, CjSelect(p) PROVE CjWindows'
  BY <1>3 DEF CjSelect
<1>4. ASSUME NEW p \in Joiners, CjJoin(p) PROVE CjWindows'
  BY <1>4 DEF CjJoin
<1>5. ASSUME NEW p \in Joiners, CjCommit(p) PROVE CjWindows'
  BY <1>5 DEF CjCommit
<1>6. ASSUME NEW p \in Joiners, CjInsert(p) PROVE CjWindows'
  BY <1>6 DEF CjInsert
<1>7. ASSUME NEW p \in Joiners, CjRollback(p) PROVE CjWindows'
  BY <1>7 DEF CjRollback
<1>8. ASSUME NEW p \in Joiners, CjRetryJoin(p) PROVE CjWindows'
  BY <1>8 DEF CjRetryJoin
<1>9. ASSUME NEW p \in Joiners, CjLeave(p) PROVE CjWindows'
  BY <1>9 DEF CjLeave
<1>10. ASSUME NEW p \in Joiners, CjDie(p) PROVE CjWindows'
  BY <1>10 DEF CjDie
<1>11. ASSUME NEW c \in JoinClosers, CjClaim(c) PROVE CjWindows'
  BY <1>11 DEF CjClaim
<1>12. ASSUME NEW c \in JoinClosers, CjMark(c) PROVE CjWindows'
  BY <1>12 DEF CjMark
<1>13. ASSUME NEW c \in JoinClosers, CjUnclaim(c) PROVE CjWindows'
  BY <1>13 DEF CjUnclaim
<1>14. CASE CjTick
  BY <1>14 DEF CjTick
<1>15. CASE UNCHANGED CycleJoinVars
  BY <1>15 DEF CycleJoinVars
<1> QED BY <1>1, <1>2, <1>3, <1>4, <1>5, <1>6, <1>7, <1>8, <1>9, <1>10, <1>11, <1>12, <1>13, <1>14, <1>15
        DEF CycleJoinNext

\* One worker more, one fewer.
LEMMA CjWorkersSize ==
    ASSUME NEW j, NEW p \in Joiners
    PROVE  /\ IsFiniteSet(CjWorkers(j)) /\ Cardinality(CjWorkers(j)) \in Nat
           /\ p \notin CjWorkers(j) => Cardinality(CjWorkers(j) \cup {p}) = Cardinality(CjWorkers(j)) + 1
           /\ p \in CjWorkers(j) => Cardinality(CjWorkers(j) \ {p}) = Cardinality(CjWorkers(j)) - 1
<1>1. CjWorkers(j) \subseteq Joiners
  BY DEF CjWorkers
<1>2. IsFiniteSet(CjWorkers(j))
  BY <1>1, JoinAssumption, FS_Subset
<1> QED BY <1>2, FS_CardinalityType, FS_AddElement, FS_RemoveElement

\* A step that starts or ends no work.
LEMMA CjSameWorkers ==
    ASSUME CjCounts, UNCHANGED <<cjInflight, cjStatus>>, cjForced \subseteq cjForced',
           \A j \in CjRows : CjWorkers(j)' = CjWorkers(j),
           \A p \in Joiners : cjPc'[p] = "working" => cjPc[p] = "working" /\ cjFound'[p] = cjFound[p]
    PROVE  CjCounts'
BY DEF CjCounts, CountedWhileWorking

\* A step that gives a row a worker, counted.
LEMMA CjGains ==
    ASSUME CjTypes, CjCounts, NEW p \in Joiners, NEW i \in CjRows,
           cjStatus[i] = "running", cjPc[p] # "working", cjPc' = [cjPc EXCEPT ![p] = "working"],
           cjFound' = [cjFound EXCEPT ![p] = i], cjInflight' = [cjInflight EXCEPT ![i] = @ + 1],
           UNCHANGED <<cjStatus, cjForced>>
    PROVE  CjCounts'
<1> USE DEF CjTypes, CycleJoinTypeOK
<1>1. \A j \in CjRows : CjWorkers(j)' = IF j = i THEN CjWorkers(j) \cup {p} ELSE CjWorkers(j)
  BY DEF CjWorkers
<1>2. p \notin CjWorkers(i)
  BY DEF CjWorkers
<1>3. ASSUME NEW j \in CjRows PROVE Cardinality(CjWorkers(j))' <= cjInflight'[j]
  <2>1. Cardinality(CjWorkers(j)) <= cjInflight[j] /\ Cardinality(CjWorkers(j)) \in Nat /\ cjInflight[j] \in Nat
    BY CjWorkersSize DEF CjCounts
  <2>2. CASE j = i
    <3>1. Cardinality(CjWorkers(j) \cup {p}) = Cardinality(CjWorkers(j)) + 1
      BY <1>2, <2>2, CjWorkersSize
    <3>2. Cardinality(CjWorkers(j))' = Cardinality(CjWorkers(j) \cup {p})
      BY <1>1, <2>2
    <3>3. cjInflight'[j] = cjInflight[j] + 1
      BY <2>2
    <3> QED BY <2>1, <3>1, <3>2, <3>3
  <2>3. CASE j # i
    <3>1. Cardinality(CjWorkers(j))' = Cardinality(CjWorkers(j))
      BY <1>1, <2>3
    <3>2. cjInflight'[j] = cjInflight[j]
      BY <2>3
    <3> QED BY <2>1, <3>1, <3>2
  <2> QED BY <2>2, <2>3
<1>4. \A j \in CjRows : cjStatus'[j] = "none" => CjWorkers(j)' = {}
  BY <1>1 DEF CjCounts
<1> QED BY <1>3, <1>4 DEF CjCounts, CountedWhileWorking

\* Slots are counted before the work and given back after it.
LEMMA CjCountsStep ==
    ASSUME CjTypes, CjLocks, CjCounts, [CycleJoinNext]_CycleJoinVars
    PROVE  CjCounts'
<1> USE JoinAssumption DEF CjTypes, CycleJoinTypeOK, CjGoes, CjForgets, CjUnlock, CjSpend, CjRowVars, CjInTransaction, CjRunning
<1>1. ASSUME NEW p \in Joiners, CjBegin(p) PROVE CjCounts'
  <2>1. \A j \in CjRows : CjWorkers(j)' = CjWorkers(j)
    BY <1>1 DEF CjBegin, CjWorkers
  <2> QED BY <1>1, <2>1, CjSameWorkers DEF CjBegin
<1>2. ASSUME NEW p \in Joiners, CjTakeLock(p) PROVE CjCounts'
  <2>1. \A j \in CjRows : CjWorkers(j)' = CjWorkers(j)
    BY <1>2 DEF CjTakeLock, CjWorkers
  <2> QED BY <1>2, <2>1, CjSameWorkers DEF CjTakeLock
<1>3. ASSUME NEW p \in Joiners, CjSelect(p) PROVE CjCounts'
  <2>1. \A j \in CjRows : CjWorkers(j)' = CjWorkers(j)
    BY <1>3 DEF CjSelect, CjWorkers
  <2> QED BY <1>3, <2>1, CjSameWorkers DEF CjSelect
<1>4. ASSUME NEW p \in Joiners, CjJoin(p) PROVE CjCounts'
  <2>1. \A j \in CjRows : CjWorkers(j)' = CjWorkers(j)
    BY <1>4 DEF CjJoin, CjWorkers
  <2> QED BY <1>4, <2>1, CjSameWorkers DEF CjJoin
<1>5. ASSUME NEW p \in Joiners, CjCommit(p) PROVE CjCounts'
  <2>1. cjFound[p] \in CjRows /\ cjStatus[cjFound[p]] = "running" /\ cjPc[p] # "working"
    BY <1>5 DEF CjCommit, CjLocks
  <2> QED BY <1>5, <2>1, CjGains DEF CjCommit
<1>6. ASSUME NEW p \in Joiners, CjInsert(p) PROVE CjCounts'
  <2>1. PICK i \in CjRows :
            /\ cjStatus[i] = "none" /\ cjStatus' = [cjStatus EXCEPT ![i] = "running"]
            /\ cjPc[p] # "working" /\ cjPc' = [cjPc EXCEPT ![p] = "working"]
            /\ cjFound' = [cjFound EXCEPT ![p] = i] /\ cjInflight' = [cjInflight EXCEPT ![i] = 1]
            /\ UNCHANGED cjForced
    BY <1>6 DEF CjInsert
  <2>2. \A j \in CjRows : CjWorkers(j)' = IF j = i THEN CjWorkers(j) \cup {p} ELSE CjWorkers(j)
    BY <2>1 DEF CjWorkers
  <2>3. CjWorkers(i) = {} /\ Cardinality({p}) = 1
    BY <2>1, FS_Singleton DEF CjCounts
  <2>4. ASSUME NEW j \in CjRows PROVE Cardinality(CjWorkers(j))' <= cjInflight'[j]
    <3>1. Cardinality(CjWorkers(j)) <= cjInflight[j] /\ Cardinality(CjWorkers(j)) \in Nat /\ cjInflight[j] \in Nat
      BY CjWorkersSize DEF CjCounts
    <3>2. CASE j = i
      <4>1. Cardinality(CjWorkers(j))' = Cardinality({p})
        BY <2>2, <2>3, <3>2
      <4> QED BY <2>1, <2>3, <3>2, <4>1
    <3>3. CASE j # i
      <4>1. Cardinality(CjWorkers(j))' = Cardinality(CjWorkers(j))
        BY <2>2, <3>3
      <4>2. cjInflight'[j] = cjInflight[j]
        BY <2>1, <3>3
      <4> QED BY <3>1, <4>1, <4>2
    <3> QED BY <3>2, <3>3
  <2>5. \A j \in CjRows : cjStatus'[j] = "none" => CjWorkers(j)' = {}
    BY <2>1, <2>2 DEF CjCounts
  <2>6. \A q \in Joiners : cjPc[q] = "working" => cjFound[q] # i
    BY <2>3 DEF CjWorkers
  <2>7. CountedWhileWorking'
    BY <2>1, <2>6 DEF CjCounts, CountedWhileWorking
  <2> QED BY <2>4, <2>5, <2>7 DEF CjCounts
<1>7. ASSUME NEW p \in Joiners, CjRollback(p) PROVE CjCounts'
  <2>1. \A j \in CjRows : CjWorkers(j)' = CjWorkers(j)
    BY <1>7 DEF CjRollback, CjWorkers
  <2> QED BY <1>7, <2>1, CjSameWorkers DEF CjRollback
<1>8. ASSUME NEW p \in Joiners, CjRetryJoin(p) PROVE CjCounts'
  <2>1. PICK i \in CjRunning :
            /\ cjRowLock[i] = {} /\ CjForgets(p, i)
            /\ cjInflight' = [cjInflight EXCEPT ![i] = cjInflight[i] + 1]
    BY <1>8, Zenon DEF CjRetryJoin
  <2>2. i \in CjRows /\ cjStatus[i] = "running" /\ cjFound' = [cjFound EXCEPT ![p] = i]
    BY <2>1
  <2> QED BY <1>8, <2>1, <2>2, CjGains DEF CjRetryJoin
<1>9. ASSUME NEW p \in Joiners, CjLeave(p) PROVE CjCounts'
  <2>1. PICK i \in CjRows :
            /\ cjFound[p] = i /\ cjPc[p] = "working" /\ cjPc' = [cjPc EXCEPT ![p] = "idle"]
            /\ cjFound' = [cjFound EXCEPT ![p] = NoRow]
            /\ \A j \in CjRows : cjInflight'[j] = IF j = i /\ cjInflight[j] > 0 THEN cjInflight[j] - 1 ELSE cjInflight[j]
            /\ UNCHANGED <<cjStatus, cjForced>>
    BY <1>9 DEF CjLeave
  <2>2. \A j \in CjRows : CjWorkers(j)' = IF j = i THEN CjWorkers(j) \ {p} ELSE CjWorkers(j)
    BY <2>1 DEF CjWorkers
  <2>3. p \in CjWorkers(i)
    BY <2>1 DEF CjWorkers
  <2>4. ASSUME NEW j \in CjRows PROVE Cardinality(CjWorkers(j))' <= cjInflight'[j]
    <3>1. Cardinality(CjWorkers(j)) <= cjInflight[j] /\ Cardinality(CjWorkers(j)) \in Nat /\ cjInflight[j] \in Nat
      BY CjWorkersSize DEF CjCounts
    <3>2. CASE j = i
      <4>1. Cardinality(CjWorkers(j))' = Cardinality(CjWorkers(j) \ {p})
        BY <2>2, <3>2
      <4>2. Cardinality(CjWorkers(j) \ {p}) = Cardinality(CjWorkers(j)) - 1
        BY <2>3, <3>2, CjWorkersSize
      <4>3. cjInflight'[j] = IF cjInflight[j] > 0 THEN cjInflight[j] - 1 ELSE cjInflight[j]
        BY <2>1, <3>2
      <4> QED BY <3>1, <4>1, <4>2, <4>3
    <3>3. CASE j # i
      <4>1. Cardinality(CjWorkers(j))' = Cardinality(CjWorkers(j))
        BY <2>2, <3>3
      <4>2. cjInflight'[j] = cjInflight[j]
        BY <2>1, <3>3
      <4> QED BY <3>1, <4>1, <4>2
    <3> QED BY <3>2, <3>3
  <2>5. \A j \in CjRows : cjStatus'[j] = "none" => CjWorkers(j)' = {}
    BY <2>1, <2>2 DEF CjCounts
  <2> QED BY <2>1, <2>4, <2>5 DEF CjCounts, CountedWhileWorking
<1>10. ASSUME NEW p \in Joiners, CjDie(p) PROVE CjCounts'
  <2>1. \A j \in CjRows : CjWorkers(j)' = IF j = cjFound[p] THEN CjWorkers(j) \ {p} ELSE CjWorkers(j)
    BY <1>10 DEF CjDie, CjWorkers
  <2>2. cjFound[p] \in CjRows /\ p \in CjWorkers(cjFound[p])
    BY <1>10 DEF CjDie, CjWorkers
  <2>3. \A j \in CjRows : Cardinality(CjWorkers(j)') <= cjInflight'[j]
    BY <1>10, <2>1, <2>2, CjWorkersSize DEF CjCounts, CjDie
  <2>4. \A j \in CjRows : cjStatus'[j] = "none" => CjWorkers(j)' = {}
    BY <1>10, <2>1 DEF CjCounts, CjDie
  <2> QED BY <1>10, <2>3, <2>4 DEF CjCounts, CountedWhileWorking, CjDie
<1>11. ASSUME NEW c \in JoinClosers, CjClaim(c) PROVE CjCounts'
  <2>1. \A j \in CjRows : CjWorkers(j)' = CjWorkers(j)
    BY <1>11 DEF CjClaim, CjWorkers
  <2> QED BY <1>11, <2>1, CjSameWorkers DEF CjClaim
<1>12. ASSUME NEW c \in JoinClosers, CjMark(c) PROVE CjCounts'
  <2>1. \A j \in CjRows : CjWorkers(j)' = CjWorkers(j)
    BY <1>12 DEF CjMark, CjWorkers
  <2>2. \A j \in CjRows : cjStatus'[j] = "none" => cjStatus[j] = "none"
    BY <1>12 DEF CjMark
  <2>3. ASSUME NEW q \in Joiners, cjPc'[q] = "working", cjStatus'[cjFound'[q]] # "running"
        PROVE  cjFound'[q] \in cjForced'
    <3>1. PICK i \in CjRows : i = cjFound[q] /\ cjFound'[q] = i /\ q \in CjWorkers(i)
      BY <1>12, <2>3 DEF CjMark, CjWorkers
    <3>2. CASE i \in cjClaims[c]
      <4>1. Cardinality(CjWorkers(i)) # 0
        BY <3>1, CjWorkersSize, FS_EmptySet
      <4>2. cjInflight[i] > 0
        <5>1. Cardinality(CjWorkers(i)) <= cjInflight[i] /\ Cardinality(CjWorkers(i)) \in Nat /\ cjInflight[i] \in Nat
          BY CjWorkersSize DEF CjCounts
        <5> QED BY <4>1, <5>1
      <4> QED BY <1>12, <3>1, <3>2, <4>2 DEF CjMark
    <3>3. CASE i \notin cjClaims[c]
      BY <1>12, <2>3, <3>1, <3>3 DEF CjMark, CjCounts, CountedWhileWorking
    <3> QED BY <3>2, <3>3
  <2>4. CountedWhileWorking'
    BY <2>3 DEF CountedWhileWorking
  <2> QED BY <1>12, <2>1, <2>2, <2>4 DEF CjMark, CjCounts
<1>13. ASSUME NEW c \in JoinClosers, CjUnclaim(c) PROVE CjCounts'
  <2>1. \A j \in CjRows : CjWorkers(j)' = CjWorkers(j)
    BY <1>13 DEF CjUnclaim, CjWorkers
  <2> QED BY <1>13, <2>1, CjSameWorkers DEF CjUnclaim
<1>14. CASE CjTick
  <2>1. \A j \in CjRows : CjWorkers(j)' = CjWorkers(j)
    BY <1>14 DEF CjTick, CjWorkers
  <2> QED BY <1>14, <2>1, CjSameWorkers DEF CjTick
<1>15. CASE UNCHANGED CycleJoinVars
  <2>1. \A j \in CjRows : CjWorkers(j)' = CjWorkers(j)
    BY <1>15 DEF CycleJoinVars, CjWorkers
  <2> QED BY <1>15, <2>1, CjSameWorkers DEF CycleJoinVars
<1> QED BY <1>1, <1>2, <1>3, <1>4, <1>5, <1>6, <1>7, <1>8, <1>9, <1>10, <1>11, <1>12, <1>13, <1>14, <1>15
        DEF CycleJoinNext

\* All of it, always.
LEMMA CjAlways == CycleJoinSpec => [](CjTypes /\ CjLocks /\ CjWindows /\ CjCounts)
<1>1. ASSUME CycleJoinInit PROVE CjTypes /\ CjLocks /\ CjWindows /\ CjCounts
  <2>1. CjTypes
    BY <1>1, JoinAssumption DEF CycleJoinInit, CjTypes, CycleJoinTypeOK
  <2>2. CjLocks /\ CjWindows
    BY <1>1 DEF CycleJoinInit, CjLocks, CjWindows, CjInTransaction, CjRunning, OneJoinableCycle
  <2>3. \A j \in CjRows : CjWorkers(j) = {}
    BY <1>1 DEF CycleJoinInit, CjWorkers
  <2>4. CjCounts
    BY <1>1, <2>3, FS_EmptySet DEF CycleJoinInit, CjCounts, CountedWhileWorking
  <2> QED BY <2>1, <2>2, <2>4
<1>2. CjTypes /\ CjLocks /\ CjWindows /\ CjCounts /\ [CycleJoinNext]_CycleJoinVars
          => (CjTypes /\ CjLocks /\ CjWindows /\ CjCounts)'
  BY CjTypesStep, CjLocksStep, CjWindowsStep, CjCountsStep
<1> QED BY <1>1, <1>2, PTL DEF CycleJoinSpec

\* For any number of processes, windows and waits: no two cycles take runs in
\* for the same window, and whoever was given a cycle is counted in it until it
\* leaves, unless the hard cap ends the wait (currentCycleJob, retryJobFor,
\* leaveCycle, claimDueCycles).
THEOREM CyclesNeverSplit == CycleJoinSpec => []OneJoinableCycle
<1>1. CjWindows => OneJoinableCycle
  BY DEF CjWindows
<1> QED BY <1>1, CjAlways, PTL

THEOREM WorkersAreCounted == CycleJoinSpec => []CountedWhileWorking
<1>1. CjCounts => CountedWhileWorking
  BY DEF CjCounts
<1> QED BY <1>1, CjAlways, PTL

THEOREM JoinTyped == CycleJoinSpec => []CycleJoinTypeOK
<1>1. CjTypes => CycleJoinTypeOK
  BY DEF CjTypes
<1> QED BY <1>1, CjAlways, PTL

-----------------------------------------------------------------------------
(* The composition.                                                         *)
\* The variables of every component.
AllVars == <<focus, RateHoldsVars, PoliteVars, RedditVars, SchedulingVars, TextRetentionVars,
             RouteCursorsVars, StoryPageVars, MaintenanceVars, WatchdogVars, CycleJoinVars>>

\* A behaviour of the composition is one of every component: it adds no step to
\* any of them, so that what is proved of each alone holds in the composition.
THEOREM ComponentsStandAlone ==
    ComponentsSpec =>
        /\ RateHoldsSpec /\ PoliteSpec /\ RedditSpec /\ SchedulingSpec /\ TextRetentionSpec
        /\ RouteCursorsSpec /\ StoryPageSpec /\ MaintenanceSpec /\ WatchdogSpec /\ CycleJoinSpec
<1> USE DEF RateHoldsMoves, PoliteMoves, RedditMoves, SchedulingMoves, TextMoves, CursorMoves,
            PageMoves, MaintenanceMoves, WatchdogMoves, CycleMoves
<1>1. ComponentsSpec => RateHoldsSpec
  <2>1. ComponentsInit => RateHoldsInit BY DEF ComponentsInit
  <2>2. [ComponentsNext]_AllVars => [RateHoldsNext]_RateHoldsVars
    BY DEF AllVars, ComponentsNext
  <2> QED BY <2>1, <2>2, PTL DEF ComponentsSpec, RateHoldsSpec, AllVars
<1>2. ComponentsSpec => PoliteSpec
  <2>1. ComponentsInit => PoliteInit BY DEF ComponentsInit
  <2>2. [ComponentsNext]_AllVars => [PoliteNext]_PoliteVars
    BY DEF AllVars, ComponentsNext
  <2> QED BY <2>1, <2>2, PTL DEF ComponentsSpec, PoliteSpec, AllVars
<1>3. ComponentsSpec => RedditSpec
  <2>1. ComponentsInit => RedditInit BY DEF ComponentsInit
  <2>2. [ComponentsNext]_AllVars => [RedditNext]_RedditVars
    BY DEF AllVars, ComponentsNext
  <2> QED BY <2>1, <2>2, PTL DEF ComponentsSpec, RedditSpec, AllVars
<1>4. ComponentsSpec => SchedulingSpec
  <2>1. ComponentsInit => SchedulingInit BY DEF ComponentsInit
  <2>2. [ComponentsNext]_AllVars => [SchedulingNext]_SchedulingVars
    BY DEF AllVars, ComponentsNext
  <2> QED BY <2>1, <2>2, PTL DEF ComponentsSpec, SchedulingSpec, AllVars
<1>5. ComponentsSpec => TextRetentionSpec
  <2>1. ComponentsInit => TextRetentionInit BY DEF ComponentsInit
  <2>2. [ComponentsNext]_AllVars => [TextRetentionNext]_TextRetentionVars
    BY DEF AllVars, ComponentsNext
  <2> QED BY <2>1, <2>2, PTL DEF ComponentsSpec, TextRetentionSpec, AllVars
<1>6. ComponentsSpec => RouteCursorsSpec
  <2>1. ComponentsInit => RouteCursorsInit BY DEF ComponentsInit
  <2>2. [ComponentsNext]_AllVars => [RouteCursorsNext]_RouteCursorsVars
    BY DEF AllVars, ComponentsNext
  <2> QED BY <2>1, <2>2, PTL DEF ComponentsSpec, RouteCursorsSpec, AllVars
<1>7. ComponentsSpec => StoryPageSpec
  <2>1. ComponentsInit => StoryPageInit BY DEF ComponentsInit
  <2>2. [ComponentsNext]_AllVars => [StoryPageNext]_StoryPageVars
    BY DEF AllVars, ComponentsNext
  <2> QED BY <2>1, <2>2, PTL DEF ComponentsSpec, StoryPageSpec, AllVars
<1>8. ComponentsSpec => MaintenanceSpec
  <2>1. ComponentsInit => MaintenanceInit BY DEF ComponentsInit
  <2>2. [ComponentsNext]_AllVars => [MaintenanceNext]_MaintenanceVars
    BY DEF AllVars, ComponentsNext
  <2> QED BY <2>1, <2>2, PTL DEF ComponentsSpec, MaintenanceSpec, AllVars
<1>9. ComponentsSpec => WatchdogSpec
  <2>1. ComponentsInit => WatchdogInit BY DEF ComponentsInit
  <2>2. [ComponentsNext]_AllVars => [WatchdogNext]_WatchdogVars
    BY DEF AllVars, ComponentsNext
  <2> QED BY <2>1, <2>2, PTL DEF ComponentsSpec, WatchdogSpec, AllVars
<1>10. ComponentsSpec => CycleJoinSpec
  <2>1. ComponentsInit => CycleJoinInit BY DEF ComponentsInit
  <2>2. [ComponentsNext]_AllVars => [CycleJoinNext]_CycleJoinVars
    BY DEF AllVars, ComponentsNext
  <2> QED BY <2>1, <2>2, PTL DEF ComponentsSpec, CycleJoinSpec, AllVars
<1> QED BY <1>1, <1>2, <1>3, <1>4, <1>5, <1>6, <1>7, <1>8, <1>9, <1>10

\* Every component keeps its types in the composition, whichever is in focus.
THEOREM ComponentsKeepTheirTypes == ComponentsSpec => []ComponentsTyped
<1>1. /\ RateHoldsTypeOK /\ PoliteTypeOK /\ RedditTypeOK /\ SchedulingTypeOK /\ TextRetentionTypeOK
      /\ RouteCursorsTypeOK /\ StoryPageTypeOK /\ MaintenanceTypeOK /\ WatchdogTypeOK /\ CycleJoinTypeOK
      => ComponentsTyped
  BY DEF ComponentsTyped
<1> QED BY <1>1, ComponentsStandAlone, HoldsKeepTheirTypes, PoliteTyped, RedditTyped, SchedulingTyped,
           TextRetentionTyped, CursorsTyped, PageTyped, MaintenanceTyped, WatchdogTyped, JoinTyped, PTL

\* What the run of the composition checks on its instance, for every instance.
THEOREM ComponentsKeepTheirPromises ==
    ComponentsSpec =>
        /\ HoldHonoured /\ RefusedFairly
        /\ PoliteCalls /\ RobotsObeyed
        /\ []RoomForCollection /\ []OneRunner /\ RecheckThorough
        /\ []OnePassSettles /\ NoEcho
        /\ []NothingOutlivesText /\ []OrderedLocks /\ RunIsThorough
        /\ []NothingSkipped
        /\ []PageHonest /\ []SelectionAgrees
        /\ []MaintenanceKept
        /\ LedgerKept /\ []EpisodesKept /\ ClosedOnEvidence /\ []OpeningsMailed /\ NotTwice
        /\ []OneJoinableCycle /\ []CountedWhileWorking
BY ComponentsStandAlone, HoldsAreHonoured, RefusalsAreFair, AlwaysPolite, RobotsAlwaysObeyed,
   RoomAlwaysLeft, OneRunnerAlways, CompleteIsThorough, OnePassAlwaysSettles, NoEchoEver,
   NothingOutlivesItsText, LocksAreOrdered, RunsAreThorough, NothingEverSkipped, PageIsHonest,
   SelectionsAgree, MaintenanceIsKept, LedgerImplemented, EpisodesAreKept, ClosedOnlyOnEvidence,
   OpeningsAreMailed, NoneIsSentTwice, CyclesNeverSplit, WorkersAreCounted
=============================================================================
