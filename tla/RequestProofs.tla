-------------------------- MODULE RequestProofs ---------------------------
(***************************************************************************)
(* Proofs about a source's requests.                                       *)
(*                                                                         *)
(* RateHolds: the records of rate limits are merged by several processes   *)
(* in no particular order (combineHold, mergeHolds, saveHolds), so their   *)
(* combination must not depend on it.                                      *)
(* For any sources, hosts, runs and answers a held host is not asked, and  *)
(* no limit is counted twice.                                              *)
(*                                                                         *)
(* PoliteRequest, for any origins, any number of runs, any answers and any *)
(* limits of redirects and retries: a request that was told no sends       *)
(* nothing more, credentials stay at their origin, and a page is asked     *)
(* only where robots.txt permits it.                                       *)
(***************************************************************************)
EXTENDS RateHolds, PoliteRequest, WellFoundedInduction, TLAPS

-----------------------------------------------------------------------------
(* RateHolds.                                                               *)

\* The order of two streaks is strict and total, up to equal streaks.
LEMMA StreaksOrdered ==
    ASSUME NEW a \in Hold, NEW b \in Hold
    PROVE  /\ ~(LaterStreak(a, b) /\ LaterStreak(b, a))
           /\ ~LaterStreak(a, b) /\ ~LaterStreak(b, a)
                => a.limitAt = b.limitAt /\ a.count = b.count /\ a.weak = b.weak /\ a.strong = b.strong
BY DEF Hold, LaterStreak

\* Two records of a host combine to a record, the same in either order.
THEOREM CombinedEitherWay ==
    ASSUME NEW a \in Hold, NEW b \in Hold
    PROVE  CombineHold(a, b) \in Hold /\ CombineHold(a, b) = CombineHold(b, a)
BY StreaksOrdered DEF Hold, CombineHold, OutlastsCause, Larger

\* What a record says of its streaks, and of the cause of its hold.
Streaks(e) == [limitAt |-> e.limitAt, count |-> e.count, weak |-> e.weak, strong |-> e.strong]
SameStreaks(a, b) == a.limitAt = b.limitAt /\ a.count = b.count /\ a.weak = b.weak /\ a.strong = b.strong
SameHold(a, b) == a.until = b.until /\ a.cause = b.cause

\* A combination's streaks are those of the later record, and its end and its
\* cause those of the one that outlasts the other.
LEMMA CombinedParts ==
    ASSUME NEW a \in Hold, NEW b \in Hold
    PROVE  LET e == CombineHold(a, b)
           IN  /\ e \in Hold
               /\ SameStreaks(e, IF LaterStreak(b, a) THEN b ELSE a)
               /\ SameHold(e, IF OutlastsCause(b, a) THEN b ELSE a)
BY DEF Hold, CombineHold, OutlastsCause, LaterStreak, Larger, SameStreaks, SameHold

\* Records with the same parts are compared alike, and are the same.
LEMMA PartsDecide ==
    ASSUME NEW a \in Hold, NEW b \in Hold, NEW c \in Hold
    PROVE  /\ SameStreaks(a, b) => /\ LaterStreak(a, c) = LaterStreak(b, c)
                                   /\ LaterStreak(c, a) = LaterStreak(c, b)
           /\ SameHold(a, b) => /\ OutlastsCause(a, c) = OutlastsCause(b, c)
                                /\ OutlastsCause(c, a) = OutlastsCause(c, b)
           /\ SameStreaks(a, b) /\ SameHold(a, b) => a = b
BY DEF Hold, LaterStreak, OutlastsCause, SameStreaks, SameHold

\* Three records of a host combine to the same record in any order.
THEOREM CombinedInAnyOrder ==
    ASSUME NEW a \in Hold, NEW b \in Hold, NEW c \in Hold
    PROVE  CombineHold(CombineHold(a, b), c) = CombineHold(a, CombineHold(b, c))
<1> DEFINE ab == CombineHold(a, b)
           bc == CombineHold(b, c)
           left == CombineHold(ab, c)
           right == CombineHold(a, bc)
<1>1. /\ ab \in Hold /\ SameStreaks(ab, IF LaterStreak(b, a) THEN b ELSE a)
      /\ SameHold(ab, IF OutlastsCause(b, a) THEN b ELSE a)
  BY CombinedParts
<1>2. /\ bc \in Hold /\ SameStreaks(bc, IF LaterStreak(c, b) THEN c ELSE b)
      /\ SameHold(bc, IF OutlastsCause(c, b) THEN c ELSE b)
  BY CombinedParts
<1> HIDE DEF ab, bc
<1>3. /\ left \in Hold /\ SameStreaks(left, IF LaterStreak(c, ab) THEN c ELSE ab)
      /\ SameHold(left, IF OutlastsCause(c, ab) THEN c ELSE ab)
  BY <1>1, CombinedParts
<1>4. /\ right \in Hold /\ SameStreaks(right, IF LaterStreak(bc, a) THEN bc ELSE a)
      /\ SameHold(right, IF OutlastsCause(bc, a) THEN bc ELSE a)
  BY <1>2, CombinedParts
<1> HIDE DEF left, right
<1>5. SameStreaks(left, right)
  BY <1>1, <1>2, <1>3, <1>4 DEF Hold, LaterStreak, SameStreaks
<1>6. SameHold(left, right)
  BY <1>1, <1>2, <1>3, <1>4 DEF Hold, OutlastsCause, SameHold
<1>7. left = right BY <1>3, <1>4, <1>5, <1>6, PartsDecide
<1> QED BY <1>7 DEF left, right, ab, bc

-----------------------------------------------------------------------------
(* RateHolds: the records that rows and runs hold, and what is made of them.  *)

LEMMA LeastNumber ==
    ASSUME NEW V, V \subseteq Nat, V # {}
    PROVE  \E v \in V : \A w \in V : v <= w
<1>1. IsWellFoundedOn(OpToRel(<, Nat), Nat) BY NatLessThanWellFounded
<1>2. PICK v \in V : \A w \in V : <<w, v>> \notin OpToRel(<, Nat)
  BY <1>1, WFMin, Zenon
<1>3. ASSUME NEW w \in V PROVE v <= w
  <2>1. <<w, v>> \notin OpToRel(<, Nat) BY <1>2
  <2>2. <<w, v>> \in Nat \X Nat /\ <<w, v>>[1] = w /\ <<w, v>>[2] = v OBVIOUS
  <2>3. ~(w < v) BY <2>1, <2>2 DEF OpToRel
  <2> QED BY <2>3
<1> QED BY <1>3

\* Of any records, one has the largest measure: there need not be finitely many.
LEMMA GreatestOf ==
    ASSUME NEW T, T # {}, NEW n \in Nat, NEW f \in [T -> 0 .. n]
    PROVE  \E e \in T : \A x \in T : f[x] <= f[e]
<1> DEFINE V == {n - f[x] : x \in T}
<1>1. V \subseteq Nat /\ V # {} OBVIOUS
<1>2. PICK v \in V : \A w \in V : v <= w
  <2> HIDE DEF V
  <2> QED BY <1>1, LeastNumber
<1>3. PICK e \in T : v = n - f[e] OBVIOUS
<1>4. ASSUME NEW x \in T PROVE f[x] <= f[e]
  <2>1. v <= n - f[x] BY <1>2
  <2>2. f[x] \in 0 .. n /\ f[e] \in 0 .. n OBVIOUS
  <2> QED BY <1>3, <2>1, <2>2
<1> QED BY <1>4

\* The records that occur: as far ahead as the cap, streaks as long as they may be.
Record ==
    {e \in Hold : /\ e.until <= LastTick + Cap /\ e.limitAt <= LastTick + 1
                  /\ e.count <= StreakMax /\ e.weak <= e.count /\ e.strong <= e.count}

LEMMA RecordFields ==
    ASSUME NEW e \in Record
    PROVE  /\ e \in Hold /\ e.until \in 0 .. LastTick + Cap /\ e.limitAt \in 0 .. LastTick + 1
           /\ e.count \in 0 .. StreakMax /\ e.weak \in 0 .. e.count /\ e.strong \in 0 .. e.count
           /\ e.weak \in 0 .. StreakMax /\ e.strong \in 0 .. StreakMax
           /\ e.cause \in {"limit", "server"}
           /\ e.until \in Nat /\ e.count \in Nat
BY HoldsAssumption DEF Record, Hold

LEMMA NoHoldRecord == NoHold \in Record /\ NoHold.until = 0 /\ NoHold.count = 0
BY HoldsAssumption DEF NoHold, Record, Hold, Never

\* A combination of two records is one, ends no sooner than either, and counts
\* the limits of one of them.
LEMMA CombinedRecord ==
    ASSUME NEW a \in Record, NEW b \in Record
    PROVE  LET e == CombineHold(a, b)
           IN  /\ e \in Record /\ a.until <= e.until /\ b.until <= e.until
               /\ e.count = a.count \/ e.count = b.count
<1>1. a \in Hold /\ b \in Hold BY DEF Record
<1>2. CombineHold(a, b) \in Hold BY <1>1, CombinedEitherWay
<1> QED BY <1>1, <1>2, HoldsAssumption DEF Record, Hold, CombineHold, Larger

\* One of the records outlasts the others, and one has the latest streaks.
LEMMA TopExists ==
    ASSUME NEW T, T \subseteq Record, T # {}
    PROVE  \E e \in T : \A f \in T : ~OutlastsCause(f, e)
<1> DEFINE last(e) == 2 * e.until + (IF e.cause = "limit" THEN 1 ELSE 0)
           measure == [e \in T |-> last(e)]
           n == 2 * (LastTick + Cap) + 1
<1>1. n \in Nat BY HoldsAssumption
<1>2. measure \in [T -> 0 .. n]
  <2>1. ASSUME NEW e \in T PROVE last(e) \in 0 .. n
    BY RecordFields, HoldsAssumption
  <2> QED BY <2>1
<1>3. PICK e \in T : \A x \in T : measure[x] <= measure[e]
  <2> HIDE DEF n, measure
  <2> QED BY <1>1, <1>2, GreatestOf
<1>4. ASSUME NEW x \in T, OutlastsCause(x, e) PROVE FALSE
  <2>1. last(x) <= last(e) BY <1>3
  <2>2. x.until \in Nat /\ e.until \in Nat BY RecordFields
  <2> QED BY <1>4, <2>1, <2>2 DEF OutlastsCause
<1> QED BY <1>4

LEMMA LastExists ==
    ASSUME NEW T, T \subseteq Record, T # {}
    PROVE  \E e \in T : \A f \in T : ~LaterStreak(f, e)
<1>f. \A e \in T : /\ e.limitAt \in 0 .. LastTick + 1 /\ e.count \in 0 .. StreakMax
                   /\ e.weak \in 0 .. StreakMax /\ e.strong \in 0 .. StreakMax
  BY RecordFields
<1>n. LastTick + 1 \in Nat /\ StreakMax \in Nat BY HoldsAssumption
<1> DEFINE latest == [e \in T |-> e.limitAt]
<1>1. PICK a \in T : \A x \in T : x.limitAt <= a.limitAt
  <2>1. latest \in [T -> 0 .. LastTick + 1] BY <1>f
  <2>2. \E e \in T : \A x \in T : latest[x] <= latest[e]
    <3> HIDE DEF latest
    <3> QED BY <1>n, <2>1, GreatestOf
  <2> QED BY <2>2
<1> DEFINE A == {e \in T : e.limitAt = a.limitAt}
           counts == [e \in A |-> e.count]
<1>2. PICK b \in A : \A x \in A : x.count <= b.count
  <2>1. counts \in [A -> 0 .. StreakMax] /\ A # {} BY <1>f
  <2>2. \E e \in A : \A x \in A : counts[x] <= counts[e]
    <3> HIDE DEF counts, A
    <3> QED BY <1>n, <2>1, GreatestOf
  <2> QED BY <2>2
<1> DEFINE B == {e \in A : e.count = b.count}
           weaks == [e \in B |-> e.weak]
<1>3. PICK c \in B : \A x \in B : x.weak <= c.weak
  <2>1. weaks \in [B -> 0 .. StreakMax] /\ B # {} BY <1>f
  <2>2. \E e \in B : \A x \in B : weaks[x] <= weaks[e]
    <3> HIDE DEF weaks, B
    <3> QED BY <1>n, <2>1, GreatestOf
  <2> QED BY <2>2
<1> DEFINE C == {e \in B : e.weak = c.weak}
           strongs == [e \in C |-> e.strong]
<1>4. PICK d \in C : \A x \in C : x.strong <= d.strong
  <2>1. strongs \in [C -> 0 .. StreakMax] /\ C # {} BY <1>f
  <2>2. \E e \in C : \A x \in C : strongs[x] <= strongs[e]
    <3> HIDE DEF strongs, C
    <3> QED BY <1>n, <2>1, GreatestOf
  <2> QED BY <2>2
<1>5. d \in T /\ d.limitAt = a.limitAt /\ d.count = b.count /\ d.weak = c.weak OBVIOUS
<1>6. ASSUME NEW x \in T, LaterStreak(x, d) PROVE FALSE
  <2>1. x.limitAt <= a.limitAt BY <1>1
  <2>2. x.limitAt = a.limitAt => x.count <= b.count BY <1>2
  <2>3. x.limitAt = a.limitAt /\ x.count = b.count => x.weak <= c.weak BY <1>3
  <2>4. x.limitAt = a.limitAt /\ x.count = b.count /\ x.weak = c.weak => x.strong <= d.strong BY <1>4
  <2> HIDE DEF A, B, C
  <2> QED BY <1>5, <1>6, <1>f, <2>1, <2>2, <2>3, <2>4 DEF LaterStreak
<1> QED BY <1>5, <1>6

\* What a run loads: the record of a host ends no sooner than any row's, and
\* counts the limits that some row has.
LEMMA JoinedRecord ==
    ASSUME NEW h \in Hosts, Sources # {}, stored \in [Sources -> [Hosts -> Record]]
    PROVE  /\ Joined(Sources, h) \in Record
           /\ \A s \in Sources : stored[s][h].until <= Joined(Sources, h).until
           /\ \E s \in Sources : Joined(Sources, h).count = stored[s][h].count
<1> DEFINE es == {stored[s][h] : s \in Sources}
           top == CHOOSE e \in es : \A f \in es : ~OutlastsCause(f, e)
           last == CHOOSE e \in es : \A f \in es : ~LaterStreak(f, e)
<1>1. es \subseteq Record /\ es # {} OBVIOUS
<1>2. top \in es /\ \A f \in es : ~OutlastsCause(f, top)
  <2> HIDE DEF es
  <2> QED BY <1>1, TopExists
<1>3. last \in es
  <2> HIDE DEF es
  <2> QED BY <1>1, LastExists
<1>4. Joined(Sources, h) = CombineHold(top, last) BY DEF Joined
<1>5. /\ CombineHold(top, last) \in Record /\ top.until <= CombineHold(top, last).until
      /\ CombineHold(top, last).count \in {top.count, last.count}
  <2> HIDE DEF top, last, es
  <2> QED BY <1>1, <1>2, <1>3, CombinedRecord
<1>6. ASSUME NEW s \in Sources PROVE stored[s][h].until <= CombineHold(top, last).until
  <2>1. stored[s][h] \in es OBVIOUS
  <2>2. ~OutlastsCause(stored[s][h], top) BY <1>2, <2>1
  <2>3. stored[s][h].until <= top.until
    <3> HIDE DEF top, last, es
    <3> QED BY <1>1, <1>2, <2>1, <2>2, RecordFields DEF OutlastsCause
  <2> HIDE DEF top, last, es
  <2> QED BY <1>1, <1>2, <1>5, <2>1, <2>3, RecordFields
<1>7. \E s \in Sources : CombineHold(top, last).count = stored[s][h].count
  <2>1. \A e \in es : \E s \in Sources : e = stored[s][h] OBVIOUS
  <2> HIDE DEF top, last, es
  <2> QED BY <1>2, <1>3, <1>5, <2>1
<1> HIDE DEF top, last, es
<1> QED BY <1>4, <1>5, <1>6, <1>7

\* The hold after an answer: as far ahead as the cap, no sooner over than the
\* one before, with one limit more at most, and none more after a server error.
LEMMA NextRecord ==
    ASSUME NEW prev \in Record, tick \in Ticks, NEW a \in LimitAnswers
    PROVE  LET e == NextHold(prev, a[1], a[2])
           IN  /\ e \in Record /\ prev.until <= e.until
               /\ e.count <= prev.count + (IF a[1] = "retry_after_5xx" THEN 0 ELSE 1)
<1> DEFINE server == a[1] = "retry_after_5xx"
           count  == IF server THEN prev.count ELSE OneMore(prev.count)
           back   == Smaller(Cap, Larger(Floor(IF server THEN 1 ELSE count), a[2]))
           wait   == IF server THEN Smaller(back, ServerCap)
                     ELSE IF a[1] = "http_429" /\ a[2] = NoTime THEN Larger(back, NoTimeHold) ELSE back
           until  == tick + wait
           weak   == IF server THEN prev.weak ELSE IF a[1] = "body" THEN OneMore(prev.weak) ELSE 0
           strong == IF server THEN prev.strong
                     ELSE IF a[1] = "remaining_zero" THEN OneMore(prev.strong) ELSE 0
<1>a. a[1] \in Signals /\ a[2] \in Nat BY AnswersAssumption
<1>p. /\ prev.until \in 0 .. LastTick + Cap /\ prev.limitAt \in 0 .. LastTick + 1
      /\ prev.count \in 0 .. StreakMax /\ prev.weak \in 0 .. prev.count /\ prev.strong \in 0 .. prev.count
      /\ prev.cause \in {"limit", "server"}
  BY RecordFields
<1>t. tick \in 0 .. LastTick /\ LastTick \in Nat BY HoldsAssumption DEF Ticks
<1>1. /\ count \in 0 .. StreakMax /\ weak \in 0 .. count /\ strong \in 0 .. count
      /\ count <= prev.count + (IF server THEN 0 ELSE 1)
      /\ ~server => count \in 1 .. StreakMax
  BY <1>p, HoldsAssumption DEF OneMore, Smaller
<1>2. Floor(IF server THEN 1 ELSE count) \in Nat
  <2>1. ASSUME NEW m \in 1 .. StreakMax PROVE Floor(m) \in Nat
    <3>1. m - 1 \in 0 .. StreakMax BY HoldsAssumption
    <3>2. 2 ^ (m - 1) \in Nat BY <3>1, DoublingAssumption
    <3> QED BY <3>2, HoldsAssumption DEF Floor, Smaller
  <2>2. 1 \in 1 .. StreakMax BY HoldsAssumption
  <2> HIDE DEF count
  <2>3. CASE server BY <2>1, <2>2, <2>3
  <2>4. CASE ~server BY <1>1, <2>1, <2>4
  <2> QED BY <2>3, <2>4
<1>3. back \in 0 .. Cap
  <2> HIDE DEF count
  <2> QED BY <1>2, <1>a, HoldsAssumption DEF Smaller, Larger
<1>4. wait \in 0 .. Cap
  <2> HIDE DEF back
  <2> QED BY <1>3, HoldsAssumption DEF Smaller, Larger
<1>5. until \in 0 .. LastTick + Cap
  <2> HIDE DEF wait
  <2> QED BY <1>4, <1>t, HoldsAssumption
<1>6. NextHold(prev, a[1], a[2]) =
        [until |-> Larger(until, prev.until),
         cause |-> IF prev.until > until \/ (server /\ prev.until = until) THEN prev.cause
                   ELSE IF server THEN "server" ELSE "limit",
         count |-> count, weak |-> weak, strong |-> strong,
         limitAt |-> IF server THEN prev.limitAt ELSE tick + 1]
  BY DEF NextHold
<1>7. /\ Larger(until, prev.until) \in 0 .. LastTick + Cap /\ prev.until <= Larger(until, prev.until)
      /\ (IF server THEN prev.limitAt ELSE tick + 1) \in 0 .. LastTick + 1
  <2> HIDE DEF until
  <2> QED BY <1>5, <1>p, <1>t DEF Larger
<1> HIDE DEF until, wait, back, count, weak, strong, server
<1>8. NextHold(prev, a[1], a[2]) \in Hold
  BY <1>6, <1>7, <1>1, <1>p, HoldsAssumption DEF Hold
<1>9. LET e == NextHold(prev, a[1], a[2])
      IN  /\ e.until = Larger(until, prev.until) /\ e.count = count /\ e.weak = weak /\ e.strong = strong
          /\ e.limitAt = IF server THEN prev.limitAt ELSE tick + 1
  BY <1>6
<1>10. NextHold(prev, a[1], a[2]) \in Record
  BY <1>8, <1>9, <1>7, <1>1, HoldsAssumption DEF Record
<1>11. NextHold(prev, a[1], a[2]).count <= prev.count + (IF server THEN 0 ELSE 1)
  BY <1>9, <1>1
<1> QED BY <1>9, <1>10, <1>7, <1>11 DEF server

-----------------------------------------------------------------------------
(* RateHolds: types.                                                          *)

First(r) == EntryOf[SourceOf[r]]

LEMMA FirstTyped == \A r \in HoldRuns : SourceOf[r] \in Sources /\ First(r) \in Hosts
BY HoldsAssumption DEF First

\* A hold met behind a redirect is the first host's as well; no other changes.
LEMMA AlsoHeld ==
    ASSUME NEW r \in HoldRuns, NEW h \in Hosts, NEW v \in [Hosts -> Record]
    PROVE  /\ HoldAlso(v, r, h) \in [Hosts -> Record]
           /\ \A g \in Hosts : v[g].until <= HoldAlso(v, r, h)[g].until
           /\ \A g \in Hosts : g # First(r) => HoldAlso(v, r, h)[g] = v[g]
           /\ v[h].until <= HoldAlso(v, r, h)[First(r)].until
           /\ h = First(r) => HoldAlso(v, r, h) = v
<1> DEFINE first == First(r)
<1>1. first \in Hosts BY FirstTyped
<1>n. \A g \in Hosts : v[g].until \in Nat BY RecordFields
<1>2. CASE h = first BY <1>n, <1>2 DEF HoldAlso, First
<1>3. CASE h # first
  <2> DEFINE c == CombineHold(v[first], v[h])
  <2>1. c \in Record /\ v[first].until <= c.until /\ v[h].until <= c.until BY <1>1, CombinedRecord
  <2>2. HoldAlso(v, r, h) = [v EXCEPT ![first] = c] BY <1>3 DEF HoldAlso, First
  <2> HIDE DEF c, first
  <2>3. HoldAlso(v, r, h) \in [Hosts -> Record] BY <1>1, <2>1, <2>2
  <2>4. \A g \in Hosts : HoldAlso(v, r, h)[g] = IF g = first THEN c ELSE v[g] BY <1>1, <2>2
  <2>5. \A g \in Hosts : v[g].until <= HoldAlso(v, r, h)[g].until BY <1>n, <2>1, <2>4
  <2> QED BY <1>1, <1>3, <2>1, <2>3, <2>4, <2>5 DEF first
<1> QED BY <1>2, <1>3

\* What a run writes over a host's record in its row: nothing, no hold where
\* the row's is over, or the row's combined with its own.
LEMMA SavedRecord ==
    ASSUME NEW r \in HoldRuns, NEW s \in Sources, tick \in Nat,
           stored \in [Sources -> [Hosts -> Record]], view \in [HoldRuns -> [Hosts -> Record]]
    PROVE  /\ SavedRow(r, s) \in [Hosts -> Record]
           /\ \A h \in Hosts :
                /\ \/ SavedRow(r, s)[h].count = 0 \/ SavedRow(r, s)[h].count = stored[s][h].count
                   \/ SavedRow(r, s)[h].count = view[r][h].count
                /\ stored[s][h].until > tick => stored[s][h].until <= SavedRow(r, s)[h].until
                /\ h \in HostsOf[s] /\ h \notin gone[r] /\ view[r][h].until > tick
                     => view[r][h].until <= SavedRow(r, s)[h].until
<1>1. ASSUME NEW h \in Hosts
      PROVE  /\ SavedRow(r, s)[h] \in Record
             /\ \/ SavedRow(r, s)[h].count = 0 \/ SavedRow(r, s)[h].count = stored[s][h].count
                \/ SavedRow(r, s)[h].count = view[r][h].count
             /\ stored[s][h].until > tick => stored[s][h].until <= SavedRow(r, s)[h].until
             /\ h \in HostsOf[s] /\ h \notin gone[r] /\ view[r][h].until > tick
                  => view[r][h].until <= SavedRow(r, s)[h].until
  <2> DEFINE e == stored[s][h]  f == view[r][h]  c == CombineHold(e, f)
  <2>1. e \in Record /\ f \in Record /\ e.until \in Nat /\ f.until \in Nat
    <3>1. e \in Record /\ f \in Record OBVIOUS
    <3> QED BY <3>1, RecordFields
  <2>2. c \in Record /\ e.until <= c.until /\ f.until <= c.until /\ (c.count = e.count \/ c.count = f.count)
    <3> HIDE DEF e, f
    <3> QED BY <2>1, CombinedRecord DEF c
  <2>3. SavedRow(r, s)[h] =
          CASE h \notin HostsOf[s] -> e
            [] h \in HostsOf[s] /\ h \in gone[r] -> IF MayClear(s, h) THEN NoHold ELSE e
            [] h \in HostsOf[s] /\ h \in changed[r] -> c
            [] OTHER -> IF f.until > tick THEN c ELSE e
    BY DEF SavedRow, Active
  <2>4. MayClear(s, h) = (~(e.until > tick)) BY DEF MayClear, Active
  <2>5. CASE SavedRow(r, s)[h] = e /\ (h \in HostsOf[s] /\ h \notin gone[r] => ~(f.until > tick))
    BY <2>1, <2>5
  <2>6. CASE SavedRow(r, s)[h] = c BY <2>1, <2>2, <2>6
  <2>7. CASE SavedRow(r, s)[h] = NoHold /\ h \in gone[r] /\ ~(e.until > tick)
    BY <2>1, <2>7, NoHoldRecord
  <2>8. \/ SavedRow(r, s)[h] = e /\ (h \in HostsOf[s] /\ h \notin gone[r] => ~(f.until > tick))
        \/ SavedRow(r, s)[h] = c
        \/ SavedRow(r, s)[h] = NoHold /\ h \in gone[r] /\ ~(e.until > tick)
    <3> HIDE DEF e, f, c
    <3>1. CASE h \notin HostsOf[s] BY <2>3, <3>1
    <3>2. CASE h \in HostsOf[s] /\ h \in gone[r] /\ MayClear(s, h) BY <2>3, <2>4, <3>2
    <3>3. CASE h \in HostsOf[s] /\ h \in gone[r] /\ ~MayClear(s, h)
      <4>1. SavedRow(r, s)[h] = e \/ SavedRow(r, s)[h] = c BY <2>3, <3>3
      <4> QED BY <3>3, <4>1
    <3>4. CASE h \in HostsOf[s] /\ h \notin gone[r] /\ h \in changed[r] BY <2>3, <3>4
    <3>5. CASE h \in HostsOf[s] /\ h \notin gone[r] /\ h \notin changed[r] BY <2>3, <3>5
    <3> QED BY <3>1, <3>2, <3>3, <3>4, <3>5
  <2> QED BY <2>5, <2>6, <2>7, <2>8
<1>2. SavedRow(r, s) = [h \in Hosts |-> SavedRow(r, s)[h]] BY DEF SavedRow
<1> QED BY <1>1, <1>2

\* The types, with the records that occur.
HoldsTyped ==
    /\ RateHoldsTypeOK
    /\ stored \in [Sources -> [Hosts -> Record]]
    /\ view \in [HoldRuns -> [Hosts -> Record]]

LEMMA HoldsTypedInit == RateHoldsInit => HoldsTyped
<1>1. ASSUME RateHoldsInit PROVE HoldsTyped
  <2>1. /\ stored \in [Sources -> [Hosts -> Record]] /\ view \in [HoldRuns -> [Hosts -> Record]]
    BY <1>1, NoHoldRecord DEF RateHoldsInit
  <2>2. Record \subseteq Hold BY DEF Record
  <2>3. stored \in [Sources -> [Hosts -> Hold]] /\ view \in [HoldRuns -> [Hosts -> Hold]] BY <2>1, <2>2
  <2>4. host \in [HoldRuns -> Hosts] BY <1>1, HoldsAssumption DEF RateHoldsInit
  <2> QED BY <1>1, <2>1, <2>3, <2>4, HoldsAssumption DEF RateHoldsInit, HoldsTyped, RateHoldsTypeOK, Ticks
<1> QED BY <1>1

\* A run that ends has forgotten everything but the rows it leaves.
LEMMA RunEndsTyped ==
    ASSUME HoldsTyped, NEW r \in HoldRuns, NEW rows \in [Sources -> [Hosts -> Record]],
           RunEnds(r, rows), named' \in [Hosts -> Nat]
    PROVE  HoldsTyped'
<1>1. stored' = rows /\ view' = [view EXCEPT ![r] = [h \in Hosts |-> NoHold]] BY DEF RunEnds
<1>2. stored' \in [Sources -> [Hosts -> Record]] /\ view' \in [HoldRuns -> [Hosts -> Record]]
  BY <1>1, NoHoldRecord DEF HoldsTyped
<1>3. Record \subseteq Hold BY DEF Record
<1>4. stored' \in [Sources -> [Hosts -> Hold]] /\ view' \in [HoldRuns -> [Hosts -> Hold]] BY <1>2, <1>3
<1>5. base' \in [Hosts -> Nat] BY DEF RunEnds, HoldsTyped, RateHoldsTypeOK
<1>6. host' \in [HoldRuns -> Hosts] BY HoldsAssumption DEF RunEnds, HoldsTyped, RateHoldsTypeOK
<1>7. /\ heard' \in [HoldRuns -> [Hosts -> Nat]] /\ bound' \in [HoldRuns -> [Hosts -> Nat]]
      /\ rhAt' \in [HoldRuns -> {"idle", "ask", "sent", "save", "clean"}]
  BY DEF RunEnds, RhGoes, HoldsTyped, RateHoldsTypeOK
<1>8. /\ changed' \in [HoldRuns -> SUBSET Hosts] /\ gone' \in [HoldRuns -> SUBSET Hosts]
      /\ cleared' \in [HoldRuns -> SUBSET Hosts]
      /\ copies' \in [HoldRuns -> SUBSET [at : Sources \X Hosts, was : Hold]]
  BY DEF RunEnds, HoldsTyped, RateHoldsTypeOK
<1>9. tick' = tick /\ loads' = loads /\ given' = given BY DEF RunEnds
<1> QED BY <1>2, <1>4, <1>5, <1>6, <1>7, <1>8, <1>9 DEF HoldsTyped, RateHoldsTypeOK, Ticks

\* One that still has copies to clear away.
LEMMA CleansTyped ==
    ASSUME HoldsTyped, NEW r \in HoldRuns, NEW rows \in [Sources -> [Hosts -> Record]],
           Cleans(r, rows), named' \in [Hosts -> Nat], cleared' \in [HoldRuns -> SUBSET Hosts],
           copies' \in [HoldRuns -> SUBSET [at : Sources \X Hosts, was : Hold]]
    PROVE  HoldsTyped'
<1>1. Record \subseteq Hold BY DEF Record
<1>2. stored' \in [Sources -> [Hosts -> Record]] BY DEF Cleans
<1>3. stored' \in [Sources -> [Hosts -> Hold]] BY <1>1, <1>2
<1>4. rhAt' \in [HoldRuns -> {"idle", "ask", "sent", "save", "clean"}]
  BY DEF Cleans, RhGoes, HoldsTyped, RateHoldsTypeOK
<1> QED BY <1>2, <1>3, <1>4 DEF Cleans, HoldsTyped, RateHoldsTypeOK, Ticks

\* One whose records, and what it knows of them, change, and nothing else.
LEMMA ViewTyped ==
    ASSUME HoldsTyped, NEW r \in HoldRuns, NEW v \in [Hosts -> Record], view' = [view EXCEPT ![r] = v],
           NEW where \in {"ask", "sent", "save"}, RhGoes(r, where), loads' \in 0 .. LastLoad,
           changed' \in [HoldRuns -> SUBSET Hosts], gone' \in [HoldRuns -> SUBSET Hosts],
           heard' \in [HoldRuns -> [Hosts -> Nat]], bound' \in [HoldRuns -> [Hosts -> Nat]],
           given' \in [Hosts -> Nat], UNCHANGED <<tick, stored, host, cleared, copies, named, base>>
    PROVE  HoldsTyped'
<1>1. Record \subseteq Hold BY DEF Record
<1>2. view' \in [HoldRuns -> [Hosts -> Record]] BY DEF HoldsTyped
<1>3. view' \in [HoldRuns -> [Hosts -> Hold]] BY <1>1, <1>2
<1>4. rhAt' \in [HoldRuns -> {"idle", "ask", "sent", "save", "clean"}]
  BY DEF RhGoes, HoldsTyped, RateHoldsTypeOK
<1> QED BY <1>2, <1>3, <1>4 DEF HoldsTyped, RateHoldsTypeOK, Ticks

LEMMA HoldsTypedStep == HoldsTyped /\ [RateHoldsNext]_RateHoldsVars => HoldsTyped'
<1> SUFFICES ASSUME HoldsTyped, [RateHoldsNext]_RateHoldsVars PROVE HoldsTyped'
    OBVIOUS
<1>t. /\ tick \in Nat /\ tick \in Ticks /\ LastTick \in Nat /\ LastLoad \in Nat /\ loads \in 0 .. LastLoad
      /\ stored \in [Sources -> [Hosts -> Record]] /\ view \in [HoldRuns -> [Hosts -> Record]]
      /\ host \in [HoldRuns -> Hosts] /\ named \in [Hosts -> Nat] /\ heard \in [HoldRuns -> [Hosts -> Nat]]
      /\ given \in [Hosts -> Nat] /\ bound \in [HoldRuns -> [Hosts -> Nat]]
      /\ changed \in [HoldRuns -> SUBSET Hosts] /\ gone \in [HoldRuns -> SUBSET Hosts]
      /\ cleared \in [HoldRuns -> SUBSET Hosts]
      /\ copies \in [HoldRuns -> SUBSET [at : Sources \X Hosts, was : Hold]]
  BY HoldsAssumption DEF HoldsTyped, RateHoldsTypeOK, Ticks
<1>h. Record \subseteq Hold BY DEF Record
<1>1. CASE HoldTick
  <2>1. tick' \in Ticks BY <1>1, <1>t, HoldsAssumption DEF HoldTick, Ticks
  <2> QED BY <1>1, <2>1 DEF HoldTick, rhRun, HoldsTyped, RateHoldsTypeOK
<1>2. ASSUME NEW r \in HoldRuns, LoadHolds(r) PROVE HoldsTyped'
  <2>1. Sources # {} BY <1>2, FirstTyped
  <2> DEFINE v == [h \in Hosts |-> Joined(Sources, h)]
  <2>2. v \in [Hosts -> Record] BY <1>t, <2>1, JoinedRecord
  <2>3. loads' \in 0 .. LastLoad BY <1>2, <1>t DEF LoadHolds
  <2>4. bound' \in [HoldRuns -> [Hosts -> Nat]] BY <1>2, <1>t DEF LoadHolds
  <2>5. view' = [view EXCEPT ![r] = v] /\ RhGoes(r, "ask")
        /\ UNCHANGED <<tick, stored, changed, gone, host, cleared, copies, heard, named, given, base>>
    BY <1>2 DEF LoadHolds
  <2> HIDE DEF v
  <2> QED BY <1>t, <2>2, <2>3, <2>4, <2>5, ViewTyped
<1>3. ASSUME NEW r \in HoldRuns, Send(r) \/ RetryInRun(r) \/ OtherEnd(r) PROVE HoldsTyped'
  <2>1. rhAt' \in [HoldRuns -> {"idle", "ask", "sent", "save", "clean"}]
    BY <1>3 DEF Send, RetryInRun, OtherEnd, RhGoes, HoldsTyped, RateHoldsTypeOK
  <2> QED BY <1>3, <2>1 DEF Send, RetryInRun, OtherEnd, rhWorld, rhRun, HoldsTyped, RateHoldsTypeOK, Ticks
<1>4. ASSUME NEW r \in HoldRuns, NEW h \in Hosts, Redirected(r, h) PROVE HoldsTyped'
  <2>1. rhAt' \in [HoldRuns -> {"idle", "ask", "sent", "save", "clean"}] /\ host' \in [HoldRuns -> Hosts]
    BY <1>4 DEF Redirected, RhGoes, HoldsTyped, RateHoldsTypeOK
  <2> QED BY <1>4, <2>1 DEF Redirected, rhWorld, HoldsTyped, RateHoldsTypeOK, Ticks
<1>5. ASSUME NEW r \in HoldRuns, Refrain(r) PROVE HoldsTyped'
  <2> DEFINE v == HoldAlso(view[r], r, host[r])
  <2>1. v \in [Hosts -> Record] BY <1>t, AlsoHeld
  <2>2. /\ view' = [view EXCEPT ![r] = v] /\ RhGoes(r, "save")
        /\ UNCHANGED <<tick, loads, stored, host, cleared, copies, heard, named, bound, given, base>>
    BY <1>5 DEF Refrain, rhWorld
  <2>3. changed' \in [HoldRuns -> SUBSET Hosts] /\ gone' \in [HoldRuns -> SUBSET Hosts]
    BY <1>5, <1>t, FirstTyped DEF Refrain, First
  <2> HIDE DEF v
  <2> QED BY <1>t, <2>1, <2>2, <2>3, ViewTyped
<1>6. ASSUME NEW r \in HoldRuns, NEW a \in LimitAnswers, Limited(r, a[1], a[2]) PROVE HoldsTyped'
  <2> DEFINE e == NextHold(view[r][host[r]], a[1], a[2])
             v == HoldAlso([view[r] EXCEPT ![host[r]] = e], r, host[r])
  <2>1. e \in Record BY <1>t, NextRecord
  <2>2. v \in [Hosts -> Record]
    <3>1. [view[r] EXCEPT ![host[r]] = e] \in [Hosts -> Record]
      <4> HIDE DEF e
      <4> QED BY <1>t, <2>1
    <3> HIDE DEF e
    <3> QED BY <1>t, <3>1, AlsoHeld
  <2>3. /\ view' = [view EXCEPT ![r] = v] /\ RhGoes(r, "save")
        /\ UNCHANGED <<tick, loads, stored, host, cleared, copies, named, bound, base>>
    BY <1>6 DEF Limited, Learns, rhWorld
  <2>4. changed' \in [HoldRuns -> SUBSET Hosts] /\ gone' \in [HoldRuns -> SUBSET Hosts]
    BY <1>6, <1>t, FirstTyped DEF Limited, Learns, First
  <2>5. heard' \in [HoldRuns -> [Hosts -> Nat]]
    <3>1. e.until \in Nat BY <2>1, RecordFields
    <3>2. heard' = [heard EXCEPT ![r] = [h \in Hosts |->
                IF h \in {host[r], First(r)} THEN Larger(@[h], e.until) ELSE @[h]]]
      BY <1>6 DEF Limited, First
    <3> HIDE DEF e
    <3> QED BY <1>t, <3>1, <3>2 DEF Larger
  <2>6. given' \in [Hosts -> Nat] BY <1>6, <1>t DEF Limited
  <2> HIDE DEF v
  <2> QED BY <1>t, <2>2, <2>3, <2>4, <2>5, <2>6, ViewTyped
<1>7. ASSUME NEW r \in HoldRuns, Answered(r) PROVE HoldsTyped'
  <2> DEFINE over == {h \in {host[r], EntryOf[SourceOf[r]]} : view[r][h] # NoHold /\ ~Active(view[r][h])}
             v == [h \in Hosts |-> IF h \in over THEN NoHold ELSE view[r][h]]
  <2>1. v \in [Hosts -> Record] BY <1>t, NoHoldRecord
  <2>2. /\ view' = [view EXCEPT ![r] = v] /\ RhGoes(r, "save")
        /\ UNCHANGED <<tick, loads, stored, host, cleared, copies, heard, named, bound, given, base>>
    BY <1>7 DEF Answered, rhWorld
  <2>3. over \subseteq Hosts BY <1>t, FirstTyped DEF First
  <2>4. changed' = [changed EXCEPT ![r] = @ \ over] /\ gone' = [gone EXCEPT ![r] = @ \cup over]
    BY <1>7 DEF Answered
  <2> HIDE DEF v, over
  <2>5. changed' \in [HoldRuns -> SUBSET Hosts] /\ gone' \in [HoldRuns -> SUBSET Hosts]
    BY <1>t, <2>3, <2>4
  <2> QED BY <1>t, <2>1, <2>2, <2>5, ViewTyped
<1>8. ASSUME NEW r \in HoldRuns, SaveHolds(r) PROVE HoldsTyped'
  <2> DEFINE rows == [stored EXCEPT ![SourceOf[r]] = SavedRow(r, SourceOf[r])]
             done == {h \in HostsOf[SourceOf[r]] \cap gone[r] : MayClear(SourceOf[r], h)}
  <2>1. rows \in [Sources -> [Hosts -> Record]] BY <1>t, FirstTyped, SavedRecord
  <2>2. named' \in [Hosts -> Nat] BY <1>8, <1>t DEF SaveHolds, Larger
  <2>3. done \subseteq Hosts BY <1>t
  <2>4. RunEnds(r, rows) \/ (Cleans(r, rows) /\ cleared' = [cleared EXCEPT ![r] = done] /\ UNCHANGED copies)
    BY <1>8 DEF SaveHolds
  <2> HIDE DEF rows, done
  <2>5. cleared' = [cleared EXCEPT ![r] = done] => cleared' \in [HoldRuns -> SUBSET Hosts] BY <1>t, <2>3
  <2> QED BY <1>t, <2>1, <2>2, <2>4, <2>5, RunEndsTyped, CleansTyped
<1>9. ASSUME NEW r \in HoldRuns, NEW h \in Hosts, ReadCopies(r, h) PROVE HoldsTyped'
  <2> DEFINE others == {s \in Sources \ {SourceOf[r]} : stored[s][h] # NoHold /\ MayClear(s, h)}
             read == {[at |-> <<s, h>>, was |-> stored[s][h]] : s \in others}
  <2>1. \/ RunEnds(r, stored)
        \/ /\ Cleans(r, stored) /\ cleared' = [cleared EXCEPT ![r] = @ \ {h}]
           /\ copies' = [copies EXCEPT ![r] = read]
    BY <1>9 DEF ReadCopies
  <2>2. read \subseteq [at : Sources \X Hosts, was : Hold] BY <1>t, <1>h
  <2> HIDE DEF read
  <2>3. /\ cleared' = [cleared EXCEPT ![r] = @ \ {h}] => cleared' \in [HoldRuns -> SUBSET Hosts]
        /\ copies' = [copies EXCEPT ![r] = read]
             => copies' \in [HoldRuns -> SUBSET [at : Sources \X Hosts, was : Hold]]
    <3>1. cleared' = [cleared EXCEPT ![r] = @ \ {h}] => cleared' \in [HoldRuns -> SUBSET Hosts]
      BY <1>t
    <3>2. read \in SUBSET [at : Sources \X Hosts, was : Hold] BY <2>2
    <3>3. copies' = [copies EXCEPT ![r] = read]
            => copies' \in [HoldRuns -> SUBSET [at : Sources \X Hosts, was : Hold]]
      <4> DEFINE All == SUBSET [at : Sources \X Hosts, was : Hold]
      <4>1. copies \in [HoldRuns -> All] /\ read \in All BY <1>t, <3>2
      <4> HIDE DEF All
      <4>2. copies' = [copies EXCEPT ![r] = read] => copies' \in [HoldRuns -> All] BY <4>1
      <4> QED BY <4>2 DEF All
    <3> QED BY <3>1, <3>3
  <2>4. named' \in [Hosts -> Nat] BY <1>9, <1>t DEF ReadCopies
  <2> QED BY <1>t, <2>1, <2>3, <2>4, RunEndsTyped, CleansTyped
<1>10. ASSUME NEW r \in HoldRuns, NEW c \in copies[r], DropCopy(r, c) PROVE HoldsTyped'
  <2> DEFINE rows == [stored EXCEPT ![c.at[1]][c.at[2]] = IF @ = c.was THEN NoHold ELSE @]
  <2>1. c.at[1] \in Sources /\ c.at[2] \in Hosts BY <1>t
  <2>2. rows \in [Sources -> [Hosts -> Record]] BY <1>t, <2>1, NoHoldRecord
  <2>3. \/ RunEnds(r, rows)
        \/ /\ Cleans(r, rows) /\ copies' = [copies EXCEPT ![r] = @ \ {c}] /\ UNCHANGED cleared
    BY <1>10 DEF DropCopy
  <2> HIDE DEF rows
  <2>4. copies' = [copies EXCEPT ![r] = @ \ {c}]
          => copies' \in [HoldRuns -> SUBSET [at : Sources \X Hosts, was : Hold]]
    BY <1>t
  <2>5. named' \in [Hosts -> Nat] BY <1>10, <1>t DEF DropCopy
  <2> QED BY <1>t, <2>2, <2>3, <2>4, <2>5, RunEndsTyped, CleansTyped
<1>11. CASE UNCHANGED RateHoldsVars
  BY <1>11 DEF RateHoldsVars, rhWorld, rhRun, HoldsTyped, RateHoldsTypeOK
<1> QED
  BY <1>1, <1>2, <1>3, <1>4, <1>5, <1>6, <1>7, <1>8, <1>9, <1>10, <1>11 DEF RateHoldsNext

\* The rows, the runs and the history keep their types; no hold is further
\* ahead than the cap, and no streak longer than it may be.
THEOREM HoldsKeepTheirTypes == RateHoldsSpec => []RateHoldsTypeOK
<1>1. HoldsTyped => RateHoldsTypeOK BY DEF HoldsTyped
<1> QED BY <1>1, HoldsTypedInit, HoldsTypedStep, PTL DEF RateHoldsSpec

\* A run that is not under way knows nothing.
IdleKnowsNothing ==
    \A r \in HoldRuns : rhAt[r] = "idle" => \A h \in Hosts : heard[r][h] = 0 /\ view[r][h] = NoHold

IdleInv == HoldsTyped /\ IdleKnowsNothing

LEMMA IdleInvInit == RateHoldsInit => IdleInv
BY HoldsTypedInit DEF IdleInv, IdleKnowsNothing, RateHoldsInit

LEMMA IdleInvStep == IdleInv /\ [RateHoldsNext]_RateHoldsVars => IdleInv'
<1> SUFFICES ASSUME IdleInv, [RateHoldsNext]_RateHoldsVars PROVE IdleInv'
    OBVIOUS
<1>0. HoldsTyped /\ HoldsTyped' BY HoldsTypedStep DEF IdleInv
<1>t. /\ view \in [HoldRuns -> [Hosts -> Record]] /\ heard \in [HoldRuns -> [Hosts -> Nat]]
      /\ rhAt \in [HoldRuns -> {"idle", "ask", "sent", "save", "clean"}]
  BY <1>0 DEF HoldsTyped, RateHoldsTypeOK
<1>k. IdleKnowsNothing BY DEF IdleInv
<1>g. ASSUME NEW r \in HoldRuns, NEW where \in {"ask", "sent", "save", "clean"}, RhGoes(r, where),
             NEW v, NEW m, view' = [view EXCEPT ![r] = v], heard' = [heard EXCEPT ![r] = m]
      PROVE  IdleInv'
  <2>1. rhAt'[r] # "idle" BY <1>g, <1>t DEF RhGoes
  <2>2. \A q \in HoldRuns \ {r} : rhAt'[q] = rhAt[q] /\ view'[q] = view[q] /\ heard'[q] = heard[q]
    BY <1>g, <1>t DEF RhGoes
  <2> QED BY <1>0, <1>k, <2>1, <2>2 DEF IdleInv, IdleKnowsNothing
<1>e. ASSUME NEW r \in HoldRuns, NEW rows, RunEnds(r, rows) PROVE IdleInv'
  <2>1. \A h \in Hosts : heard'[r][h] = 0 /\ view'[r][h] = NoHold BY <1>e, <1>t DEF RunEnds
  <2>2. \A q \in HoldRuns \ {r} : rhAt'[q] = rhAt[q] /\ view'[q] = view[q] /\ heard'[q] = heard[q]
    BY <1>e, <1>t DEF RunEnds, RhGoes
  <2> QED BY <1>0, <1>k, <2>1, <2>2 DEF IdleInv, IdleKnowsNothing
\* A step that leaves what the run was told alone.
<1>h. ASSUME NEW r \in HoldRuns, NEW where \in {"ask", "sent", "save", "clean"}, RhGoes(r, where),
             NEW v, view' = [view EXCEPT ![r] = v], heard' = heard
      PROVE  IdleInv'
  <2>1. heard' = [heard EXCEPT ![r] = heard[r]] BY <1>h, <1>t
  <2> QED BY <1>h, <2>1, <1>g
<1>v. ASSUME NEW r \in HoldRuns, NEW where \in {"ask", "sent", "save", "clean"}, RhGoes(r, where),
             view' = view, heard' = heard
      PROVE  IdleInv'
  <2>1. view' = [view EXCEPT ![r] = view[r]] BY <1>v, <1>t
  <2> QED BY <1>v, <2>1, <1>h
<1>1. CASE HoldTick \/ UNCHANGED RateHoldsVars
  <2>1. UNCHANGED <<rhAt, view, heard>> BY <1>1 DEF HoldTick, RateHoldsVars, rhRun
  <2> QED BY <1>0, <1>k, <2>1 DEF IdleInv, IdleKnowsNothing
<1>2. ASSUME NEW r \in HoldRuns, LoadHolds(r) PROVE IdleInv' BY <1>2, <1>h DEF LoadHolds
<1>3. ASSUME NEW r \in HoldRuns, Send(r) \/ RetryInRun(r) \/ OtherEnd(r) PROVE IdleInv'
  BY <1>3, <1>v DEF Send, RetryInRun, OtherEnd, rhRun
<1>4. ASSUME NEW r \in HoldRuns, NEW h \in Hosts, Redirected(r, h) PROVE IdleInv'
  BY <1>4, <1>v DEF Redirected
<1>5. ASSUME NEW r \in HoldRuns, Refrain(r) PROVE IdleInv' BY <1>5, <1>h DEF Refrain
<1>6. ASSUME NEW r \in HoldRuns, NEW a \in LimitAnswers, Limited(r, a[1], a[2]) PROVE IdleInv'
  <2>1. RhGoes(r, "save") /\ (\E v : view' = [view EXCEPT ![r] = v])
        /\ (\E m : heard' = [heard EXCEPT ![r] = m])
    BY <1>6 DEF Limited, Learns
  <2> QED BY <2>1, <1>g
<1>7. ASSUME NEW r \in HoldRuns, Answered(r) PROVE IdleInv'
  <2>1. RhGoes(r, "save") /\ heard' = heard /\ \E v : view' = [view EXCEPT ![r] = v]
    BY <1>7 DEF Answered
  <2> QED BY <2>1, <1>h
<1>8. ASSUME NEW r \in HoldRuns, SaveHolds(r) \/ (\E h \in Hosts : ReadCopies(r, h))
                                   \/ (\E c \in copies[r] : DropCopy(r, c))
      PROVE IdleInv'
  <2>1. \E rows : RunEnds(r, rows) \/ Cleans(r, rows) BY <1>8 DEF SaveHolds, ReadCopies, DropCopy
  <2> QED BY <2>1, <1>e, <1>v DEF Cleans
<1> QED BY <1>1, <1>2, <1>3, <1>4, <1>5, <1>6, <1>7, <1>8 DEF RateHoldsNext

-----------------------------------------------------------------------------
(* RateHolds: a held host is not asked.                                       *)

\* What a run was told itself, and what was known when it loaded, its records
\* still say while the time is ahead; what it takes for over is over.
RunRemembers(r) ==
    /\ \A h \in Hosts : /\ bound[r][h] <= tick \/ bound[r][h] <= view[r][h].until
                        /\ heard[r][h] <= tick \/ heard[r][h] <= view[r][h].until
    /\ \A h \in gone[r] : heard[r][h] <= tick
    /\ \A c \in copies[r] : c.was.until <= tick

\* A time that a saved run was told is in some row while it is ahead.
NamedIsStored == \A h \in Hosts : named[h] <= tick \/ \E s \in Sources : named[h] <= stored[s][h].until

HonourInv == IdleInv /\ (\A r \in HoldRuns : RunRemembers(r)) /\ NamedIsStored

LEMMA HonourInvInit == RateHoldsInit => HonourInv
<1>1. ASSUME RateHoldsInit PROVE HonourInv
  <2>1. IdleInv BY <1>1, IdleInvInit
  <2>2. tick = 0 BY <1>1 DEF RateHoldsInit
  <2>3. \A r \in HoldRuns, h \in Hosts : bound[r][h] = 0 /\ heard[r][h] = 0 BY <1>1 DEF RateHoldsInit
  <2>4. \A r \in HoldRuns : gone[r] = {} /\ copies[r] = {} BY <1>1 DEF RateHoldsInit
  <2>5. \A h \in Hosts : named[h] = 0 BY <1>1 DEF RateHoldsInit
  <2> QED BY <2>1, <2>2, <2>3, <2>4, <2>5 DEF HonourInv, RunRemembers, NamedIsStored
<1> QED BY <1>1

\* The numbers of the invariant.
LEMMA HoldNumbers ==
    ASSUME HoldsTyped
    PROVE  /\ tick \in Nat
           /\ \A r \in HoldRuns : /\ gone[r] \subseteq Hosts /\ host[r] \in Hosts
                                  /\ copies[r] \subseteq [at : Sources \X Hosts, was : Hold]
           /\ \A r \in HoldRuns, h \in Hosts :
                view[r][h] \in Record /\ view[r][h].until \in Nat /\ bound[r][h] \in Nat /\ heard[r][h] \in Nat
           /\ \A s \in Sources, h \in Hosts : stored[s][h] \in Record /\ stored[s][h].until \in Nat
           /\ \A h \in Hosts : named[h] \in Nat
<1>1. /\ stored \in [Sources -> [Hosts -> Record]] /\ view \in [HoldRuns -> [Hosts -> Record]]
  BY DEF HoldsTyped
<1>2. \A r \in HoldRuns, h \in Hosts : view[r][h] \in Record BY <1>1
<1>3. \A s \in Sources, h \in Hosts : stored[s][h] \in Record BY <1>1
<1>4. (\A r \in HoldRuns, h \in Hosts : view[r][h].until \in Nat)
      /\ (\A s \in Sources, h \in Hosts : stored[s][h].until \in Nat)
  BY <1>2, <1>3, RecordFields
<1>5. /\ bound \in [HoldRuns -> [Hosts -> Nat]] /\ heard \in [HoldRuns -> [Hosts -> Nat]]
      /\ named \in [Hosts -> Nat] /\ gone \in [HoldRuns -> SUBSET Hosts] /\ host \in [HoldRuns -> Hosts]
  BY DEF HoldsTyped, RateHoldsTypeOK
<1>6. \A r \in HoldRuns : copies[r] \subseteq [at : Sources \X Hosts, was : Hold]
  BY DEF HoldsTyped, RateHoldsTypeOK
<1>7. tick \in Nat BY HoldsAssumption DEF HoldsTyped, RateHoldsTypeOK, Ticks
<1> QED BY <1>2, <1>3, <1>4, <1>5, <1>6, <1>7

\* A run that a step leaves alone remembers what it did.
LEMMA StillRemembers ==
    ASSUME HonourInv, NEW r \in HoldRuns, tick' \in Nat, tick <= tick', view'[r] = view[r], gone'[r] = gone[r],
           heard'[r] = heard[r], bound'[r] = bound[r], copies'[r] \subseteq copies[r]
    PROVE  RunRemembers(r)'
<1>1. RunRemembers(r) BY DEF HonourInv, IdleInv
<1>2. \A h \in Hosts : /\ view[r][h].until \in Nat /\ bound[r][h] \in Nat /\ heard[r][h] \in Nat
  BY HoldNumbers DEF HonourInv, IdleInv
<1>3. tick \in Nat /\ gone[r] \subseteq Hosts /\ copies[r] \subseteq [at : Sources \X Hosts, was : Hold]
  BY HoldNumbers DEF HonourInv, IdleInv
<1>4. \A c \in copies[r] : c.was.until \in Nat BY <1>3 DEF Hold
<1>5. \A h \in gone[r] : heard[r][h] <= tick' BY <1>1, <1>2, <1>3 DEF RunRemembers
<1>6. \A c \in copies[r] : c.was.until <= tick' BY <1>1, <1>3, <1>4 DEF RunRemembers
<1>7. \A h \in Hosts : /\ bound[r][h] <= tick' \/ bound[r][h] <= view[r][h].until
                       /\ heard[r][h] <= tick' \/ heard[r][h] <= view[r][h].until
  BY <1>1, <1>2, <1>3 DEF RunRemembers
<1> QED BY <1>5, <1>6, <1>7 DEF RunRemembers

\* A run that ends has nothing to remember.
LEMMA EndedRemembers ==
    ASSUME HonourInv, NEW r \in HoldRuns, NEW rows, RunEnds(r, rows)
    PROVE  \A q \in HoldRuns : RunRemembers(q)'
<1>1. tick' = tick /\ tick \in Nat BY HoldNumbers DEF RunEnds, HonourInv, IdleInv
<1>2. RunRemembers(r)'
  <2>1. /\ gone'[r] = {} /\ copies'[r] = {}
        /\ \A h \in Hosts : heard'[r][h] = 0 /\ bound'[r][h] = 0
    BY DEF RunEnds, HonourInv, IdleInv, HoldsTyped, RateHoldsTypeOK
  <2> QED BY <1>1, <2>1 DEF RunRemembers
<1>3. ASSUME NEW q \in HoldRuns, q # r PROVE RunRemembers(q)'
  <2>1. /\ view'[q] = view[q] /\ gone'[q] = gone[q] /\ heard'[q] = heard[q] /\ bound'[q] = bound[q]
        /\ copies'[q] = copies[q]
    BY <1>3 DEF RunEnds, HonourInv, IdleInv, HoldsTyped, RateHoldsTypeOK
  <2> QED BY <1>1, <2>1, StillRemembers
<1> QED BY <1>2, <1>3

\* Rows that keep every time that is ahead keep what was named.
LEMMA NamedKept ==
    ASSUME HonourInv, HoldsTyped', tick' = tick, named' = named,
           \A s \in Sources, h \in Hosts :
              stored[s][h].until > tick => stored[s][h].until <= stored'[s][h].until
    PROVE  NamedIsStored'
<1>1. ASSUME NEW h \in Hosts, ~(named[h] <= tick) PROVE \E s \in Sources : named[h] <= stored'[s][h].until
  <2>1. PICK s \in Sources : named[h] <= stored[s][h].until BY <1>1 DEF HonourInv, NamedIsStored
  <2>2. named[h] \in Nat /\ tick \in Nat /\ stored[s][h].until \in Nat BY HoldNumbers DEF HonourInv, IdleInv
  <2>3. stored'[s][h].until \in Nat
    <3>1. stored' \in [Sources -> [Hosts -> Record]] BY DEF HoldsTyped
    <3>2. stored'[s][h] \in Record BY <3>1
    <3> QED BY <3>2, RecordFields
  <2> QED BY <1>1, <2>1, <2>2, <2>3
<1> QED BY <1>1 DEF NamedIsStored

LEMMA HonourInvStep == HonourInv /\ [RateHoldsNext]_RateHoldsVars => HonourInv'
<1> SUFFICES ASSUME HonourInv, [RateHoldsNext]_RateHoldsVars PROVE HonourInv'
    OBVIOUS
<1>0. /\ HoldsTyped /\ HoldsTyped' /\ IdleInv /\ IdleInv'
  BY HoldsTypedStep, IdleInvStep DEF HonourInv, IdleInv
<1>n. /\ tick \in Nat
      /\ \A r \in HoldRuns : /\ gone[r] \subseteq Hosts /\ host[r] \in Hosts
                             /\ copies[r] \subseteq [at : Sources \X Hosts, was : Hold]
      /\ \A r \in HoldRuns, h \in Hosts :
           view[r][h] \in Record /\ view[r][h].until \in Nat /\ bound[r][h] \in Nat /\ heard[r][h] \in Nat
      /\ \A s \in Sources, h \in Hosts : stored[s][h] \in Record /\ stored[s][h].until \in Nat
      /\ \A h \in Hosts : named[h] \in Nat
  BY <1>0, HoldNumbers
<1>t. /\ view \in [HoldRuns -> [Hosts -> Record]] /\ stored \in [Sources -> [Hosts -> Record]]
      /\ gone \in [HoldRuns -> SUBSET Hosts] /\ heard \in [HoldRuns -> [Hosts -> Nat]]
      /\ bound \in [HoldRuns -> [Hosts -> Nat]] /\ tick \in Ticks
      /\ copies \in [HoldRuns -> SUBSET [at : Sources \X Hosts, was : Hold]]
  BY <1>0 DEF HoldsTyped, RateHoldsTypeOK
<1>m. (\A r \in HoldRuns : RunRemembers(r)) /\ NamedIsStored BY DEF HonourInv, IdleInv
<1>i. ASSUME \A r \in HoldRuns : RunRemembers(r)', NamedIsStored' PROVE HonourInv'
  BY <1>0, <1>i DEF HonourInv, IdleInv
\* The steps of a run that leave the rows alone.
<1>s. ASSUME NEW r \in HoldRuns, RunRemembers(r)', tick' = tick, UNCHANGED <<stored, named>>,
             \A q \in HoldRuns \ {r} : /\ view'[q] = view[q] /\ gone'[q] = gone[q] /\ heard'[q] = heard[q]
                                       /\ bound'[q] = bound[q] /\ copies'[q] = copies[q]
      PROVE  HonourInv'
  <2>1. ASSUME NEW q \in HoldRuns, q # r PROVE RunRemembers(q)'
    <3>1. copies'[q] \subseteq copies[q] /\ tick' \in Nat /\ tick <= tick' BY <1>n, <1>s, <2>1
    <3>2. view'[q] = view[q] /\ gone'[q] = gone[q] /\ heard'[q] = heard[q] /\ bound'[q] = bound[q]
      BY <1>s, <2>1
    <3> QED BY <3>1, <3>2, StillRemembers
  <2>2. NamedIsStored' BY <1>m, <1>s DEF NamedIsStored
  <2> QED BY <1>i, <1>s, <2>1, <2>2
<1>1. CASE HoldTick
  <2>1. tick' = tick + 1 /\ UNCHANGED <<stored, named, view, gone, heard, bound, copies>>
    BY <1>1 DEF HoldTick, rhRun
  <2>2. tick' \in Nat /\ tick <= tick' BY <1>n, <2>1
  <2>3. \A r \in HoldRuns : RunRemembers(r)' BY <2>1, <2>2, StillRemembers
  <2>4. NamedIsStored' BY <1>m, <1>n, <2>1 DEF NamedIsStored
  <2> QED BY <1>i, <2>3, <2>4
<1>2. ASSUME NEW r \in HoldRuns, LoadHolds(r) PROVE HonourInv'
  <2>1. Sources # {} BY <1>2, FirstTyped
  <2>2. /\ view'[r] = [h \in Hosts |-> Joined(Sources, h)] /\ bound'[r] = named
        /\ UNCHANGED <<tick, stored, gone, copies, heard, named>>
    BY <1>2, <1>t DEF LoadHolds
  <2>3. ASSUME NEW h \in Hosts PROVE named[h] <= tick \/ named[h] <= Joined(Sources, h).until
    <3>1. CASE ~(named[h] <= tick)
      <4>1. PICK s \in Sources : named[h] <= stored[s][h].until BY <1>m, <3>1 DEF NamedIsStored
      <4>2. stored[s][h].until <= Joined(Sources, h).until /\ Joined(Sources, h) \in Record
        BY <1>t, <2>1, JoinedRecord
      <4>3. Joined(Sources, h).until \in Nat BY <4>2, RecordFields
      <4> QED BY <1>n, <4>1, <4>2, <4>3
    <3> QED BY <3>1
  <2>4. ASSUME NEW h \in Hosts PROVE heard[r][h] <= tick \/ heard[r][h] <= Joined(Sources, h).until
    <3>a. heard[r][h] = 0 BY <1>0, <1>2 DEF IdleInv, IdleKnowsNothing, LoadHolds
    <3> QED BY <1>n, <3>a
  <2>5. RunRemembers(r)' BY <1>m, <2>2, <2>3, <2>4 DEF RunRemembers
  <2>6. \A q \in HoldRuns \ {r} : view'[q] = view[q] /\ bound'[q] = bound[q] BY <1>2, <1>t DEF LoadHolds
  <2> QED BY <1>s, <2>2, <2>5, <2>6
<1>3. ASSUME NEW r \in HoldRuns,
             Send(r) \/ RetryInRun(r) \/ OtherEnd(r) \/ (\E h \in Hosts : Redirected(r, h))
      PROVE  HonourInv'
  <2>1. UNCHANGED <<tick, stored, named, view, gone, heard, bound, copies>>
    BY <1>3 DEF Send, RetryInRun, OtherEnd, Redirected, rhWorld, rhRun
  <2>2. RunRemembers(r)' BY <1>m, <2>1 DEF RunRemembers
  <2> QED BY <1>s, <2>1, <2>2
<1>5. ASSUME NEW r \in HoldRuns, Refrain(r) PROVE HonourInv'
  <2> DEFINE v == HoldAlso(view[r], r, host[r])
  <2>1. /\ view' = [view EXCEPT ![r] = v] /\ UNCHANGED <<tick, stored, copies, heard, named, bound>>
        /\ gone'[r] \subseteq gone[r] /\ \A q \in HoldRuns \ {r} : gone'[q] = gone[q]
    BY <1>5, <1>t DEF Refrain, rhWorld
  <2>2. v \in [Hosts -> Record] /\ \A h \in Hosts : view[r][h].until <= v[h].until
    <3>1. view[r] \in [Hosts -> Record] BY <1>t
    <3> QED BY <1>n, <3>1, AlsoHeld
  <2> HIDE DEF v
  <2>3. \A h \in Hosts : v[h].until \in Nat BY <2>2, RecordFields
  <2>4. view'[r] = v /\ \A q \in HoldRuns \ {r} : view'[q] = view[q] BY <1>t, <2>1
  <2>5. ASSUME NEW h \in Hosts
        PROVE  /\ bound[r][h] <= tick \/ bound[r][h] <= v[h].until
               /\ heard[r][h] <= tick \/ heard[r][h] <= v[h].until
    <3>1. view[r][h].until <= v[h].until BY <2>2
    <3>2. /\ bound[r][h] <= tick \/ bound[r][h] <= view[r][h].until
          /\ heard[r][h] <= tick \/ heard[r][h] <= view[r][h].until
      BY <1>m DEF RunRemembers
    <3> QED BY <1>n, <2>3, <3>1, <3>2
  <2>6. RunRemembers(r)' BY <1>m, <2>1, <2>4, <2>5 DEF RunRemembers
  <2> QED BY <1>s, <2>1, <2>4, <2>6
<1>6. ASSUME NEW r \in HoldRuns, NEW a \in LimitAnswers, Limited(r, a[1], a[2]) PROVE HonourInv'
  <2> DEFINE e == NextHold(view[r][host[r]], a[1], a[2])
             u == [view[r] EXCEPT ![host[r]] = e]
             v == HoldAlso(u, r, host[r])
  <2>1. e \in Record /\ view[r][host[r]].until <= e.until BY <1>n, <1>t, NextRecord
  <2>2. e.until \in Nat BY <2>1, RecordFields
  <2>3. /\ view' = [view EXCEPT ![r] = v] /\ UNCHANGED <<tick, stored, copies, named, bound>>
        /\ gone' = [gone EXCEPT ![r] = @ \ {host[r], First(r)}]
        /\ heard' = [heard EXCEPT ![r] = [h \in Hosts |->
                IF h \in {host[r], First(r)} THEN Larger(@[h], e.until) ELSE @[h]]]
    BY <1>6 DEF Limited, Learns, rhWorld, First
  <2> HIDE DEF e
  <2>4. /\ u \in [Hosts -> Record] /\ u[host[r]] = e
        /\ \A h \in Hosts : view[r][h].until <= u[h].until
    BY <1>n, <1>t, <2>1, <2>2
  <2> HIDE DEF u
  <2>5. /\ v \in [Hosts -> Record] /\ e.until <= v[host[r]].until /\ e.until <= v[First(r)].until
        /\ \A h \in Hosts : u[h].until <= v[h].until
    BY <1>n, <2>4, AlsoHeld
  <2> HIDE DEF v
  <2>6. \A h \in Hosts : v[h].until \in Nat /\ u[h].until \in Nat BY <2>4, <2>5, RecordFields
  <2>7. view'[r] = v /\ \A q \in HoldRuns \ {r} : view'[q] = view[q] BY <1>t, <2>3
  <2>8. /\ gone'[r] = gone[r] \ {host[r], First(r)}
        /\ \A q \in HoldRuns \ {r} : gone'[q] = gone[q] /\ heard'[q] = heard[q]
        /\ \A h \in Hosts :
             heard'[r][h] = IF h \in {host[r], First(r)} THEN Larger(heard[r][h], e.until) ELSE heard[r][h]
    BY <1>t, <2>3
  <2>9. ASSUME NEW h \in Hosts
        PROVE  /\ bound[r][h] <= tick \/ bound[r][h] <= v[h].until
               /\ heard'[r][h] <= tick \/ heard'[r][h] <= v[h].until
    <3>1. view[r][h].until <= v[h].until BY <1>n, <2>4, <2>5, <2>6
    <3>2. /\ bound[r][h] <= tick \/ bound[r][h] <= view[r][h].until
          /\ heard[r][h] <= tick \/ heard[r][h] <= view[r][h].until
      BY <1>m DEF RunRemembers
    <3>3. bound[r][h] <= tick \/ bound[r][h] <= v[h].until BY <1>n, <2>6, <3>1, <3>2
    <3>4. heard[r][h] <= tick \/ heard[r][h] <= v[h].until BY <1>n, <2>6, <3>1, <3>2
    <3>5. CASE h \in {host[r], First(r)}
      <4>1. e.until <= v[h].until BY <2>5, <3>5
      <4>2. heard'[r][h] = Larger(heard[r][h], e.until) BY <2>8, <3>5
      <4> QED BY <1>n, <2>2, <2>6, <3>3, <3>4, <4>1, <4>2 DEF Larger
    <3>6. CASE h \notin {host[r], First(r)}
      <4>1. heard'[r][h] = heard[r][h] BY <2>8, <3>6
      <4> QED BY <3>3, <3>4, <4>1
    <3> QED BY <3>5, <3>6
  <2>10. \A h \in gone'[r] : heard'[r][h] <= tick BY <1>n, <1>m, <2>8 DEF RunRemembers
  <2>11. RunRemembers(r)' BY <1>m, <2>3, <2>7, <2>9, <2>10 DEF RunRemembers
  <2> QED BY <1>s, <2>3, <2>7, <2>8, <2>11
<1>7. ASSUME NEW r \in HoldRuns, Answered(r) PROVE HonourInv'
  <2> DEFINE over == {h \in {host[r], EntryOf[SourceOf[r]]} : view[r][h] # NoHold /\ ~Active(view[r][h])}
  <2>1. /\ view' = [view EXCEPT ![r] = [h \in Hosts |-> IF h \in over THEN NoHold ELSE @[h]]]
        /\ gone' = [gone EXCEPT ![r] = @ \cup over]
        /\ UNCHANGED <<tick, stored, copies, heard, named, bound>>
    BY <1>7 DEF Answered, rhWorld
  <2>2. \A h \in over : h \in Hosts /\ view[r][h].until <= tick
    BY <1>n, FirstTyped DEF Active, First
  <2> HIDE DEF over
  <2>3. /\ \A h \in Hosts : view'[r][h] = IF h \in over THEN NoHold ELSE view[r][h]
        /\ gone'[r] = gone[r] \cup over
        /\ \A q \in HoldRuns \ {r} : view'[q] = view[q] /\ gone'[q] = gone[q]
    BY <1>t, <2>1
  <2>4. ASSUME NEW h \in Hosts
        PROVE  /\ bound[r][h] <= tick \/ bound[r][h] <= view'[r][h].until
               /\ heard[r][h] <= tick \/ heard[r][h] <= view'[r][h].until
    <3>1. /\ bound[r][h] <= tick \/ bound[r][h] <= view[r][h].until
          /\ heard[r][h] <= tick \/ heard[r][h] <= view[r][h].until
      BY <1>m DEF RunRemembers
    <3>2. CASE h \in over BY <1>n, <2>2, <3>1, <3>2
    <3>3. CASE h \notin over BY <2>3, <3>1, <3>3
    <3> QED BY <3>2, <3>3
  <2>5. \A h \in over : heard[r][h] <= tick
    <3>1. ASSUME NEW h \in over PROVE heard[r][h] <= tick
      <4>1. h \in Hosts /\ view[r][h].until <= tick BY <2>2
      <4>2. heard[r][h] <= tick \/ heard[r][h] <= view[r][h].until BY <1>m, <4>1 DEF RunRemembers
      <4> QED BY <1>n, <4>1, <4>2
    <3> QED BY <3>1
  <2>6. RunRemembers(r)' BY <1>m, <2>1, <2>3, <2>4, <2>5 DEF RunRemembers
  <2> QED BY <1>s, <2>1, <2>3, <2>6
<1>8. ASSUME NEW r \in HoldRuns, SaveHolds(r) PROVE HonourInv'
  <2> DEFINE s == SourceOf[r]
             row == SavedRow(r, s)
             rows == [stored EXCEPT ![s] = row]
  <2>1. s \in Sources BY FirstTyped
  <2>2. /\ row \in [Hosts -> Record]
        /\ \A h \in Hosts :
             /\ stored[s][h].until > tick => stored[s][h].until <= row[h].until
             /\ h \in HostsOf[s] /\ h \notin gone[r] /\ view[r][h].until > tick
                  => view[r][h].until <= row[h].until
    BY <1>n, <1>t, <2>1, SavedRecord
  <2>3. /\ stored' = rows /\ tick' = tick
        /\ named' = [h \in Hosts |-> IF h \in HostsOf[s] THEN Larger(named[h], heard[r][h]) ELSE named[h]]
        /\ \/ RunEnds(r, rows)
           \/ UNCHANGED <<view, gone, heard, bound, copies>>
    BY <1>8 DEF SaveHolds, RunEnds, Cleans
  <2> HIDE DEF row, s
  <2>4. stored'[s] = row /\ \A q \in Sources \ {s} : stored'[q] = stored[q] BY <1>t, <2>1, <2>3
  <2>5. \A q \in HoldRuns : RunRemembers(q)'
    <3>1. CASE RunEnds(r, rows) BY <3>1, EndedRemembers
    <3>2. CASE UNCHANGED <<view, gone, heard, bound, copies>>
      <4>1. tick' \in Nat /\ tick <= tick' BY <1>n, <2>3
      <4> QED BY <2>3, <3>2, <4>1, StillRemembers
    <3> QED BY <2>3, <3>1, <3>2
  <2>6. ASSUME NEW h \in Hosts PROVE named'[h] <= tick \/ \E q \in Sources : named'[h] <= stored'[q][h].until
    <3>r. row[h].until \in Nat /\ (\A q \in Sources : stored'[q][h].until \in Nat)
      <4>1. row[h] \in Record BY <2>2
      <4>2. stored' \in [Sources -> [Hosts -> Record]] BY <1>0 DEF HoldsTyped
      <4>3. \A q \in Sources : stored'[q][h] \in Record BY <4>2
      <4> QED BY <4>1, <4>3, RecordFields
    <3>1. named[h] <= tick \/ \E q \in Sources : named[h] <= stored'[q][h].until
      <4>1. CASE ~(named[h] <= tick)
        <5>1. PICK q \in Sources : named[h] <= stored[q][h].until BY <1>m, <4>1 DEF NamedIsStored
        <5>2. stored[q][h].until > tick BY <1>n, <4>1, <5>1
        <5>3. stored[q][h].until <= stored'[q][h].until
          <6>1. CASE q = s BY <2>2, <2>4, <5>2, <6>1
          <6>2. CASE q # s BY <1>n, <2>4, <6>2
          <6> QED BY <6>1, <6>2
        <5>4. named[h] <= stored'[q][h].until BY <1>n, <3>r, <5>1, <5>3
        <5> QED BY <5>4
      <4> QED BY <4>1
    <3>2. h \in HostsOf[s] => heard[r][h] <= tick \/ heard[r][h] <= stored'[s][h].until
      <4>1. CASE h \in HostsOf[s] /\ ~(heard[r][h] <= tick)
        <5>1. heard[r][h] <= view[r][h].until /\ h \notin gone[r] BY <1>m, <4>1 DEF RunRemembers
        <5>2. view[r][h].until > tick BY <1>n, <4>1, <5>1
        <5>3. view[r][h].until <= row[h].until BY <2>2, <4>1, <5>1, <5>2
        <5> QED BY <1>n, <2>4, <3>r, <5>1, <5>3
      <4> QED BY <4>1
    <3>3. named'[h] = named[h] \/ (h \in HostsOf[s] /\ named'[h] = heard[r][h]) BY <2>3 DEF Larger
    <3> QED BY <2>1, <3>1, <3>2, <3>3
  <2>7. NamedIsStored' BY <2>3, <2>6 DEF NamedIsStored
  <2> QED BY <1>i, <2>5, <2>7
<1>9. ASSUME NEW r \in HoldRuns, NEW h \in Hosts, ReadCopies(r, h) PROVE HonourInv'
  <2> DEFINE others == {s \in Sources \ {SourceOf[r]} : stored[s][h] # NoHold /\ MayClear(s, h)}
  <2>1. /\ stored' = stored /\ tick' = tick /\ named' = named
        /\ \/ RunEnds(r, stored)
           \/ /\ copies' = [copies EXCEPT ![r] = {[at |-> <<s, h>>, was |-> stored[s][h]] : s \in others}]
              /\ UNCHANGED <<view, gone, heard, bound>>
    BY <1>9 DEF ReadCopies, RunEnds, Cleans
  <2>2. NamedIsStored' BY <1>m, <2>1 DEF NamedIsStored
  <2>3. CASE RunEnds(r, stored) BY <1>i, <2>2, <2>3, EndedRemembers
  <2>4. CASE /\ copies' = [copies EXCEPT ![r] = {[at |-> <<s, h>>, was |-> stored[s][h]] : s \in others}]
             /\ UNCHANGED <<view, gone, heard, bound>>
    <3>1. \A s \in others : stored[s][h].until <= tick BY <1>n DEF MayClear, Active
    <3>2. \A c \in copies'[r] : c.was.until <= tick
      <4> HIDE DEF others
      <4>1. copies'[r] = {[at |-> <<s, h>>, was |-> stored[s][h]] : s \in others} BY <1>t, <2>4
      <4> QED BY <3>1, <4>1
    <3>3. \A q \in HoldRuns \ {r} : copies'[q] = copies[q] BY <1>t, <2>4
    <3>4. RunRemembers(r)' BY <1>m, <2>1, <2>4, <3>2 DEF RunRemembers
    <3> QED BY <1>s, <2>1, <2>4, <3>3, <3>4
  <2> QED BY <2>1, <2>3, <2>4
<1>10. ASSUME NEW r \in HoldRuns, NEW c \in copies[r], DropCopy(r, c) PROVE HonourInv'
  <2> DEFINE rows == [stored EXCEPT ![c.at[1]][c.at[2]] = IF @ = c.was THEN NoHold ELSE @]
  <2>1. c.at[1] \in Sources /\ c.at[2] \in Hosts BY <1>n
  <2>2. c.was.until <= tick BY <1>m DEF RunRemembers
  <2>3. /\ stored' = rows /\ tick' = tick /\ named' = named
        /\ \/ RunEnds(r, rows)
           \/ copies' = [copies EXCEPT ![r] = @ \ {c}] /\ UNCHANGED <<view, gone, heard, bound>>
    BY <1>10 DEF DropCopy, RunEnds, Cleans
  <2>4. ASSUME NEW s \in Sources, NEW h \in Hosts, stored[s][h].until > tick
        PROVE  stored[s][h].until <= stored'[s][h].until
    <3>1. stored[s][h] # c.was BY <1>n, <2>2, <2>4
    <3>2. stored'[s][h] = stored[s][h] BY <1>t, <2>1, <2>3, <3>1
    <3> QED BY <1>n, <3>2
  <2>5. NamedIsStored' BY <1>0, <2>3, <2>4, NamedKept
  <2> HIDE DEF rows
  <2>6. CASE RunEnds(r, rows) BY <1>i, <2>5, <2>6, EndedRemembers
  <2>7. CASE copies' = [copies EXCEPT ![r] = @ \ {c}] /\ UNCHANGED <<view, gone, heard, bound>>
    <3>1. \A q \in HoldRuns : copies'[q] \subseteq copies[q] BY <1>t, <2>7
    <3>2. tick' \in Nat /\ tick <= tick' BY <1>n, <2>3
    <3>3. \A q \in HoldRuns : RunRemembers(q)' BY <2>7, <3>1, <3>2, StillRemembers
    <3> QED BY <1>i, <2>5, <3>3
  <2> QED BY <2>3, <2>6, <2>7
<1>11. CASE UNCHANGED RateHoldsVars
  <2>1. UNCHANGED <<tick, stored, named, view, gone, heard, bound, copies>>
    BY <1>11 DEF RateHoldsVars, rhWorld, rhRun
  <2> QED BY <1>i, <1>m, <2>1 DEF RunRemembers, NamedIsStored
<1> QED
  BY <1>1, <1>2, <1>3, <1>5, <1>6, <1>7, <1>8, <1>9, <1>10, <1>11 DEF RateHoldsNext

\* However runs load, merge, save and clear their copies, no run asks a host
\* before the time it named to a run that had saved it when this one loaded.
THEOREM HoldsAreHonoured == RateHoldsSpec => HoldHonoured
<1>1. HonourInv /\ [RateHoldsNext]_RateHoldsVars
        => [\A r \in HoldRuns : Send(r) => bound[r][host[r]] <= tick]_RateHoldsVars
  <2>1. ASSUME HonourInv, NEW r \in HoldRuns, Send(r) PROVE bound[r][host[r]] <= tick
    <3>1. /\ host[r] \in Hosts /\ view[r][host[r]].until \in Nat /\ bound[r][host[r]] \in Nat /\ tick \in Nat
      BY <2>1, HoldNumbers DEF HonourInv, IdleInv
    <3>2. view[r][host[r]].until <= tick BY <2>1, <3>1 DEF Send, Active
    <3>3. bound[r][host[r]] <= tick \/ bound[r][host[r]] <= view[r][host[r]].until
      BY <2>1, <3>1 DEF HonourInv, RunRemembers
    <3> QED BY <3>1, <3>2, <3>3
  <2> QED BY <2>1
<1> QED BY <1>1, HonourInvInit, HonourInvStep, PTL DEF RateHoldsSpec, HoldHonoured

-----------------------------------------------------------------------------
(* RateHolds: no limit is counted twice.                                      *)

\* Of a host that does not redirect, no record anywhere counts more limits than
\* the host gave since its last undisputed success.
CountedOnce(h) ==
    /\ base[h] <= given[h]
    /\ \A s \in Sources : stored[s][h].count + base[h] <= given[h]
    /\ \A r \in HoldRuns : view[r][h].count + base[h] <= given[h]

\* A run that is at another host than its first was redirected from there.
WasRedirected(r) == host[r] # First(r) => RedirectsTo[First(r)] # {}

FairInv ==
    /\ IdleInv
    /\ \A r \in HoldRuns : WasRedirected(r)
    /\ \A h \in Hosts : RedirectsTo[h] = {} => CountedOnce(h)

LEMMA FairInvInit == RateHoldsInit => FairInv
<1>1. ASSUME RateHoldsInit PROVE FairInv
  <2>1. IdleInv BY <1>1, IdleInvInit
  <2>2. \A r \in HoldRuns : WasRedirected(r) BY <1>1 DEF RateHoldsInit, WasRedirected, First
  <2>3. ASSUME NEW h \in Hosts PROVE CountedOnce(h)
    <3>1. base[h] = 0 /\ given[h] = 0 BY <1>1 DEF RateHoldsInit
    <3>2. /\ \A s \in Sources : stored[s][h] = NoHold
          /\ \A r \in HoldRuns : view[r][h] = NoHold
      BY <1>1 DEF RateHoldsInit
    <3> QED BY <3>1, <3>2, NoHoldRecord DEF CountedOnce
  <2> QED BY <2>1, <2>2, <2>3 DEF FairInv
<1> QED BY <1>1

LEMMA CountNumbers ==
    ASSUME HoldsTyped
    PROVE  /\ \A h \in Hosts : base[h] \in Nat /\ given[h] \in Nat
           /\ \A r \in HoldRuns, h \in Hosts : view[r][h] \in Record /\ view[r][h].count \in Nat
           /\ \A s \in Sources, h \in Hosts : stored[s][h] \in Record /\ stored[s][h].count \in Nat
<1>1. \A h \in Hosts : base[h] \in Nat /\ given[h] \in Nat BY DEF HoldsTyped, RateHoldsTypeOK
<1>2. /\ \A r \in HoldRuns, h \in Hosts : view[r][h] \in Record
      /\ \A s \in Sources, h \in Hosts : stored[s][h] \in Record
  BY DEF HoldsTyped
<1> QED BY <1>1, <1>2, RecordFields

\* A run that ends: a success is a success only for rows and runs without a
\* record of the host.
LEMMA EndedFair ==
    ASSUME FairInv, IdleInv', NEW r \in HoldRuns, NEW rows \in [Sources -> [Hosts -> Record]],
           RunEnds(r, rows),
           \A s \in Sources, h \in Hosts :
              \/ rows[s][h].count = 0 \/ rows[s][h].count = stored[s][h].count
              \/ rows[s][h].count = view[r][h].count
    PROVE  FairInv'
<1>n. /\ \A h \in Hosts : base[h] \in Nat /\ given[h] \in Nat
      /\ \A q \in HoldRuns, h \in Hosts : view[q][h].count \in Nat
      /\ \A s \in Sources, h \in Hosts : stored[s][h].count \in Nat
  BY CountNumbers DEF FairInv, IdleInv
<1>1. \A q \in HoldRuns : WasRedirected(q)'
  <2>1. host \in [HoldRuns -> Hosts] /\ host' = [host EXCEPT ![r] = First(r)]
    BY DEF RunEnds, FairInv, IdleInv, HoldsTyped, RateHoldsTypeOK, First
  <2>2. \A q \in HoldRuns : WasRedirected(q) BY DEF FairInv
  <2> QED BY <2>1, <2>2 DEF WasRedirected, First
<1>2. ASSUME NEW h \in Hosts, RedirectsTo[h] = {} PROVE CountedOnce(h)'
  <2>0. CountedOnce(h) BY <1>2 DEF FairInv
  <2>1. /\ stored' = rows /\ given' = given /\ view'[r][h] = NoHold
        /\ \A q \in HoldRuns \ {r} : view'[q] = view[q]
        /\ base'[h] = IF (\A s \in Sources : rows[s][h] = NoHold) /\ (\A q \in HoldRuns \ {r} : rhAt[q] = "idle")
                      THEN given[h] ELSE base[h]
    BY DEF RunEnds, FairInv, IdleInv, HoldsTyped
  <2>2. CASE base'[h] = base[h]
    <3>1. \A s \in Sources : rows[s][h].count + base[h] <= given[h]
      <4>1. ASSUME NEW s \in Sources PROVE rows[s][h].count + base[h] <= given[h]
        <5>1. \/ rows[s][h].count = 0 \/ rows[s][h].count = stored[s][h].count
              \/ rows[s][h].count = view[r][h].count
          OBVIOUS
        <5>2. /\ 0 + base[h] <= given[h] /\ stored[s][h].count + base[h] <= given[h]
              /\ view[r][h].count + base[h] <= given[h]
          BY <1>n, <2>0 DEF CountedOnce
        <5> QED BY <5>1, <5>2
      <4> QED BY <4>1
    <3>2. \A q \in HoldRuns : view'[q][h].count + base[h] <= given[h]
      <4>1. view'[r][h].count + base[h] <= given[h] BY <1>n, <2>0, <2>1, NoHoldRecord DEF CountedOnce
      <4>2. \A q \in HoldRuns \ {r} : view'[q][h].count + base[h] <= given[h] BY <2>0, <2>1 DEF CountedOnce
      <4> QED BY <4>1, <4>2
    <3> QED BY <2>0, <2>1, <2>2, <3>1, <3>2 DEF CountedOnce
  <2>3. CASE /\ \A s \in Sources : rows[s][h] = NoHold
             /\ \A q \in HoldRuns \ {r} : rhAt[q] = "idle"
    <3>1. \A q \in HoldRuns \ {r} : view[q][h] = NoHold BY <2>3 DEF FairInv, IdleInv, IdleKnowsNothing
    <3>2. \A q \in HoldRuns : view'[q][h] = NoHold BY <2>1, <3>1
    <3>3. base'[h] = given[h] BY <2>1, <2>3
    <3> QED BY <1>n, <2>1, <2>3, <3>2, <3>3, NoHoldRecord DEF CountedOnce
  <2> QED BY <2>1, <2>2, <2>3
<1> QED BY <1>1, <1>2 DEF FairInv

LEMMA FairInvStep == FairInv /\ [RateHoldsNext]_RateHoldsVars => FairInv'
<1> SUFFICES ASSUME FairInv, [RateHoldsNext]_RateHoldsVars PROVE FairInv'
    OBVIOUS
<1>0. IdleInv /\ IdleInv' /\ HoldsTyped BY IdleInvStep DEF FairInv, IdleInv
<1>n. /\ \A h \in Hosts : base[h] \in Nat /\ given[h] \in Nat
      /\ \A r \in HoldRuns, h \in Hosts : view[r][h] \in Record /\ view[r][h].count \in Nat
      /\ \A s \in Sources, h \in Hosts : stored[s][h] \in Record /\ stored[s][h].count \in Nat
  BY <1>0, CountNumbers
<1>t. /\ view \in [HoldRuns -> [Hosts -> Record]] /\ stored \in [Sources -> [Hosts -> Record]]
      /\ host \in [HoldRuns -> Hosts] /\ tick \in Ticks /\ tick \in Nat /\ given \in [Hosts -> Nat]
      /\ copies \in [HoldRuns -> SUBSET [at : Sources \X Hosts, was : Hold]]
  BY <1>0, HoldsAssumption DEF HoldsTyped, RateHoldsTypeOK, Ticks
<1>w. \A r \in HoldRuns : WasRedirected(r) BY DEF FairInv
<1>c. \A h \in Hosts : RedirectsTo[h] = {} => CountedOnce(h) BY DEF FairInv
\* The steps of a run that change its records.
<1>v. ASSUME NEW r \in HoldRuns, NEW v, view' = [view EXCEPT ![r] = v], UNCHANGED <<stored, base, host>>,
             \A h \in Hosts : RedirectsTo[h] = {} => given[h] <= given'[h] /\ given'[h] \in Nat
                                                     /\ v[h].count + base[h] <= given'[h]
      PROVE  FairInv'
  <2>1. view'[r] = v /\ \A q \in HoldRuns \ {r} : view'[q] = view[q] BY <1>v, <1>t
  <2>2. ASSUME NEW h \in Hosts, RedirectsTo[h] = {} PROVE CountedOnce(h)'
    <3>1. CountedOnce(h) /\ given[h] <= given'[h] /\ given'[h] \in Nat BY <1>c, <1>v, <2>2
    <3>2. base[h] <= given'[h] BY <1>n, <3>1 DEF CountedOnce
    <3>3. \A s \in Sources : stored[s][h].count + base[h] <= given'[h] BY <1>n, <3>1 DEF CountedOnce
    <3>4. \A q \in HoldRuns : view'[q][h].count + base[h] <= given'[h]
      <4>1. view'[r][h].count + base[h] <= given'[h] BY <1>v, <2>1, <2>2
      <4>2. ASSUME NEW q \in HoldRuns \ {r} PROVE view'[q][h].count + base[h] <= given'[h]
        <5>1. view'[q][h].count = view[q][h].count /\ view[q][h].count + base[h] <= given[h]
          BY <2>1, <3>1 DEF CountedOnce
        <5> QED BY <1>n, <3>1, <5>1
      <4> QED BY <4>1, <4>2
    <3> QED BY <1>v, <3>2, <3>3, <3>4 DEF CountedOnce
  <2>3. \A q \in HoldRuns : WasRedirected(q)' BY <1>w, <1>v DEF WasRedirected, First
  <2> QED BY <1>0, <2>2, <2>3 DEF FairInv
\* The steps that leave all records alone.
<1>u. ASSUME UNCHANGED <<stored, view, base, given>>, \A r \in HoldRuns : WasRedirected(r)' PROVE FairInv'
  <2>1. \A h \in Hosts : RedirectsTo[h] = {} => CountedOnce(h)' BY <1>c, <1>u DEF CountedOnce
  <2> QED BY <1>0, <1>u, <2>1 DEF FairInv
\* What is learned behind a redirect is shared with a host that redirects only.
<1>a. ASSUME NEW r \in HoldRuns, NEW u \in [Hosts -> Record], NEW h \in Hosts, RedirectsTo[h] = {}
      PROVE  HoldAlso(u, r, host[r])[h] = u[h]
  <2>1. CASE h = First(r)
    <3>1. host[r] = First(r) BY <1>a, <1>w, <2>1 DEF WasRedirected
    <3> QED BY <1>t, <3>1, AlsoHeld
  <2>2. CASE h # First(r) BY <1>t, <2>2, AlsoHeld
  <2> QED BY <2>1, <2>2
<1>1. CASE HoldTick \/ UNCHANGED RateHoldsVars
  <2>1. UNCHANGED <<stored, view, base, given, host>> BY <1>1 DEF HoldTick, RateHoldsVars, rhWorld, rhRun
  <2>2. \A r \in HoldRuns : WasRedirected(r)' BY <1>w, <2>1 DEF WasRedirected, First
  <2> QED BY <1>u, <2>1, <2>2
<1>2. ASSUME NEW r \in HoldRuns, LoadHolds(r) PROVE FairInv'
  <2> DEFINE v == [h \in Hosts |-> Joined(Sources, h)]
  <2>1. view' = [view EXCEPT ![r] = v] /\ UNCHANGED <<stored, base, host, given>> BY <1>2 DEF LoadHolds
  <2>2. Sources # {} BY FirstTyped
  <2>3. ASSUME NEW h \in Hosts, RedirectsTo[h] = {} PROVE v[h].count + base[h] <= given[h]
    <3>1. PICK s \in Sources : Joined(Sources, h).count = stored[s][h].count BY <1>t, <2>2, JoinedRecord
    <3> QED BY <1>c, <2>3, <3>1 DEF CountedOnce
  <2> HIDE DEF v
  <2>g. \A h \in Hosts : RedirectsTo[h] = {} => /\ given[h] <= given'[h] /\ given'[h] \in Nat
                                              /\ v[h].count + base[h] <= given'[h]
    BY <1>n, <2>1, <2>3
  <2> QED BY <1>v, <2>1, <2>g
<1>3. ASSUME NEW r \in HoldRuns, Send(r) \/ RetryInRun(r) \/ OtherEnd(r) PROVE FairInv'
  <2>1. UNCHANGED <<stored, view, base, given, host>>
    BY <1>3 DEF Send, RetryInRun, OtherEnd, rhWorld, rhRun
  <2>2. \A q \in HoldRuns : WasRedirected(q)' BY <1>w, <2>1 DEF WasRedirected, First
  <2> QED BY <1>u, <2>1, <2>2
<1>4. ASSUME NEW r \in HoldRuns, NEW h \in Hosts, Redirected(r, h) PROVE FairInv'
  <2>1. /\ UNCHANGED <<stored, view, base, given>> /\ host' = [host EXCEPT ![r] = h]
        /\ h \in RedirectsTo[host[r]]
    BY <1>4 DEF Redirected, rhWorld
  <2>2. RedirectsTo[First(r)] # {} BY <1>w, <2>1 DEF WasRedirected
  <2>3. \A q \in HoldRuns : WasRedirected(q)' BY <1>t, <1>w, <2>1, <2>2 DEF WasRedirected, First
  <2> QED BY <1>u, <2>1, <2>3
<1>5. ASSUME NEW r \in HoldRuns, Refrain(r) PROVE FairInv'
  <2> DEFINE v == HoldAlso(view[r], r, host[r])
  <2>1. view' = [view EXCEPT ![r] = v] /\ UNCHANGED <<stored, base, host, given>>
    BY <1>5 DEF Refrain, rhWorld
  <2>2. ASSUME NEW h \in Hosts, RedirectsTo[h] = {} PROVE v[h].count + base[h] <= given[h]
    <3>1. v[h] = view[r][h] BY <1>a, <1>t, <2>2
    <3> QED BY <1>c, <2>2, <3>1 DEF CountedOnce
  <2> HIDE DEF v
  <2>g. \A h \in Hosts : RedirectsTo[h] = {} => /\ given[h] <= given'[h] /\ given'[h] \in Nat
                                              /\ v[h].count + base[h] <= given'[h]
    BY <1>n, <2>1, <2>2
  <2> QED BY <1>v, <2>1, <2>g
<1>6. ASSUME NEW r \in HoldRuns, NEW a \in LimitAnswers, Limited(r, a[1], a[2]) PROVE FairInv'
  <2> DEFINE e == NextHold(view[r][host[r]], a[1], a[2])
             u == [view[r] EXCEPT ![host[r]] = e]
             v == HoldAlso(u, r, host[r])
             one == IF a[1] = "retry_after_5xx" THEN 0 ELSE 1
  <2>1. e \in Record /\ e.count <= view[r][host[r]].count + one BY <1>n, <1>t, NextRecord
  <2>2. e.count \in Nat BY <2>1, RecordFields
  <2>3. view' = [view EXCEPT ![r] = v] /\ UNCHANGED <<stored, base, host>>
        /\ given' = [given EXCEPT ![host[r]] = @ + one]
    BY <1>6 DEF Limited, Learns, rhWorld
  <2>o. one \in {0, 1} OBVIOUS
  <2> HIDE DEF e, one
  <2>4. /\ u \in [Hosts -> Record]
        /\ \A h \in Hosts : u[h] = IF h = host[r] THEN e ELSE view[r][h]
    BY <1>t, <2>1
  <2> HIDE DEF u
  <2>5. \A h \in Hosts : given'[h] = IF h = host[r] THEN given[h] + one ELSE given[h] BY <1>t, <2>3
  <2>6. ASSUME NEW h \in Hosts, RedirectsTo[h] = {}
        PROVE  given[h] <= given'[h] /\ given'[h] \in Nat /\ v[h].count + base[h] <= given'[h]
    <3>1. v[h] = u[h] BY <1>a, <2>4, <2>6
    <3>2. view[r][h].count + base[h] <= given[h] BY <1>c, <2>6 DEF CountedOnce
    <3>3. given[h] <= given'[h] /\ given'[h] \in Nat BY <1>n, <2>5, <2>o
    <3>4. CASE h = host[r]
      <4>1. v[h].count = e.count /\ given'[h] = given[h] + one BY <2>4, <2>5, <3>1, <3>4
      <4>2. e.count <= view[r][h].count + one BY <2>1, <3>4
      <4> QED BY <1>n, <2>2, <2>o, <3>2, <3>3, <4>1, <4>2
    <3>5. CASE h # host[r] BY <2>4, <2>5, <3>1, <3>2, <3>3, <3>5
    <3> QED BY <3>4, <3>5
  <2> HIDE DEF v
  <2> QED BY <1>v, <2>3, <2>6
<1>7. ASSUME NEW r \in HoldRuns, Answered(r) PROVE FairInv'
  <2> DEFINE over == {h \in {host[r], EntryOf[SourceOf[r]]} : view[r][h] # NoHold /\ ~Active(view[r][h])}
             v == [h \in Hosts |-> IF h \in over THEN NoHold ELSE view[r][h]]
  <2>1. view' = [view EXCEPT ![r] = v] /\ UNCHANGED <<stored, base, host, given>>
    BY <1>7 DEF Answered, rhWorld
  <2>2. ASSUME NEW h \in Hosts, RedirectsTo[h] = {} PROVE v[h].count + base[h] <= given[h]
    <3> HIDE DEF over
    <3>1. CountedOnce(h) BY <1>c, <2>2
    <3>2. CASE h \in over BY <1>n, <3>1, <3>2, NoHoldRecord DEF CountedOnce
    <3>3. CASE h \notin over BY <3>1, <3>3 DEF CountedOnce
    <3> QED BY <3>2, <3>3
  <2> HIDE DEF v
  <2>g. \A h \in Hosts : RedirectsTo[h] = {} => /\ given[h] <= given'[h] /\ given'[h] \in Nat
                                              /\ v[h].count + base[h] <= given'[h]
    BY <1>n, <2>1, <2>2
  <2> QED BY <1>v, <2>1, <2>g
\* The steps that save: a row's record is as before, gone, or the run's own.
<1>s. ASSUME NEW r \in HoldRuns, NEW rows \in [Sources -> [Hosts -> Record]],
             RunEnds(r, rows) \/ Cleans(r, rows),
             \A s \in Sources, h \in Hosts :
                \/ rows[s][h].count = 0 \/ rows[s][h].count = stored[s][h].count
                \/ rows[s][h].count = view[r][h].count
      PROVE  FairInv'
  <2>1. CASE RunEnds(r, rows) BY <1>0, <1>s, <2>1, EndedFair
  <2>2. CASE Cleans(r, rows)
    <3>1. stored' = rows /\ UNCHANGED <<view, base, given, host>> BY <2>2 DEF Cleans
    <3>2. ASSUME NEW h \in Hosts, RedirectsTo[h] = {} PROVE CountedOnce(h)'
      <4>1. CountedOnce(h) BY <1>c, <3>2
      <4>2. ASSUME NEW s \in Sources PROVE rows[s][h].count + base[h] <= given[h]
        <5>1. /\ 0 + base[h] <= given[h] /\ stored[s][h].count + base[h] <= given[h]
              /\ view[r][h].count + base[h] <= given[h]
          BY <1>n, <4>1 DEF CountedOnce
        <5> QED BY <1>s, <5>1
      <4> QED BY <3>1, <4>1, <4>2 DEF CountedOnce
    <3>3. \A q \in HoldRuns : WasRedirected(q)' BY <1>w, <3>1 DEF WasRedirected, First
    <3> QED BY <1>0, <3>2, <3>3 DEF FairInv
  <2> QED BY <1>s, <2>1, <2>2
<1>8. ASSUME NEW r \in HoldRuns, SaveHolds(r) PROVE FairInv'
  <2> DEFINE s == SourceOf[r]
             row == SavedRow(r, s)
             rows == [stored EXCEPT ![s] = row]
  <2>1. s \in Sources BY FirstTyped
  <2>2. /\ row \in [Hosts -> Record]
        /\ \A h \in Hosts : \/ row[h].count = 0 \/ row[h].count = stored[s][h].count
                            \/ row[h].count = view[r][h].count
    BY <1>t, <2>1, SavedRecord
  <2>3. RunEnds(r, rows) \/ Cleans(r, rows) BY <1>8 DEF SaveHolds
  <2> HIDE DEF row, s
  <2>4. rows \in [Sources -> [Hosts -> Record]] BY <1>t, <2>1, <2>2
  <2>5. \A q \in Sources : rows[q] = IF q = s THEN row ELSE stored[q] BY <1>t, <2>1
  <2> HIDE DEF rows
  <2>6. \A q \in Sources, h \in Hosts :
           \/ rows[q][h].count = 0 \/ rows[q][h].count = stored[q][h].count
           \/ rows[q][h].count = view[r][h].count
    BY <2>2, <2>5
  <2> QED BY <1>s, <2>3, <2>4, <2>6
<1>9. ASSUME NEW r \in HoldRuns, NEW h \in Hosts, ReadCopies(r, h) PROVE FairInv'
  <2>1. RunEnds(r, stored) \/ Cleans(r, stored) BY <1>9 DEF ReadCopies
  <2> QED BY <1>s, <1>t, <2>1
<1>10. ASSUME NEW r \in HoldRuns, NEW c \in copies[r], DropCopy(r, c) PROVE FairInv'
  <2> DEFINE rows == [stored EXCEPT ![c.at[1]][c.at[2]] = IF @ = c.was THEN NoHold ELSE @]
  <2>1. c.at[1] \in Sources /\ c.at[2] \in Hosts BY <1>t
  <2>2. rows \in [Sources -> [Hosts -> Record]] BY <1>t, <2>1, NoHoldRecord
  <2>3. \A s \in Sources, h \in Hosts : rows[s][h] = stored[s][h] \/ rows[s][h] = NoHold BY <1>t, <2>1
  <2>4. RunEnds(r, rows) \/ Cleans(r, rows) BY <1>10 DEF DropCopy
  <2> HIDE DEF rows
  <2>5. \A s \in Sources, h \in Hosts :
           \/ rows[s][h].count = 0 \/ rows[s][h].count = stored[s][h].count
           \/ rows[s][h].count = view[r][h].count
    BY <2>3, NoHoldRecord
  <2> QED BY <1>s, <2>2, <2>4, <2>5
<1> QED
  BY <1>1, <1>2, <1>3, <1>4, <1>5, <1>6, <1>7, <1>8, <1>9, <1>10 DEF RateHoldsNext

\* A run takes a limit for a refusal only after as many limits of the host as
\* the threshold says, since its last undisputed success: no limit is counted
\* twice because two rows have it, and no streak comes back from a stale copy.
THEOREM RefusalsAreFair == RateHoldsSpec => RefusedFairly
<1>1. FairInv /\ [RateHoldsNext]_RateHoldsVars
        => [\A r \in HoldRuns, a \in LimitAnswers :
              LET e == NextHold(view[r][host[r]], a[1], a[2])
              IN  Limited(r, a[1], a[2]) /\ RedirectsTo[host[r]] = {} /\ Escalates(e, a[1])
                     => given'[host[r]] - base[host[r]] >=
                            Smaller(EscalateAny, Smaller(EscalateWeak, EscalateStrong))]_RateHoldsVars
  <2>1. ASSUME FairInv, NEW r \in HoldRuns, NEW a \in LimitAnswers, Limited(r, a[1], a[2]),
               RedirectsTo[host[r]] = {}, Escalates(NextHold(view[r][host[r]], a[1], a[2]), a[1])
        PROVE  given'[host[r]] - base[host[r]] >= Smaller(EscalateAny, Smaller(EscalateWeak, EscalateStrong))
    <3> DEFINE e == NextHold(view[r][host[r]], a[1], a[2])
    <3>0. HoldsTyped BY <2>1 DEF FairInv, IdleInv
    <3>1. host[r] \in Hosts /\ tick \in Ticks BY <3>0 DEF HoldsTyped, RateHoldsTypeOK
    <3>2. /\ base[host[r]] \in Nat /\ given[host[r]] \in Nat
          /\ view[r][host[r]] \in Record /\ view[r][host[r]].count \in Nat
      BY <3>0, <3>1, CountNumbers
    <3>3. view[r][host[r]].count + base[host[r]] <= given[host[r]] BY <2>1, <3>1 DEF FairInv, CountedOnce
    <3>4. a[1] # "retry_after_5xx" BY <2>1 DEF Escalates
    <3>5. e \in Record /\ e.count <= view[r][host[r]].count + 1 BY <3>1, <3>2, <3>4, NextRecord
    <3>6. given'[host[r]] = given[host[r]] + 1
      BY <2>1, <3>0, <3>1, <3>4 DEF Limited, HoldsTyped, RateHoldsTypeOK
    <3>7. e.weak >= EscalateWeak \/ e.strong >= EscalateStrong \/ e.count >= EscalateAny
      BY <2>1 DEF Escalates
    <3> HIDE DEF e
    <3>8. e.count \in Nat /\ e.weak \in 0 .. e.count /\ e.strong \in 0 .. e.count BY <3>5, RecordFields
    <3>9. e.count >= Smaller(EscalateAny, Smaller(EscalateWeak, EscalateStrong))
      BY <3>7, <3>8, HoldsAssumption DEF Smaller
    <3>10. Smaller(EscalateAny, Smaller(EscalateWeak, EscalateStrong)) \in Nat
      BY HoldsAssumption DEF Smaller
    <3> QED BY <3>2, <3>3, <3>5, <3>6, <3>8, <3>9, <3>10
  <2> QED BY <2>1
<1> QED BY <1>1, FairInvInit, FairInvStep, PTL DEF RateHoldsSpec, RefusedFairly

-----------------------------------------------------------------------------
(* PoliteRequest.                                                           *)

\* What the proofs need of the types.
PoliteTypes ==
    /\ tenth \in Nat
    /\ DOMAIN robots \subseteq Origins /\ \A o \in DOMAIN robots : robots[o] \in Said
    /\ prAt \in [Fetchers -> {"idle", "hop", "robots", "fetching", "page", "asked"}]
    /\ target \in [Fetchers -> Origins]
    /\ saidNo \in [Fetchers -> BOOLEAN] /\ permitted \in [Fetchers -> BOOLEAN]
    /\ lastSaid \in [Origins -> Said]

\* A request that was told no is over.
NoIsFinal == \A f \in Fetchers : saidNo[f] => prAt[f] = "idle"

\* What carries credentials stays where it began.
CredentialsStay == \A f \in Credentialed : target[f] = FirstOrigin[f]

\* What is cached of an origin is its last word.
CacheIsLast == \A o \in DOMAIN robots : robots[o] = lastSaid[o]

\* Past the checks, the origin is one of the route's and permits.
OriginsChecked ==
    \A f \in Fetchers :
        /\ prAt[f] \in {"robots", "fetching", "page", "asked"} => target[f] \in AllowedOrigins[f]
        /\ prAt[f] \in {"page", "asked"} => permitted[f]

PoliteInv == PoliteTypes /\ NoIsFinal /\ CredentialsStay /\ CacheIsLast /\ OriginsChecked

---------------------------------------------------------------------------
(* Answers.                                                                *)

\* A robots.txt that says no is never read as rules, nor followed.
LEMMA RobotsNoEnds ==
    ASSUME NEW r \in Responses, RobotsSaysNo(r) PROVE RobotsMeans(r) \in {"refused", "limited"}
BY ResponsesAssumption DEF RobotsSaysNo, RobotsMeans, SignalsLimit, Challenge, Response

\* A page's answer that says no is neither asked again nor followed.
LEMMA PageNoEnds ==
    ASSUME NEW r \in Responses, PageSaysNo(r) PROVE ~MayPass(r) /\ PageMeans(r) # "redirect"
<1>1. r \in Response /\ (r.status \in {"304", "error", "dns"} => r.wall = "no") BY ResponsesAssumption
<1>2. ~MayPass(r) BY <1>1 DEF PageSaysNo, MayPass, Challenge
<1>3. PageMeans(r) # "redirect" BY <1>1 DEF PageSaysNo, PageMeans, SignalsLimit, Challenge
<1> QED BY <1>2, <1>3

\* A verdict that is still fresh and permits is a last word that still permits.
LEMMA FreshPermits ==
    ASSUME PoliteTypes, CacheIsLast, NEW o \in Origins, Fresh(o), robots[o].verdict \in Permitting
    PROVE  StillPermits(o)
<1>1. /\ o \in DOMAIN robots /\ robots[o] = lastSaid[o] /\ robots[o] \in Said
      /\ tenth - robots[o].at < LifeOf(robots[o].verdict)
  BY DEF Fresh, CacheIsLast, PoliteTypes
<1>2. robots[o].at \in Nat /\ tenth \in Nat /\ RobotsLife \in Nat
  BY <1>1, PoliteAssumption DEF Said, PoliteTypes
<1> QED BY <1>1, <1>2 DEF StillPermits, LifeOf, Permitting, SoftLife

---------------------------------------------------------------------------

LEMMA PoliteInvInit == PoliteInit => PoliteInv
<1>1. ASSUME PoliteInit PROVE PoliteInv
  <2>1. lastSaid \in [Origins -> Said] BY <1>1 DEF PoliteInit, Said, Nothing, Verdicts
  <2>2. DOMAIN robots = {} BY <1>1 DEF PoliteInit
  <2>3. PoliteTypes BY <1>1, <2>1, <2>2, PoliteAssumption DEF PoliteInit, PoliteTypes
  <2>4. NoIsFinal /\ CredentialsStay /\ CacheIsLast /\ OriginsChecked
    BY <1>1, <2>2 DEF PoliteInit, NoIsFinal, CredentialsStay, CacheIsLast, OriginsChecked
  <2> QED BY <2>3, <2>4 DEF PoliteInv
<1> QED BY <1>1

\* A request that ends is idle, at its first origin.
LEMMA EndsKeeps ==
    ASSUME PoliteInv, NEW f \in Fetchers, Ends(f), UNCHANGED tenth, PoliteTypes', CacheIsLast',
           \A g \in Fetchers : g # f => saidNo'[g] = saidNo[g]
    PROVE  PoliteInv'
<1>1. /\ prAt' = [prAt EXCEPT ![f] = "idle"] /\ target' = [target EXCEPT ![f] = FirstOrigin[f]]
      /\ permitted' = [permitted EXCEPT ![f] = FALSE]
  BY DEF Ends, PrGoes
<1>2. /\ prAt'[f] = "idle" /\ target'[f] = FirstOrigin[f]
      /\ \A g \in Fetchers : g # f => prAt'[g] = prAt[g] /\ target'[g] = target[g] /\ permitted'[g] = permitted[g]
  BY <1>1 DEF PoliteInv, PoliteTypes
<1>3. NoIsFinal' BY <1>2 DEF PoliteInv, NoIsFinal
<1>4. CredentialsStay' BY <1>2, PoliteAssumption DEF PoliteInv, CredentialsStay
<1>5. OriginsChecked' BY <1>2 DEF PoliteInv, OriginsChecked
<1> QED BY <1>3, <1>4, <1>5 DEF PoliteInv

\* The same, when the cache and the last words are left alone.
LEMMA EndsPlainly ==
    ASSUME PoliteInv, NEW f \in Fetchers, Ends(f), UNCHANGED <<tenth, robots, lastSaid>>,
           saidNo' \in [Fetchers -> BOOLEAN], \A g \in Fetchers : g # f => saidNo'[g] = saidNo[g]
    PROVE  PoliteInv'
<1>1. /\ prAt' = [prAt EXCEPT ![f] = "idle"] /\ target' = [target EXCEPT ![f] = FirstOrigin[f]]
      /\ permitted' = [permitted EXCEPT ![f] = FALSE]
  BY DEF Ends, PrGoes
<1>2. PoliteTypes' BY <1>1, PoliteAssumption DEF PoliteInv, PoliteTypes
<1>3. CacheIsLast' BY DEF PoliteInv, CacheIsLast
<1> QED BY <1>2, <1>3, EndsKeeps

\* A verdict is kept and heeded, by a request that was not told no.
LEMMA ReadsKeeps ==
    ASSUME PoliteInv, NEW f \in Fetchers, prAt[f] = "fetching", NEW v \in Verdicts, Reads(f, v),
           UNCHANGED <<tenth, saidNo>>
    PROVE  PoliteInv'
<1> DEFINE said == [verdict |-> v, at |-> tenth]
<1>t. PoliteTypes BY DEF PoliteInv
<1>1. said \in Said BY <1>t DEF Said, PoliteTypes
<1>2. /\ robots' = [o \in DOMAIN robots \cup {target[f]} |-> IF o = target[f] THEN said ELSE robots[o]]
      /\ lastSaid' = [lastSaid EXCEPT ![target[f]] = said]
  BY DEF Reads
<1> HIDE DEF said
<1>3. /\ DOMAIN robots' \subseteq Origins /\ \A o \in DOMAIN robots' : robots'[o] \in Said
      /\ lastSaid' \in [Origins -> Said]
  BY <1>1, <1>2, <1>t DEF PoliteTypes
<1>4. CacheIsLast' BY <1>2, <1>t DEF PoliteInv, CacheIsLast, PoliteTypes
<1>5. CASE v \in Permitting
  <2>1. /\ prAt' = [prAt EXCEPT ![f] = "page"] /\ permitted' = [permitted EXCEPT ![f] = TRUE]
        /\ UNCHANGED target
    BY <1>5 DEF Reads, PrGoes
  <2>2. PoliteTypes' BY <1>3, <1>t, <2>1 DEF PoliteTypes
  <2>3. /\ prAt'[f] = "page" /\ permitted'[f]
        /\ \A g \in Fetchers : g # f => prAt'[g] = prAt[g] /\ permitted'[g] = permitted[g]
    BY <1>t, <2>1 DEF PoliteTypes
  <2>4. ~saidNo[f] BY DEF PoliteInv, NoIsFinal
  <2>5. NoIsFinal' BY <2>3, <2>4 DEF PoliteInv, NoIsFinal
  <2>6. CredentialsStay' BY <2>1 DEF PoliteInv, CredentialsStay
  <2>7. OriginsChecked' BY <2>1, <2>3 DEF PoliteInv, OriginsChecked
  <2> QED BY <1>4, <2>2, <2>5, <2>6, <2>7 DEF PoliteInv
<1>6. CASE v \notin Permitting
  <2>1. Ends(f) BY <1>6 DEF Reads
  <2>2. /\ prAt' = [prAt EXCEPT ![f] = "idle"] /\ target' = [target EXCEPT ![f] = FirstOrigin[f]]
        /\ permitted' = [permitted EXCEPT ![f] = FALSE]
    BY <2>1 DEF Ends, PrGoes
  <2>3. PoliteTypes' BY <1>3, <1>t, <2>2, PoliteAssumption DEF PoliteTypes
  <2> QED BY <1>4, <2>1, <2>3, EndsKeeps
<1> QED BY <1>5, <1>6

\* A step of a request that was not told no, which stays at its origin.
LEMMA MovesOn ==
    ASSUME PoliteInv, NEW f \in Fetchers, prAt[f] # "idle",
           NEW step \in {"hop", "robots", "fetching", "page", "asked"},
           prAt' = [prAt EXCEPT ![f] = step], UNCHANGED <<tenth, robots, saidNo, target, lastSaid>>,
           permitted' \in [Fetchers -> BOOLEAN],
           \A g \in Fetchers : g # f => permitted'[g] = permitted[g],
           step # "hop" => target[f] \in AllowedOrigins[f],
           step \in {"page", "asked"} => permitted'[f]
    PROVE  PoliteInv'
<1>1. PoliteTypes' BY DEF PoliteInv, PoliteTypes
<1>2. prAt'[f] = step /\ \A g \in Fetchers : g # f => prAt'[g] = prAt[g] BY DEF PoliteInv, PoliteTypes
<1>3. NoIsFinal' BY <1>2 DEF PoliteInv, NoIsFinal
<1>4. CredentialsStay' /\ CacheIsLast' BY DEF PoliteInv, CredentialsStay, CacheIsLast
<1>5. OriginsChecked' BY <1>2 DEF PoliteInv, OriginsChecked
<1> QED BY <1>1, <1>3, <1>4, <1>5 DEF PoliteInv

LEMMA PoliteInvStep == PoliteInv /\ [PoliteNext]_PoliteVars => PoliteInv'
<1> SUFFICES ASSUME PoliteInv, [PoliteNext]_PoliteVars PROVE PoliteInv'
    OBVIOUS
<1>t. PoliteTypes BY DEF PoliteInv
<1>n. \A f \in Fetchers : prAt[f] # "idle" => ~saidNo[f] BY DEF PoliteInv, NoIsFinal
<1>c. \A f \in Fetchers :
        /\ prAt[f] \in {"robots", "fetching", "page", "asked"} => target[f] \in AllowedOrigins[f]
        /\ prAt[f] \in {"page", "asked"} => permitted[f]
  BY DEF PoliteInv, OriginsChecked
<1>1. CASE TenMinutes \/ UNCHANGED PoliteVars
  <2>1. UNCHANGED <<robots, prAt, target, saidNo, permitted, lastSaid>> /\ tenth' \in Nat
    BY <1>1, <1>t DEF TenMinutes, PoliteVars, prRequest, prHistory, PoliteTypes
  <2> QED BY <2>1 DEF PoliteInv, PoliteTypes, NoIsFinal, CredentialsStay, CacheIsLast, OriginsChecked
<1>2. ASSUME NEW f \in Fetchers, NEW H, StartRequest(f, H) PROVE PoliteInv'
  <2>1. /\ prAt' = [prAt EXCEPT ![f] = "hop"] /\ saidNo' = [saidNo EXCEPT ![f] = FALSE]
        /\ UNCHANGED <<tenth, robots, target, permitted, lastSaid>>
    BY <1>2 DEF StartRequest, PrGoes
  <2> QED BY <1>t, <2>1 DEF PoliteInv, PoliteTypes, NoIsFinal, CredentialsStay, CacheIsLast, OriginsChecked
<1>3. ASSUME NEW f \in Fetchers, CheckHop(f) PROVE PoliteInv'
  <2>0. prAt[f] = "hop" /\ UNCHANGED <<tenth, robots, saidNo, lastSaid>> BY <1>3 DEF CheckHop
  <2>1. CASE Ends(f) BY <1>t, <2>0, <2>1, EndsPlainly DEF PoliteTypes
  <2>2. CASE /\ ~HopRefused(f) /\ Fresh(target[f]) /\ robots[target[f]].verdict \in Permitting
             /\ PrGoes(f, "page") /\ permitted' = [permitted EXCEPT ![f] = StillPermits(target[f])]
             /\ UNCHANGED prRequest
    <3>1. target[f] \in Origins /\ target[f] \in AllowedOrigins[f]
      BY <1>t, <2>2 DEF HopRefused, PoliteTypes
    <3>2. StillPermits(target[f]) BY <2>2, <3>1, FreshPermits DEF PoliteInv
    <3>3. permitted' = [permitted EXCEPT ![f] = TRUE] BY <2>2, <3>2
    <3>4. /\ permitted' \in [Fetchers -> BOOLEAN] /\ permitted'[f]
          /\ \A g \in Fetchers : g # f => permitted'[g] = permitted[g]
      BY <1>t, <3>3 DEF PoliteTypes
    <3>5. prAt' = [prAt EXCEPT ![f] = "page"] /\ UNCHANGED target BY <2>2 DEF PrGoes, prRequest
    <3> QED BY <2>0, <3>1, <3>4, <3>5, MovesOn
  <2>3. CASE /\ ~HopRefused(f) /\ PrGoes(f, "robots") /\ UNCHANGED <<target, permitted>>
    <3>1. target[f] \in AllowedOrigins[f] BY <2>3 DEF HopRefused
    <3> QED BY <1>t, <2>0, <2>3, <3>1, MovesOn DEF PrGoes, PoliteTypes
  <2> QED BY <1>3, <2>1, <2>2, <2>3 DEF CheckHop
<1>4. ASSUME NEW f \in Fetchers, SendRobots(f) PROVE PoliteInv'
  BY <1>4, <1>t, <1>c, MovesOn DEF SendRobots, PrGoes, prRequest, prHistory, PoliteTypes
<1>5. ASSUME NEW f \in Fetchers, RobotsHeld(f) \/ Deadline(f) PROVE PoliteInv'
  BY <1>5, <1>t, EndsPlainly DEF RobotsHeld, Deadline, PoliteTypes
<1>6. ASSUME NEW f \in Fetchers, SendPage(f) PROVE PoliteInv'
  BY <1>6, <1>t, <1>c, MovesOn DEF SendPage, PrGoes, prRequest, prHistory, PoliteTypes
<1>7. ASSUME NEW f \in Fetchers, NEW r \in Responses, RobotsAnswered(f, r) PROVE PoliteInv'
  <2>1. /\ prAt[f] = "fetching" /\ UNCHANGED tenth
        /\ saidNo' = [saidNo EXCEPT ![f] = @ \/ RobotsSaysNo(r)]
    BY <1>7 DEF RobotsAnswered
  <2>2. CASE Ends(f) /\ UNCHANGED <<robots, lastSaid>> BY <1>t, <2>1, <2>2, EndsPlainly DEF PoliteTypes
  <2>3. CASE \E v \in Verdicts : RobotsMeans(r) \notin {"refused", "limited"} /\ Reads(f, v)
    <3>1. ~RobotsSaysNo(r) BY <2>3, RobotsNoEnds
    <3>2. UNCHANGED saidNo BY <1>t, <1>n, <2>1, <3>1 DEF PoliteTypes
    <3>3. PICK v \in Verdicts : Reads(f, v) BY <2>3
    <3> QED BY <2>1, <3>2, <3>3, ReadsKeeps
  <2> QED BY <1>7, <2>2, <2>3 DEF RobotsAnswered, Verdicts
<1>8. ASSUME NEW f \in Fetchers, NEW r \in Responses, NEW o \in Origins, RobotsRedirected(f, r, o)
      PROVE PoliteInv'
  <2>1. /\ prAt[f] = "fetching" /\ RobotsMeans(r) = "redirect" /\ UNCHANGED tenth
        /\ saidNo' = [saidNo EXCEPT ![f] = @ \/ RobotsSaysNo(r)]
    BY <1>8 DEF RobotsRedirected
  <2>2. ~RobotsSaysNo(r) BY <2>1, RobotsNoEnds
  <2>3. UNCHANGED saidNo BY <1>t, <1>n, <2>1, <2>2 DEF PoliteTypes
  <2>4. CASE PrGoes(f, "robots") /\ UNCHANGED <<robots, target, permitted, lastSaid>>
    BY <1>t, <1>c, <2>1, <2>3, <2>4, MovesOn DEF PrGoes, PoliteTypes
  <2>5. CASE Reads(f, "unreachable") BY <2>1, <2>3, <2>5, ReadsKeeps DEF Verdicts
  <2> QED BY <1>8, <2>4, <2>5 DEF RobotsRedirected
<1>9. ASSUME NEW f \in Fetchers, NEW r \in Responses, AskAgain(f, r) PROVE PoliteInv'
  <2>1. /\ prAt[f] = "asked" /\ MayPass(r) /\ prAt' = [prAt EXCEPT ![f] = "page"]
        /\ saidNo' = [saidNo EXCEPT ![f] = @ \/ PageSaysNo(r)]
        /\ UNCHANGED <<tenth, robots, target, permitted, lastSaid>>
    BY <1>9 DEF AskAgain, PrGoes
  <2>2. UNCHANGED saidNo BY <1>t, <1>n, <2>1, PageNoEnds DEF PoliteTypes
  <2> QED BY <1>t, <1>c, <2>1, <2>2, MovesOn DEF PoliteTypes
<1>10. ASSUME NEW f \in Fetchers, NEW r \in Responses, PageAnswered(f, r) PROVE PoliteInv'
  BY <1>10, <1>t, EndsPlainly DEF PageAnswered, PoliteTypes
<1>11. ASSUME NEW f \in Fetchers, NEW r \in Responses, NEW o \in Origins, Redirects(f, r, o)
      PROVE PoliteInv'
  <2>1. /\ prAt[f] = "asked" /\ PageMeans(r) = "redirect" /\ UNCHANGED <<tenth, robots, lastSaid>>
        /\ saidNo' = [saidNo EXCEPT ![f] = @ \/ PageSaysNo(r)]
    BY <1>11 DEF Redirects
  <2>2. UNCHANGED saidNo BY <1>t, <1>n, <2>1, PageNoEnds DEF PoliteTypes
  <2>3. CASE Ends(f) BY <1>t, <2>1, <2>2, <2>3, EndsPlainly DEF PoliteTypes
  <2>4. CASE /\ o = target[f] \/ f \notin Credentialed
             /\ PrGoes(f, "hop") /\ target' = [target EXCEPT ![f] = o] /\ UNCHANGED permitted
    <3>1. PoliteTypes' BY <1>t, <2>1, <2>2, <2>4 DEF PoliteTypes, PrGoes
    <3>2. prAt'[f] = "hop" /\ \A g \in Fetchers : g # f => prAt'[g] = prAt[g] /\ target'[g] = target[g]
      BY <1>t, <2>4 DEF PrGoes, PoliteTypes
    <3>3. CredentialsStay' BY <1>t, <2>4, PoliteAssumption DEF PoliteInv, CredentialsStay, PoliteTypes
    <3>4. NoIsFinal' /\ CacheIsLast' /\ OriginsChecked'
      BY <1>n, <2>1, <2>2, <2>4, <3>2 DEF PoliteInv, NoIsFinal, CacheIsLast, OriginsChecked
    <3> QED BY <3>1, <3>3, <3>4 DEF PoliteInv
  <2> QED BY <1>11, <2>3, <2>4 DEF Redirects
<1> QED BY <1>1, <1>2, <1>3, <1>4, <1>5, <1>6, <1>7, <1>8, <1>9, <1>10, <1>11 DEF PoliteNext

\* Once the source has said no, nothing more is sent for the request, and
\* credentials go to no other origin.
THEOREM AlwaysPolite == PoliteSpec => PoliteCalls
<1>1. PoliteInv /\ [PoliteNext]_PoliteVars =>
        [\A f \in Fetchers :
            /\ SendPage(f) \/ SendRobots(f) => ~saidNo[f]
            /\ SendPage(f) /\ f \in Credentialed => target[f] = FirstOrigin[f]]_PoliteVars
  BY DEF PoliteInv, NoIsFinal, CredentialsStay, SendPage, SendRobots
<1> QED BY <1>1, PoliteInvInit, PoliteInvStep, PTL DEF PoliteSpec, PoliteCalls

\* A page is asked only of an origin of the route whose robots.txt permits it
\* by its last word, still good when it was checked.
THEOREM RobotsAlwaysObeyed == PoliteSpec => RobotsObeyed
<1>1. PoliteInv /\ [PoliteNext]_PoliteVars =>
        [\A f \in Fetchers : SendPage(f) => permitted[f] /\ target[f] \in AllowedOrigins[f]]_PoliteVars
  BY DEF PoliteInv, OriginsChecked, SendPage
<1> QED BY <1>1, PoliteInvInit, PoliteInvStep, PTL DEF PoliteSpec, RobotsObeyed
---------------------------------------------------------------------------
(* The types. A hop is counted before it is checked against MaxRedirects.  *)

\* What PoliteTypes leaves out: the counters and the holds of the requests.
PoliteCounts ==
    /\ tenth \in 0 .. LastTenth /\ asks \in 0 .. LastRequest
    /\ robotsAt \in [Fetchers -> Origins]
    /\ hops \in [Fetchers -> 0 .. MaxRedirects + 1] /\ attempts \in [Fetchers -> 0 .. MaxRetries]
    /\ robotsHop \in [Fetchers -> 0 .. RobotsHops]
    /\ holding \in [Fetchers -> SUBSET Origins]

\* A request that passed the checks of its hop is within the redirects it may follow.
HopsChecked ==
    \A f \in Fetchers : prAt[f] \in {"robots", "fetching", "page", "asked"} => hops[f] <= MaxRedirects

LEMMA PoliteCountsInit == PoliteInit => PoliteCounts /\ HopsChecked
BY PoliteAssumption DEF PoliteInit, PoliteCounts, HopsChecked

\* A request that ends starts again from nothing.
LEMMA EndsCounts ==
    ASSUME PoliteTypes, PoliteCounts, HopsChecked, NEW f \in Fetchers, Ends(f), UNCHANGED <<tenth, asks>>
    PROVE  PoliteCounts' /\ HopsChecked'
<1>1. /\ prAt' = [prAt EXCEPT ![f] = "idle"] /\ robotsAt' = [robotsAt EXCEPT ![f] = FirstOrigin[f]]
      /\ hops' = [hops EXCEPT ![f] = 0] /\ attempts' = [attempts EXCEPT ![f] = 0]
      /\ robotsHop' = [robotsHop EXCEPT ![f] = 0] /\ holding' = [holding EXCEPT ![f] = {}]
  BY DEF Ends, PrGoes
<1>0. /\ FirstOrigin[f] \in Origins /\ {} \in SUBSET Origins
      /\ 0 \in 0 .. MaxRedirects + 1 /\ 0 \in 0 .. MaxRetries /\ 0 \in 0 .. RobotsHops
  BY PoliteAssumption
<1>2. PoliteCounts'
  <2>1. tenth' \in 0 .. LastTenth /\ asks' \in 0 .. LastRequest BY DEF PoliteCounts
  <2>2. robotsAt' \in [Fetchers -> Origins] /\ holding' \in [Fetchers -> SUBSET Origins]
    BY <1>0, <1>1 DEF PoliteCounts
  <2>3. /\ hops' \in [Fetchers -> 0 .. MaxRedirects + 1] /\ attempts' \in [Fetchers -> 0 .. MaxRetries]
        /\ robotsHop' \in [Fetchers -> 0 .. RobotsHops]
    BY <1>0, <1>1 DEF PoliteCounts
  <2> QED BY <2>1, <2>2, <2>3 DEF PoliteCounts
<1>3. /\ prAt'[f] = "idle"
      /\ \A g \in Fetchers : g # f => prAt'[g] = prAt[g] /\ hops'[g] = hops[g]
  BY <1>1 DEF PoliteTypes, PoliteCounts
<1>4. HopsChecked' BY <1>3 DEF HopsChecked
<1> QED BY <1>2, <1>4

\* A verdict sends the request on to its page, or ends it.
LEMMA ReadsCounts ==
    ASSUME PoliteTypes, PoliteCounts, HopsChecked, NEW f \in Fetchers, prAt[f] = "fetching", NEW v, Reads(f, v),
           UNCHANGED <<tenth, asks>>
    PROVE  PoliteCounts' /\ HopsChecked'
<1>1. CASE Ends(f) BY <1>1, EndsCounts
<1>2. CASE /\ PrGoes(f, "page") /\ robotsAt' = [robotsAt EXCEPT ![f] = target[f]]
           /\ robotsHop' = [robotsHop EXCEPT ![f] = 0] /\ UNCHANGED <<hops, attempts, holding>>
  <2>1. PoliteCounts' BY <1>2, PoliteAssumption DEF PoliteCounts, PoliteTypes
  <2>2. HopsChecked' BY <1>2 DEF HopsChecked, PoliteTypes, PrGoes
  <2> QED BY <2>1, <2>2
<1> QED BY <1>1, <1>2 DEF Reads

LEMMA PoliteCountsStep ==
    PoliteTypes /\ PoliteCounts /\ HopsChecked /\ [PoliteNext]_PoliteVars => PoliteCounts' /\ HopsChecked'
<1> SUFFICES ASSUME PoliteTypes, PoliteCounts, HopsChecked, [PoliteNext]_PoliteVars
             PROVE  PoliteCounts' /\ HopsChecked'
    OBVIOUS
<1>1. CASE TenMinutes \/ UNCHANGED PoliteVars
  BY <1>1, PoliteAssumption DEF TenMinutes, PoliteVars, prRequest, prHistory, PoliteCounts, HopsChecked
<1>2. ASSUME NEW f \in Fetchers, NEW H \in HeldOrigins, StartRequest(f, H) PROVE PoliteCounts' /\ HopsChecked'
  <2>1. /\ asks < LastRequest /\ prAt' = [prAt EXCEPT ![f] = "hop"] /\ asks' = asks + 1
        /\ holding' = [holding EXCEPT ![f] = H] /\ UNCHANGED <<tenth, robotsAt, hops, attempts, robotsHop>>
    BY <1>2 DEF StartRequest, PrGoes
  <2>2. PoliteCounts' BY <2>1, PoliteAssumption DEF PoliteCounts
  <2>3. HopsChecked' BY <2>1 DEF HopsChecked, PoliteTypes
  <2> QED BY <2>2, <2>3
<1>3. ASSUME NEW f \in Fetchers, CheckHop(f) PROVE PoliteCounts' /\ HopsChecked'
  <2>1. CASE Ends(f) BY <1>3, <2>1, EndsCounts DEF CheckHop
  <2>2. CASE /\ ~HopRefused(f) /\ (PrGoes(f, "page") \/ PrGoes(f, "robots"))
             /\ robotsAt' = robotsAt \/ robotsAt' = [robotsAt EXCEPT ![f] = target[f]]
             /\ UNCHANGED <<hops, attempts, robotsHop, holding>>
    <3>1. hops[f] <= MaxRedirects BY <2>2, PoliteAssumption DEF HopRefused, PoliteCounts
    <3>2. PoliteCounts' BY <1>3, <2>2, PoliteAssumption DEF CheckHop, PoliteCounts, PoliteTypes
    <3>3. HopsChecked' BY <2>2, <3>1 DEF HopsChecked, PoliteTypes, PrGoes
    <3> QED BY <3>2, <3>3
  <2> QED BY <1>3, <2>1, <2>2 DEF CheckHop, prRequest
<1>4. ASSUME NEW f \in Fetchers, SendRobots(f) \/ SendPage(f) PROVE PoliteCounts' /\ HopsChecked'
  BY <1>4 DEF SendRobots, SendPage, PrGoes, prRequest, PoliteCounts, HopsChecked, PoliteTypes
<1>5. ASSUME NEW f \in Fetchers, RobotsHeld(f) \/ Deadline(f) PROVE PoliteCounts' /\ HopsChecked'
  BY <1>5, EndsCounts DEF RobotsHeld, Deadline
<1>6. ASSUME NEW f \in Fetchers, NEW r \in Responses, RobotsAnswered(f, r) PROVE PoliteCounts' /\ HopsChecked'
  <2>1. prAt[f] = "fetching" /\ UNCHANGED <<tenth, asks>> BY <1>6 DEF RobotsAnswered
  <2>2. CASE Ends(f) BY <2>1, <2>2, EndsCounts
  <2>3. CASE \E v : Reads(f, v) BY <2>1, <2>3, ReadsCounts
  <2> QED BY <1>6, <2>2, <2>3 DEF RobotsAnswered
<1>7. ASSUME NEW f \in Fetchers, NEW r \in Responses, NEW o \in Origins, RobotsRedirected(f, r, o)
      PROVE PoliteCounts' /\ HopsChecked'
  <2>1. prAt[f] = "fetching" /\ UNCHANGED <<tenth, asks>> BY <1>7 DEF RobotsRedirected
  <2>2. CASE Reads(f, "unreachable") BY <2>1, <2>2, ReadsCounts
  <2>3. CASE /\ robotsHop[f] + 1 < RobotsHops /\ PrGoes(f, "robots")
             /\ robotsAt' = [robotsAt EXCEPT ![f] = o] /\ robotsHop' = [robotsHop EXCEPT ![f] = @ + 1]
             /\ UNCHANGED <<hops, attempts, holding>>
    <3>1. robotsHop[f] + 1 \in 0 .. RobotsHops BY <2>3, PoliteAssumption DEF PoliteCounts
    <3>2. PoliteCounts' BY <2>1, <2>3, <3>1 DEF PoliteCounts
    <3>3. HopsChecked' BY <2>1, <2>3 DEF HopsChecked, PoliteTypes, PrGoes
    <3> QED BY <3>2, <3>3
  <2> QED BY <1>7, <2>2, <2>3 DEF RobotsRedirected
<1>8. ASSUME NEW f \in Fetchers, NEW r \in Responses, AskAgain(f, r) PROVE PoliteCounts' /\ HopsChecked'
  <2>1. /\ prAt[f] = "asked" /\ attempts[f] < MaxRetries /\ prAt' = [prAt EXCEPT ![f] = "page"]
        /\ attempts' = [attempts EXCEPT ![f] = @ + 1]
        /\ UNCHANGED <<tenth, asks, robotsAt, hops, robotsHop, holding>>
    BY <1>8 DEF AskAgain, PrGoes
  <2>2. attempts[f] + 1 \in 0 .. MaxRetries BY <2>1, PoliteAssumption DEF PoliteCounts
  <2>3. PoliteCounts' BY <2>1, <2>2 DEF PoliteCounts
  <2>4. HopsChecked' BY <2>1 DEF HopsChecked, PoliteTypes
  <2> QED BY <2>3, <2>4
<1>9. ASSUME NEW f \in Fetchers, NEW r \in Responses, PageAnswered(f, r) PROVE PoliteCounts' /\ HopsChecked'
  BY <1>9, EndsCounts DEF PageAnswered
<1>10. ASSUME NEW f \in Fetchers, NEW r \in Responses, NEW o \in Origins, Redirects(f, r, o)
       PROVE PoliteCounts' /\ HopsChecked'
  <2>1. prAt[f] = "asked" /\ UNCHANGED <<tenth, asks>> BY <1>10 DEF Redirects
  <2>2. CASE Ends(f) BY <2>1, <2>2, EndsCounts
  <2>3. CASE /\ PrGoes(f, "hop") /\ hops' = [hops EXCEPT ![f] = @ + 1]
             /\ attempts' = [attempts EXCEPT ![f] = 0] /\ UNCHANGED <<robotsAt, robotsHop, holding>>
    <3>1. hops[f] + 1 \in 0 .. MaxRedirects + 1
      BY <2>1, PoliteAssumption DEF HopsChecked, PoliteCounts
    <3>2. PoliteCounts' BY <2>1, <2>3, <3>1, PoliteAssumption DEF PoliteCounts
    <3>3. HopsChecked' BY <2>1, <2>3 DEF HopsChecked, PoliteTypes, PoliteCounts, PrGoes
    <3> QED BY <3>2, <3>3
  <2> QED BY <1>10, <2>2, <2>3 DEF Redirects
<1> QED BY <1>1, <1>2, <1>3, <1>4, <1>5, <1>6, <1>7, <1>8, <1>9, <1>10 DEF PoliteNext

\* The state of the requests and of the cache of robots.txt keeps its types; no
\* request goes further than one hop past MaxRedirects, where it is refused.
THEOREM PoliteTyped == PoliteSpec => []PoliteTypeOK
<1>1. PoliteInv => PoliteTypes BY DEF PoliteInv
<1>2. PoliteTypes /\ PoliteCounts => PoliteTypeOK BY DEF PoliteTypes, PoliteCounts, PoliteTypeOK
<1> QED BY <1>1, <1>2, PoliteInvInit, PoliteInvStep, PoliteCountsInit, PoliteCountsStep, PTL DEF PoliteSpec
=============================================================================
