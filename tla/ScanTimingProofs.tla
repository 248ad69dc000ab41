-------------------------- MODULE ScanTimingProofs --------------------------
(***************************************************************************)
(* The market feed, for any number of callers, any TTL and any time limit: *)
(* its types, and the bound on the age of the prices a call returns.  Then *)
(* the timing of a scan, for any number of rules and notifiers and any     *)
(* limits: the age of the prices behind a signal when it is announced.     *)
(*                                                                         *)
(* AgeBounded is not inductive: it needs to know that a stamp is at most   *)
(* Timeout after the reading of the prices, of every answer that is        *)
(* travelling, held or cached, and that the cache is dated by its own      *)
(* stamp, whichever call stored it last.  Nor is PriceAgeWhenSurfaced: it  *)
(* needs an account of where the time since the scan's reading of the      *)
(* clock went.                                                             *)
(***************************************************************************)
EXTENDS ScanTiming, WellFoundedInduction, TLAPS

\* The stamp of an answer is not before its prices and at most Timeout after.
Dated(a) == a.asOf <= a.observedAt /\ a.observedAt - a.asOf <= Timeout

\* The cache is dated by the stamp of what it holds.
CacheDated ==
  cached # NoAnswer =>
    cachedAt = cached.observedAt /\ cachedAt <= clock /\ Dated(cached)

\* A request is sent before it is answered.
Requested(c) ==
  /\ at[c] = "waiting" => since[c] <= clock
  /\ at[c] = "answered" => /\ got[c] # NoAnswer
                           /\ since[c] <= got[c].asOf
                           /\ got[c].asOf <= clock

\* An answer is given when it is stamped, or less than TTL after.
Given(c) ==
  at[c] \in {"storing", "done"} =>
    /\ got[c] # NoAnswer
    /\ Dated(got[c])
    /\ got[c].observedAt <= given[c]
    /\ got[c].observedAt = given[c] \/ given[c] - got[c].observedAt < TTL
    /\ given[c] <= clock

FeedInv ==
  /\ FeedTypeOK
  /\ CacheDated
  /\ \A c \in Clients : Requested(c) /\ Given(c)

\* At the start nothing is cached and nobody calls.
LEMMA InitHolds == FeedInit => FeedInv
BY FeedAssumption
   DEF FeedInit, FeedInv, FeedTypeOK, CacheDated, Requested, Given, Times, Phases

\* Every step of the feed keeps the invariant.
LEMMA StepKeeps == FeedInv /\ [FeedNext]_feedVars => FeedInv'
<1> SUFFICES ASSUME FeedInv, [FeedNext]_feedVars
             PROVE  FeedInv'
  OBVIOUS
<1> USE FeedAssumption, NoAnswerAssumption
<1> USE DEF FeedInv, FeedTypeOK, Times, Phases, Answer
<1>1. CASE UNCHANGED feedVars
  BY <1>1 DEF feedVars, CacheDated, Requested, Given, Dated
<1>2. CASE Tick
  <2>1. FeedTypeOK' /\ CacheDated'
    BY <1>2 DEF Tick, CacheDated, Dated
  <2>2. \A c \in Clients : Requested(c)' /\ Given(c)'
    BY <1>2 DEF Tick, Requested, Given, Dated
  <2> QED
    BY <2>1, <2>2
<1>3. ASSUME NEW d \in Clients, Hit(d)
      PROVE  FeedInv'
  <2>1. FeedTypeOK'
    BY <1>3 DEF Hit, Usable
  <2>2. CacheDated'
    BY <1>3 DEF Hit, CacheDated, Dated
  <2>3. Requested(d)' /\ Given(d)'
    BY <1>3 DEF Hit, Usable, CacheDated, Requested, Given, Dated
  <2>4. \A c \in Clients \ {d} : Requested(c)' /\ Given(c)'
    BY <1>3 DEF Hit, Requested, Given, Dated
  <2> QED
    BY <2>1, <2>2, <2>3, <2>4
<1>4. ASSUME NEW d \in Clients, Miss(d)
      PROVE  FeedInv'
  BY <1>4 DEF Miss, CacheDated, Requested, Given, Dated
<1>5. ASSUME NEW d \in Clients, NEW empty \in BOOLEAN, Serve(d, empty)
      PROVE  FeedInv'
  <2>1. FeedTypeOK' /\ CacheDated'
    BY <1>5 DEF Serve, CacheDated, Dated
  <2>2. \A c \in Clients : Requested(c)' /\ Given(c)'
    BY <1>5 DEF Serve, Requested, Given, Dated
  <2> QED
    BY <2>1, <2>2
<1>6. ASSUME NEW d \in Clients, Decode(d)
      PROVE  FeedInv'
  <2>1. got[d] \in Answer
    BY <1>6 DEF Decode, Requested
  <2>2. got'[d] = [asOf |-> got[d].asOf, observedAt |-> clock, empty |-> got[d].empty]
    BY <1>6, <2>1 DEF Decode
  <2>3. FeedTypeOK' /\ CacheDated'
    BY <1>6, <2>1, <2>2 DEF Decode, CacheDated, Dated
  <2>4. Requested(d)' /\ Given(d)'
    BY <1>6, <2>1, <2>2 DEF Decode, Requested, Given, Dated
  <2>5. \A c \in Clients \ {d} : Requested(c)' /\ Given(c)'
    BY <1>6 DEF Decode, Requested, Given, Dated
  <2> QED
    BY <2>3, <2>4, <2>5
<1>7. ASSUME NEW d \in Clients, Fail(d)
      PROVE  FeedInv'
  BY <1>7 DEF Fail, CacheDated, Requested, Given, Dated
<1>8. ASSUME NEW d \in Clients, Store(d)
      PROVE  FeedInv'
  <2>1. got[d] \in Answer
    BY <1>8 DEF Store, Given
  <2>2. FeedTypeOK' /\ CacheDated'
    BY <1>8, <2>1 DEF Store, CacheDated, Given, Dated
  <2>3. \A c \in Clients : Requested(c)' /\ Given(c)'
    BY <1>8 DEF Store, Requested, Given, Dated
  <2> QED
    BY <2>2, <2>3
<1>9. ASSUME NEW d \in Clients, Return(d)
      PROVE  FeedInv'
  BY <1>9 DEF Return, CacheDated, Requested, Given, Dated
<1> QED
  BY <1>1, <1>2, <1>3, <1>4, <1>5, <1>6, <1>7, <1>8, <1>9 DEF FeedNext, ClientStep

\* The types of the feed's variables are kept.
THEOREM FeedTypeCorrect == FeedSpec => []FeedTypeOK
<1>1. FeedInv => FeedTypeOK
  BY DEF FeedInv
<1> QED
  BY <1>1, InitHolds, StepKeeps, PTL DEF FeedSpec

\* FetchAll, however its calls overlap and in whatever order they store, never
\* returns prices older than the bound.
THEOREM PricesAreRecent == FeedSpec => []AgeBounded
<1>1. ASSUME FeedInv
      PROVE  AgeBounded
  <2> SUFFICES ASSUME NEW c \in Clients, at[c] \in {"storing", "done"}
               PROVE  \/ given[c] - got[c].asOf <= Timeout
                      \/ given[c] - got[c].asOf < TTL + Timeout
    BY DEF AgeBounded
  <2>1. /\ given[c] \in Nat
        /\ got[c].asOf \in Nat /\ got[c].observedAt \in Nat
    BY <1>1, FeedAssumption DEF FeedInv, FeedTypeOK, Given, Answer, Times
  <2>2. /\ got[c].observedAt - got[c].asOf <= Timeout
        /\ got[c].observedAt = given[c] \/ given[c] - got[c].observedAt < TTL
    BY <1>1 DEF FeedInv, Given, Dated
  <2> QED
    BY <2>1, <2>2, FeedAssumption
<1> QED
  BY <1>1, InitHolds, StepKeeps, PTL DEF FeedSpec
-----------------------------------------------------------------------------
\* Every set of natural numbers that is not empty has a least element: proofs
\* by induction look at the least counterexample.
LEMMA LeastNatural ==
  ASSUME NEW T \in SUBSET Nat, T # {}
  PROVE  \E x \in T : \A y \in T : x <= y
<1> DEFINE R == OpToRel(<, Nat)
<1>1. IsWellFoundedOn(R, Nat)
  BY NatLessThanWellFounded
<1> HIDE DEF R
<1>2. PICK x \in T : \A y \in T : ~ (<<y, x>> \in R)
  BY <1>1, WFMin
<1>3. \A y \in T : <<y, x>> \in R <=> y < x
  BY Zenon DEF R, OpToRel
<1>4. \A y \in T : ~ (y < x)
  BY <1>2, <1>3, Zenon
<1> QED
  BY <1>4

\* A function that adds up the limits of the first n notifiers.
Adds(f, n) == f = [k \in 0 .. n |-> IF k = 0 THEN 0 ELSE f[k - 1] + NotifyTime[k]]

LEMMA LimitsType == Len(NotifyTime) \in Nat /\ \A k \in 1 .. Len(NotifyTime) : NotifyTime[k] \in Nat
  BY TimingAssumption

LEMMA AddsExists == \E f : Adds(f, Len(NotifyTime))
<1> DEFINE N == Len(NotifyTime)
           T == {n \in 0 .. N : ~\E f : Adds(f, n)}
<1> HIDE DEF N
<1>1. N \in Nat
  BY LimitsType DEF N
<1>2. SUFFICES ASSUME T # {} PROVE FALSE
  BY <1>1 DEF N
<1>3. PICK n \in T : \A m \in T : n <= m
  <2>1. T \subseteq Nat
    BY <1>1
  <2> HIDE DEF T
  <2> QED
    BY <1>2, <2>1, LeastNatural
<1>4. n # 0
  <2>1. Adds([k \in 0 .. 0 |-> 0], 0)
    BY DEF Adds
  <2> QED
    BY <2>1
<1>5. n \in 1 .. N /\ n - 1 \in 0 .. N /\ n - 1 \notin T
  BY <1>1, <1>3, <1>4
<1> HIDE DEF T
<1>6. PICK f : Adds(f, n - 1)
  BY <1>5 DEF T
<1> DEFINE g == [k \in 0 .. n |-> IF k = n THEN f[n - 1] + NotifyTime[n] ELSE f[k]]
<1>7. \A k \in 0 .. n : g[k] = IF k = 0 THEN 0 ELSE g[k - 1] + NotifyTime[k]
  <2> SUFFICES ASSUME NEW k \in 0 .. n
               PROVE  g[k] = IF k = 0 THEN 0 ELSE g[k - 1] + NotifyTime[k]
    OBVIOUS
  <2>1. CASE k = n
    BY <1>5, <2>1
  <2>2. CASE k # n
    <3>1. k \in 0 .. n - 1 /\ (k # 0 => k - 1 \in 0 .. n /\ k - 1 # n)
      BY <1>5, <2>2
    <3> QED
      BY <1>5, <1>6, <2>2, <3>1 DEF Adds
  <2> QED
    BY <2>1, <2>2
<1>8. Adds(g, n)
  BY <1>7 DEF Adds
<1> QED
  BY <1>8 DEF T

\* NotifySum is the running sum it is declared to be.
LEMMA NotifySumAdds == Adds(NotifySum, Len(NotifyTime))
<1> DEFINE N == Len(NotifyTime)
<1>1. PICK f : Adds(f, N)
  BY AddsExists
<1> QED
  BY <1>1, Zenon DEF Adds, NotifySum

\* The running sum is a natural number, and never falls.
LEMMA NotifySumType == \A k \in 0 .. Len(NotifyTime) : NotifySum[k] \in Nat
<1> DEFINE N == Len(NotifyTime)
           T == {k \in 0 .. N : NotifySum[k] \notin Nat}
<1>1. \A k \in 0 .. N : NotifySum[k] = IF k = 0 THEN 0 ELSE NotifySum[k - 1] + NotifyTime[k]
  BY NotifySumAdds, Zenon DEF Adds
<1>2. N \in Nat /\ \A k \in 1 .. N : NotifyTime[k] \in Nat
  BY LimitsType
<1> HIDE DEF N
<1>3. ASSUME T # {} PROVE FALSE
  <2>1. T \subseteq Nat
    BY <1>2
  <2>2. PICK k \in T : \A j \in T : k <= j
    <3> HIDE DEF T
    <3> QED
      BY <1>3, <2>1, LeastNatural
  <2>3. k # 0
    BY <1>1, <1>2
  <2>4. k \in 1 .. N /\ k - 1 \in 0 .. N /\ NotifySum[k - 1] \in Nat
    BY <1>2, <2>2, <2>3
  <2>5. NotifySum[k] = NotifySum[k - 1] + NotifyTime[k]
    BY <1>1, <2>3, <2>4
  <2> QED
    BY <1>2, <2>4, <2>5
<1> QED
  BY <1>3 DEF N

LEMMA NotifySumGrows ==
  ASSUME NEW j \in 0 .. Len(NotifyTime)
  PROVE  NotifySum[j] <= NotifySum[Len(NotifyTime)]
<1> DEFINE N == Len(NotifyTime)
           T == {i \in 0 .. N - j : ~(NotifySum[N - i] <= NotifySum[N])}
<1>1. \A k \in 0 .. N : NotifySum[k] = IF k = 0 THEN 0 ELSE NotifySum[k - 1] + NotifyTime[k]
  BY NotifySumAdds, Zenon DEF Adds
<1>2. /\ N \in Nat /\ j \in 0 .. N /\ \A k \in 1 .. N : NotifyTime[k] \in Nat
      /\ \A k \in 0 .. N : NotifySum[k] \in Nat
  BY LimitsType, NotifySumType
<1> HIDE DEF N
<1>3. ASSUME T # {} PROVE FALSE
  <2>1. T \subseteq Nat
    BY <1>2
  <2>2. PICK i \in T : \A m \in T : i <= m
    <3> HIDE DEF T
    <3> QED
      BY <1>3, <2>1, LeastNatural
  <2>3. i # 0
    BY <1>2
  <2>4. i - 1 \in 0 .. N - j /\ N - (i - 1) \in 1 .. N
    BY <1>2, <2>2, <2>3
  <2>5. NotifySum[N - (i - 1)] <= NotifySum[N]
    BY <2>2, <2>4
  <2>6. NotifySum[N - (i - 1)] = NotifySum[N - i] + NotifyTime[N - (i - 1)]
    BY <1>1, <1>2, <2>4
  <2> QED
    BY <1>2, <2>4, <2>5, <2>6
<1>4. N - j \in 0 .. N - j /\ N - (N - j) = j
  BY <1>2
<1> QED
  BY <1>3, <1>4 DEF N

LEMMA LimitsAdd ==
  /\ RuleLimit \in Nat
  /\ \A k \in Sinks : NotifySum[k] = NotifySum[k - 1] + NotifyTime[k]
  /\ NotifySum[0] = 0
  /\ \A k \in Sinks : RuleTime + NotifySum[k] <= RuleLimit
  /\ \A k \in 0 .. Len(NotifyTime) : NotifySum[k] \in Nat
  /\ Sinks = 1 .. Len(NotifyTime) /\ Len(NotifyTime) \in Nat /\ Len(NotifyTime) > 0
<1> DEFINE N == Len(NotifyTime)
<1>1. \A k \in 0 .. N : NotifySum[k] = IF k = 0 THEN 0 ELSE NotifySum[k - 1] + NotifyTime[k]
  BY NotifySumAdds, Zenon DEF Adds
<1>2. /\ N \in Nat /\ N > 0 /\ Sinks = 1 .. N /\ RuleTime \in Nat
      /\ \A k \in 0 .. N : NotifySum[k] \in Nat
      /\ \A k \in 0 .. N : NotifySum[k] <= NotifySum[N]
  BY TimingAssumption, NotifySumType, NotifySumGrows DEF Sinks
<1> QED
  BY <1>1, <1>2 DEF RuleLimit
-----------------------------------------------------------------------------
Scanned == {"prepare", "loop", "quote", "notify"}

\* What rules may take that were done before, when n are left.
Done(n) == (Rules - n) * RuleLimit

\* When the notifier in hand was called, the ones before it had returned.
AskedInOrder ==
  /\ stage \in {"idle", "fetch", "prepare", "quote"} => asked = {}
  /\ stage = "loop" => asked \in {{}, Sinks}
  /\ stage = "notify" => asked = 1 .. sink - 1

\* Where the time since the scan's reading of the clock went: the rules done
\* before, and in the rule in hand its quote and the notifiers that returned.
OnTime ==
  /\ stage = "loop" => clock - now <= Done(left)
  /\ stage \in {"quote", "notify"} =>
       left < Rules /\ now - snap.observedAt <= MaxSnapshotAge
  /\ stage = "quote" => /\ began - now <= Done(left + 1)
                        /\ clock - began <= RuleTime
  /\ stage = "notify" => /\ began - now <= Done(left + 1) + RuleTime + NotifySum[sink - 1]
                         /\ clock - began <= NotifyTime[sink]

TimingInv ==
  /\ FeedInv
  /\ TimingTypeOK
  /\ stage \in Scanned => Dated(snap)
  /\ AskedInOrder
  /\ OnTime

\* The products the invariant needs.
LEMMA DoneSteps ==
  ASSUME NEW n \in 0 .. Rules
  PROVE  /\ Done(n) \in Nat
         /\ n < Rules => Done(n) = Done(n + 1) + RuleLimit /\ Done(n + 1) \in Nat
         /\ Done(n) <= Rules * RuleLimit
<1>1. RuleLimit \in Nat /\ Rules \in Nat
  BY LimitsAdd, TimingAssumption
<1>2. \A a, p \in Nat : a * p \in Nat /\ (a + 1) * p = a * p + p
  OBVIOUS
<1>3. \A a, b, p \in Nat : (a + b) * p = a * p + b * p
  OBVIOUS
<1>4. Done(n) \in Nat
  BY <1>1, <1>2 DEF Done
<1>5. n < Rules => Done(n) = Done(n + 1) + RuleLimit /\ Done(n + 1) \in Nat
  <2>1. n < Rules => Rules - (n + 1) \in Nat /\ Rules - n = (Rules - (n + 1)) + 1
    BY <1>1
  <2> QED
    BY <1>1, <1>2, <2>1 DEF Done
<1>6. Done(n) <= Rules * RuleLimit
  <2>1. Rules - n \in Nat /\ n \in Nat /\ Rules = (Rules - n) + n
    BY <1>1
  <2>2. Rules * RuleLimit = (Rules - n) * RuleLimit + n * RuleLimit
    BY <1>1, <1>3, <2>1
  <2> QED
    BY <1>1, <1>2, <2>1, <2>2 DEF Done
<1> QED
  BY <1>4, <1>5, <1>6

\* The scan uses the feed as any of its callers does.
LEMMA ScanStepsFeed == [TimingNext]_timingVars => [FeedNext]_feedVars
<1>1. ASSUME ScanStep PROVE [FeedNext]_feedVars
  BY <1>1, TimingAssumption
  DEF ScanStep, Start, Fetched, ReadClock, TakeRule, SkipRule, NoTrigger, Surface,
      Notify, NotifierReturns, Finish, FeedNext
<1> QED
  BY <1>1 DEF TimingNext, FeedStep, TimePasses, FeedNext, timingVars

\* The scan is one more client of the feed, whose promises hold under it.
THEOREM TimingUsesFeed == TimingSpec => FeedSpec
<1>1. TimingInit => FeedInit
  BY DEF TimingInit
<1> QED
  BY <1>1, ScanStepsFeed, PTL DEF TimingSpec, FeedSpec

LEMMA TimingInitHolds == TimingInit => TimingInv
<1> SUFFICES ASSUME TimingInit PROVE TimingInv
  OBVIOUS
<1>1. FeedInv
  BY InitHolds DEF TimingInit
<1>2. TimingTypeOK
  BY <1>1, LimitsAdd, TimingAssumption, FeedAssumption
  DEF TimingInit, TimingTypeOK, FeedInv, FeedInit, Times, Stages
<1> QED
  BY <1>1, <1>2 DEF TimingInit, TimingInv, AskedInOrder, OnTime, Scanned

\* Every step of the scan, of the feed and of time keeps the invariant.
LEMMA TimingStep == TimingInv /\ [TimingNext]_timingVars => TimingInv'
<1> SUFFICES ASSUME TimingInv, [TimingNext]_timingVars PROVE TimingInv'
  OBVIOUS
<1>1. FeedInv' /\ FeedTypeOK'
  <2>1. FeedInv'
    BY ScanStepsFeed, StepKeeps DEF TimingInv
  <2> QED
    BY <2>1 DEF FeedInv
<1>2. /\ FeedTypeOK /\ stage \in Stages /\ left \in 0 .. Rules
      /\ snap \in Answer \cup {NoAnswer} /\ now \in Times /\ began \in Times
      /\ sink \in Sinks /\ asked \subseteq Sinks
      /\ stage \in Scanned => snap # NoAnswer /\ Dated(snap)
      /\ stage # "fetch" => at[Scan] = "idle"
  BY DEF TimingInv, TimingTypeOK, Scanned
<1>3. AskedInOrder /\ OnTime
  BY DEF TimingInv
<1>4. /\ now \in Nat /\ began \in Nat /\ clock \in Nat /\ clock' \in Nat
      /\ RuleTime \in Nat /\ MaxSnapshotAge \in Nat /\ Rules \in Nat /\ Scan \in Clients
      /\ snap # NoAnswer => snap.observedAt \in Nat
  BY <1>1, <1>2, TimingAssumption, FeedAssumption DEF FeedTypeOK, Times, Answer
<1>5. /\ Len(NotifyTime) \in Nat /\ Len(NotifyTime) > 0 /\ Sinks = 1 .. Len(NotifyTime)
      /\ RuleLimit \in Nat /\ NotifySum[0] = 0
      /\ \A k \in Sinks : /\ NotifySum[k] = NotifySum[k - 1] + NotifyTime[k]
                          /\ NotifySum[k] \in Nat /\ NotifySum[k - 1] \in Nat
                          /\ RuleTime + NotifySum[k] <= RuleLimit
                          /\ NotifyTime[k] \in Nat
  BY LimitsAdd, LimitsType
<1>6. /\ Done(left) \in Nat
      /\ left < Rules => Done(left) = Done(left + 1) + RuleLimit /\ Done(left + 1) \in Nat
      /\ left # 0 => /\ Done(left - 1) = Done(left) + RuleLimit
                     /\ Done((left - 1) + 1) = Done(left)
  <2>1. left # 0 => left - 1 \in 0 .. Rules /\ left - 1 < Rules /\ (left - 1) + 1 = left
    BY <1>2, <1>4
  <2> QED
    BY <1>2, <2>1, DoneSteps
<1> USE DEF Scanned, Stages
<1>7. ASSUME Start PROVE TimingInv'
  <2>1. at'[Scan] = "idle" \/ stage' = "fetch"
    BY <1>7 DEF Start
  <2>2. TimingTypeOK'
    BY <1>1, <1>2, <1>7, <2>1 DEF Start, TimingTypeOK
  <2> QED
    BY <1>1, <1>3, <1>7, <2>2 DEF Start, TimingInv, AskedInOrder, OnTime
<1>8. ASSUME Fetched PROVE TimingInv'
  <2>1. /\ at[Scan] \in {"done", "failed"} /\ at'[Scan] = "idle" /\ snap' = got[Scan]
        /\ UNCHANGED <<left, now, began, sink, asked, clock>>
        /\ stage' = IF at[Scan] = "failed" THEN "idle" ELSE "prepare"
    BY <1>2, <1>4, <1>8 DEF Fetched, Return, FeedTypeOK
  <2>2. at[Scan] = "done" => got[Scan] # NoAnswer /\ Dated(got[Scan])
    BY <1>4 DEF TimingInv, FeedInv, Given
  <2>3. got[Scan] \in Answer \cup {NoAnswer}
    BY <1>2, <1>4 DEF FeedTypeOK
  <2>4. TimingTypeOK'
    BY <1>1, <1>2, <2>1, <2>2, <2>3 DEF TimingTypeOK
  <2>5. Dated(snap)' \/ stage' = "idle"
    BY <2>1, <2>2 DEF Dated
  <2>6. AskedInOrder' /\ OnTime'
    BY <1>3, <1>8, <2>1 DEF Fetched, AskedInOrder, OnTime
  <2> QED
    BY <1>1, <2>1, <2>4, <2>5, <2>6 DEF TimingInv
<1>9. ASSUME NEW n \in 0 .. Rules, ReadClock(n) PROVE TimingInv'
  <2>1. TimingTypeOK'
    BY <1>1, <1>2, <1>9 DEF ReadClock, TimingTypeOK, feedVars, FeedTypeOK
  <2>2. OnTime'
    BY <1>4, <1>9, DoneSteps DEF ReadClock, OnTime, feedVars, Done
  <2> QED
    BY <1>1, <1>2, <1>3, <1>9, <2>1, <2>2 DEF ReadClock, TimingInv, AskedInOrder, feedVars, Dated
<1>10. ASSUME TakeRule PROVE TimingInv'
  <2>1. TimingTypeOK'
    <3>1. left' \in 0 .. Rules
      BY <1>2, <1>4, <1>10 DEF TakeRule
    <3> QED
      BY <1>1, <1>2, <1>10, <3>1 DEF TakeRule, TimingTypeOK, feedVars, FeedTypeOK
  <2>2. now - snap.observedAt <= MaxSnapshotAge
    BY <1>2, <1>4, <1>10 DEF TakeRule, PassesPrecheck, SnapshotFresh
  <2>3. OnTime'
    BY <1>2, <1>3, <1>4, <1>6, <1>10, <2>2 DEF TakeRule, OnTime, feedVars
  <2> QED
    BY <1>1, <1>2, <1>10, <2>1, <2>3 DEF TakeRule, TimingInv, AskedInOrder, feedVars, Dated
<1>11. ASSUME SkipRule PROVE TimingInv'
  <2>1. TimingTypeOK'
    <3>1. left' \in 0 .. Rules
      BY <1>2, <1>4, <1>11 DEF SkipRule
    <3> QED
      BY <1>1, <1>2, <1>11, <3>1 DEF SkipRule, TimingTypeOK, feedVars, FeedTypeOK
  <2>2. OnTime'
    BY <1>2, <1>3, <1>4, <1>5, <1>6, <1>11 DEF SkipRule, OnTime, feedVars
  <2> QED
    BY <1>1, <1>2, <1>11, <2>1, <2>2 DEF SkipRule, TimingInv, AskedInOrder, feedVars, Dated
<1>12. ASSUME NoTrigger PROVE TimingInv'
  <2>1. TimingTypeOK'
    BY <1>1, <1>2, <1>12 DEF NoTrigger, TimingTypeOK, feedVars, FeedTypeOK
  <2>2. RuleTime <= RuleLimit
    BY <1>4, <1>5
  <2>3. OnTime'
    BY <1>2, <1>3, <1>4, <1>5, <1>6, <1>12, <2>2 DEF NoTrigger, OnTime, feedVars
  <2> QED
    BY <1>1, <1>2, <1>3, <1>12, <2>1, <2>3
    DEF NoTrigger, TimingInv, AskedInOrder, feedVars, Dated
<1>13. ASSUME Surface PROVE TimingInv'
  <2>1. TimingTypeOK'
    BY <1>1, <1>2, <1>5, <1>13 DEF Surface, TimingTypeOK, feedVars, FeedTypeOK
  <2>2. 1 \in Sinks /\ 1 - 1 = 0 /\ 1 .. 0 = {}
    BY <1>5
  <2>3. OnTime'
    <3>1. /\ left < Rules /\ now - snap.observedAt <= MaxSnapshotAge
          /\ began - now <= Done(left + 1) /\ clock - began <= RuleTime
      BY <1>3, <1>13 DEF Surface, OnTime
    <3>2. NotifySum[1 - 1] = 0 /\ NotifyTime[1] \in Nat
      BY <1>5, <2>2, Zenon
    <3>3. clock - now <= Done(left + 1) + RuleTime + 0 /\ clock - clock <= NotifyTime[1]
      BY <1>4, <1>6, <3>1, <3>2
    <3> QED
      BY <1>13, <3>1, <3>2, <3>3 DEF Surface, OnTime, feedVars
  <2>4. AskedInOrder'
    BY <1>3, <1>13, <2>2 DEF Surface, AskedInOrder
  <2> QED
    BY <1>1, <1>2, <1>13, <2>1, <2>3, <2>4 DEF Surface, TimingInv, feedVars, Dated
<1>14. ASSUME NEW delivered \in BOOLEAN, Notify(delivered) PROVE TimingInv'
  <2>1. /\ stage = "notify" /\ asked' = asked \cup {sink}
        /\ UNCHANGED <<feedVars, left, snap, now>>
        /\ \/ /\ sink = Len(NotifyTime) /\ stage' = "loop" /\ began' = now /\ sink' = 1
           \/ /\ sink # Len(NotifyTime) /\ stage' = "notify" /\ began' = clock
              /\ sink' = sink + 1
    BY <1>14 DEF Notify, NotifierReturns
  <2>2. sink' \in Sinks
    BY <1>2, <1>5, <2>1
  <2>3. TimingTypeOK'
    BY <1>1, <1>2, <2>1, <2>2 DEF TimingTypeOK, feedVars, FeedTypeOK
  <2>4. asked = 1 .. sink - 1 /\ asked \cup {sink} = 1 .. sink
    BY <1>2, <1>3, <1>5, <2>1 DEF AskedInOrder
  <2>5. AskedInOrder'
    BY <1>2, <1>5, <2>1, <2>4 DEF AskedInOrder
  <2> DEFINE before == NotifySum[sink - 1]
             limit == NotifyTime[sink]
             after == NotifySum[sink]
  <2>6. /\ after = before + limit /\ before \in Nat /\ limit \in Nat
        /\ RuleTime + after <= RuleLimit
    BY <1>2, <1>5, Zenon
  <2>7. /\ left < Rules /\ now - snap.observedAt <= MaxSnapshotAge
        /\ began - now <= Done(left + 1) + RuleTime + before /\ clock - began <= limit
    BY <1>3, <2>1, Zenon DEF OnTime
  <2> HIDE DEF before, limit, after
  <2>8. clock - now <= Done(left + 1) + RuleTime + after
    BY <1>2, <1>4, <1>6, <2>6, <2>7
  <2>9. OnTime'
    <3>1. CASE sink = Len(NotifyTime)
      <4>1. /\ Done(left) = Done(left + 1) + RuleLimit
            /\ Done(left + 1) \in Nat /\ RuleLimit \in Nat
        BY <1>5, <1>6, <2>7, Zenon
      <4>2. clock - now <= Done(left)
        BY <1>4, <2>6, <2>8, <4>1
      <4> QED
        BY <2>1, <3>1, <4>2 DEF OnTime, feedVars
    <3>2. CASE sink # Len(NotifyTime)
      <4>1. sink' - 1 = sink
        BY <1>2, <1>5, <2>1, <3>2
      <4>2. NotifySum[sink' - 1] = after /\ NotifyTime[sink'] \in Nat
        BY <1>5, <2>2, <4>1, Zenon DEF after
      <4>3. stage' = "notify" /\ began' = clock /\ UNCHANGED <<clock, left, snap, now>>
        BY <2>1, <3>2 DEF feedVars
      <4>4. clock - clock <= NotifyTime[sink']
        BY <1>4, <4>2
      <4> QED
        BY <2>7, <2>8, <4>2, <4>3, <4>4 DEF OnTime
    <3> QED
      BY <3>1, <3>2
  <2> QED
    BY <1>1, <1>2, <2>1, <2>3, <2>5, <2>9 DEF TimingInv, feedVars, Dated
<1>15. ASSUME Finish PROVE TimingInv'
  <2>1. TimingTypeOK'
    BY <1>1, <1>2, <1>15, FeedAssumption DEF Finish, TimingTypeOK, feedVars, FeedTypeOK, Times
  <2> QED
    BY <1>1, <1>15, <2>1 DEF Finish, TimingInv, AskedInOrder, OnTime
<1>16. ASSUME NEW c \in Clients, FeedStep(c) PROVE TimingInv'
  <2>1. stage = "fetch" \/ at'[Scan] = at[Scan]
    BY <1>2, <1>4, <1>16
    DEF FeedStep, ClientStep, Hit, Miss, Serve, Decode, Fail, Store, Return, FeedTypeOK
  <2>2. UNCHANGED clock /\ UNCHANGED scanVars
    BY <1>16 DEF FeedStep, ClientStep, Hit, Miss, Serve, Decode, Fail, Store, Return
  <2>3. TimingTypeOK'
    BY <1>1, <1>2, <2>1, <2>2 DEF TimingTypeOK, scanVars
  <2> QED
    BY <1>1, <1>2, <1>3, <2>2, <2>3 DEF TimingInv, AskedInOrder, OnTime, Dated, scanVars
<1>17. ASSUME TimePasses PROVE TimingInv'
  <2>1. clock' = clock + 1 /\ UNCHANGED scanVars /\ at' = at
    BY <1>17 DEF TimePasses, Tick
  <2>2. TimingTypeOK'
    BY <1>1, <1>2, <2>1 DEF TimingTypeOK, scanVars
  <2>3. OnTime'
    BY <1>2, <1>3, <1>4, <1>5, <1>17, <2>1 DEF TimePasses, OnTime, scanVars
  <2> QED
    BY <1>1, <1>2, <1>3, <2>1, <2>2, <2>3 DEF TimingInv, AskedInOrder, Dated, scanVars
<1>18. CASE UNCHANGED timingVars
  BY <1>1, <1>2, <1>3, <1>18
  DEF timingVars, feedVars, scanVars, TimingInv, TimingTypeOK, AskedInOrder, OnTime, Dated
<1> QED
  BY <1>7, <1>8, <1>9, <1>10, <1>11, <1>12, <1>13, <1>14, <1>15, <1>16, <1>17, <1>18
  DEF TimingNext, ScanStep

LEMMA TimingInvariance == TimingSpec => []TimingInv
  BY TimingInitHolds, TimingStep, PTL DEF TimingSpec

\* The stages of a scan and its call of the feed fit together.
THEOREM TimingTypeCorrect == TimingSpec => []TimingTypeOK
<1>1. TimingInv => TimingTypeOK
  BY DEF TimingInv
<1> QED
  BY <1>1, TimingInvariance, PTL

\* A signal is never announced later after the reading of its prices than the
\* request, the freshness check, the rules and the notifiers allow.
THEOREM SignalsAreTimely == TimingSpec => []PriceAgeWhenSurfaced
<1>1. TimingInv => PriceAgeWhenSurfaced
  <2> SUFFICES ASSUME TimingInv, stage = "notify"
               PROVE  clock - snap.asOf <= Timeout + MaxSnapshotAge + Rules * RuleLimit
    BY DEF PriceAgeWhenSurfaced
  <2>1. /\ left \in 0 .. Rules /\ left < Rules /\ sink \in Sinks /\ snap \in Answer
        /\ now \in Times /\ began \in Times /\ clock \in Times
        /\ began - now <= Done(left + 1) + RuleTime + NotifySum[sink - 1]
        /\ clock - began <= NotifyTime[sink]
        /\ now - snap.observedAt <= MaxSnapshotAge /\ snap.observedAt - snap.asOf <= Timeout
    BY DEF TimingInv, TimingTypeOK, FeedTypeOK, OnTime, Scanned, Dated
  <2>2. /\ now \in Nat /\ began \in Nat /\ clock \in Nat
        /\ snap.asOf \in Nat /\ snap.observedAt \in Nat
        /\ MaxSnapshotAge \in Nat /\ RuleTime \in Nat /\ Timeout \in Nat /\ Rules \in Nat
    BY <2>1, TimingAssumption, FeedAssumption DEF Times, Answer
  <2> DEFINE before == NotifySum[sink - 1]
             limit == NotifyTime[sink]
  <2>3. sink - 1 \in 0 .. Len(NotifyTime)
    BY <2>1, LimitsAdd
  <2>4. NotifySum[sink] = before + limit /\ RuleTime + NotifySum[sink] <= RuleLimit
    BY <2>1, LimitsAdd, Zenon
  <2>5. before \in Nat /\ limit \in Nat /\ RuleLimit \in Nat
    BY <2>1, <2>3, LimitsAdd, LimitsType
  <2>6. began - now <= Done(left + 1) + RuleTime + before /\ clock - began <= limit
    BY <2>1
  <2> HIDE DEF before, limit
  <2>7. /\ Done(left) = Done(left + 1) + RuleLimit /\ Done(left + 1) \in Nat
        /\ Done(left) <= Rules * RuleLimit
    BY <2>1, DoneSteps
  <2>8. clock - now <= Done(left)
    BY <2>2, <2>4, <2>5, <2>6, <2>7
  <2>9. Rules * RuleLimit \in Nat
    BY <2>2, <2>5
  <2> DEFINE total == Rules * RuleLimit
  <2> HIDE DEF total
  <2>10. clock - now <= total /\ total \in Nat
    BY <2>2, <2>5, <2>7, <2>8, <2>9 DEF total
  <2>11. clock - snap.asOf <= Timeout + MaxSnapshotAge + total
    BY <2>1, <2>2, <2>10
  <2> QED
    BY <2>11 DEF total
<1> QED
  BY <1>1, TimingInvariance, PTL

\* A failing or silent notifier keeps no other from the signal.
THEOREM NotifiersAreAsked == TimingSpec => []AllNotifiersAsked
<1>1. TimingInv => AllNotifiersAsked
  BY DEF TimingInv, AskedInOrder, AllNotifiersAsked
<1> QED
  BY <1>1, TimingInvariance, PTL
=============================================================================
