-------------------------- MODULE ScanFrontProofs ---------------------------
(***************************************************************************)
(* The callers of Scan, for any number of HTTP requests: the types of the  *)
(* scheduler, the handlers and main, that scans exclude one another, and   *)
(* that "newest" names one report.                                         *)
(***************************************************************************)
EXTENDS ScanFront, TLAPS

\* Whoever scans holds the mutex, and nobody else does.
HolderScans ==
  /\ mu = Scheduler <=> sched \in {"startscan", "scan"}
  /\ \A q \in Handlers : mu = q <=> handler[q] = "scanning"

\* The scheduler and the handlers: no two of them scan at once.
OneScan ==
  /\ sched \in {"startscan", "scan"} => \A q \in Handlers : handler[q] # "scanning"
  /\ \A p, q \in Handlers : handler[p] = "scanning" /\ handler[q] = "scanning" => p = q

\* Of the reports that are held or shown, one at most is the newest.
OneNewest ==
  \A q \in Handlers : held[q] = "newest" =>
    /\ shown # "newest"
    /\ \A p \in Handlers : held[p] = "newest" => p = q

FrontInv == FrontTypeOK /\ HolderScans /\ OneNewest

LEMMA FrontInitHolds == FrontInit => FrontInv
  BY FrontAssumption
  DEF FrontInit, FrontInv, FrontTypeOK, HolderScans, OneNewest, SchedPhases, HandlerPhases, Ages

\* The ages after a scan of q has ended.
LEMMA AgesAfterScan ==
  ASSUME NEW q \in Handlers, held \in [Handlers -> Ages], shown \in Ages, HandlerScanEnds(q)
  PROVE  /\ held' \in [Handlers -> Ages]
         /\ held'[q] = "newest" /\ shown' \in Ages \ {"newest"}
         /\ \A x \in Handlers \ {q} : /\ held'[x] \in Ages \ {"newest"}
                                      /\ held'[x] = "none" <=> held[x] = "none"
<1>1. shown' \in Ages \ {"newest"}
  BY DEF HandlerScanEnds, Aged, Ages
<1>2. held' = [x \in Handlers |-> IF x = q THEN "newest" ELSE Aged(held[x])]
  BY DEF HandlerScanEnds
<1> QED
  BY <1>1, <1>2 DEF Aged, Ages

LEMMA FrontStep == FrontInv /\ [FrontNext]_frontVars => FrontInv'
<1> SUFFICES ASSUME FrontInv, [FrontNext]_frontVars PROVE FrontInv'
  OBVIOUS
<1> USE FrontAssumption DEF FrontInv, FrontTypeOK, HolderScans, SchedPhases, HandlerPhases
\* The scheduler's own steps touch no handler and no report.
<1>1. ASSUME SchedulerStep PROVE FrontInv'
  <2>1. FrontTypeOK' /\ HolderScans'
    BY <1>1
    DEF SchedulerStep, StartScan, TickScan, SchedScanEnds, TickerFires, SelectTick, SelectDone,
        httpVars, mainVars
  <2>2. OneNewest'
    BY <1>1
    DEF SchedulerStep, StartScan, TickScan, SchedScanEnds, TickerFires, SelectTick, SelectDone,
        httpVars, mainVars, OneNewest
  <2> QED
    BY <2>1, <2>2
<1>2. ASSUME NEW q \in Handlers, Request(q) PROVE FrontInv'
  BY <1>2 DEF Request, OneNewest, mainVars
<1>3. ASSUME NEW q \in Handlers, HandlerScan(q) PROVE FrontInv'
  BY <1>3 DEF HandlerScan, OneNewest, mainVars
<1>4. ASSUME NEW q \in Handlers, HandlerScanEnds(q) PROVE FrontInv'
  <2>1. /\ handler' = [handler EXCEPT ![q] = "storing"] /\ handler[q] = "scanning"
        /\ held' = [x \in Handlers |-> IF x = q THEN "newest" ELSE Aged(held[x])]
        /\ shown' = Aged(shown) /\ mu' = Nobody
        /\ UNCHANGED <<sched, tick, ctxDone, main>>
    BY <1>4 DEF HandlerScanEnds, mainVars
  <2>2. /\ held'[q] = "newest" /\ shown' \in Ages \ {"newest"}
        /\ \A x \in Handlers \ {q} : /\ held'[x] \in Ages \ {"newest"}
                                     /\ held'[x] = "none" <=> held[x] = "none"
        /\ held' \in [Handlers -> Ages]
    BY <1>4, AgesAfterScan
  <2>3. FrontTypeOK' /\ HolderScans'
    <3>1. \A x \in Handlers : handler'[x] = "storing" <=> held'[x] # "none"
      BY <2>1, <2>2
    <3> QED
      BY <2>1, <2>2, <3>1
  <2>4. OneNewest'
    BY <2>2 DEF OneNewest
  <2> QED
    BY <2>3, <2>4
<1>5. ASSUME NEW q \in Handlers, HandlerScanFails(q) PROVE FrontInv'
  BY <1>5 DEF HandlerScanFails, OneNewest, mainVars
<1>6. ASSUME NEW q \in Handlers, StoreLatest(q) PROVE FrontInv'
  BY <1>6 DEF StoreLatest, OneNewest, mainVars, Ages
<1>7. ASSUME MainStep \/ Exited \/ UNCHANGED frontVars PROVE FrontInv'
  BY <1>7
  DEF MainStep, Signal, ServeFails, Drained, DrainTimeout, Exited, frontVars, httpVars, OneNewest
<1> QED
  BY <1>1, <1>2, <1>3, <1>4, <1>5, <1>6, <1>7 DEF FrontNext, HandlerStep

LEMMA FrontInvariance == FrontSpec => []FrontInv
  BY FrontInitHolds, FrontStep, PTL DEF FrontSpec

\* The scheduler, the handlers and main keep their types; a handler holds a
\* report exactly while it is about to store it.
THEOREM FrontTypeCorrect == FrontSpec => []FrontTypeOK
<1>1. FrontInv => FrontTypeOK
  BY DEF FrontInv
<1> QED
  BY <1>1, FrontInvariance, PTL

\* Scanner.mu is taken before every scan and given back after it, whatever its
\* outcome: no two scans overlap.
THEOREM ScansExclude == FrontSpec => []OneScan
<1>1. FrontInv => OneScan
  BY FrontAssumption DEF FrontInv, FrontTypeOK, HolderScans, OneScan
<1> QED
  BY <1>1, FrontInvariance, PTL

\* LatestShown compares reports by age; no two of them are the newest.
THEOREM NewestIsUnique == FrontSpec => []OneNewest
<1>1. FrontInv => OneNewest
  BY DEF FrontInv
<1> QED
  BY <1>1, FrontInvariance, PTL
=============================================================================
