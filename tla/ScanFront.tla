----------------------------- MODULE ScanFront -----------------------------
(***************************************************************************)
(* Who calls Scan, and what becomes of the process: the scheduler's loop   *)
(* over a ticker, the HTTP handlers of POST /v1/scan and POST /ui/scan     *)
(* with the latest report they keep for GET /ui/scan/latest, and main,     *)
(* which drains the server on a signal and exits.  A scan is the time it   *)
(* holds the scanner's mutex; its inside is module Evaluator.              *)
(*                                                                         *)
(* Reports are compared by age only: of the reports of HTTP scans that are *)
(* held by a handler or shown, at most one is the newest.                  *)
(***************************************************************************)
EXTENDS Naturals

CONSTANTS
  Handlers,   \* HTTP requests for a scan that may run at once
  Scheduler,  \* the scheduler's goroutine
  Nobody      \* holder of a free mutex

ASSUME FrontAssumption ==
  /\ Scheduler \notin Handlers
  /\ Nobody \notin Handlers \cup {Scheduler}

VARIABLES
  mu,        \* who holds Scanner.mu
  sched,     \* where Scheduler.Run is
  tick,      \* the ticker's channel, of capacity one, is full
  handler,   \* where each scan handler is
  held,      \* age of the report a handler holds
  shown,     \* age of lastScanDTO
  ctxDone,   \* the signal context is done
  main       \* where main is

frontVars == <<mu, sched, tick, handler, held, shown, ctxDone, main>>
httpVars == <<handler, held, shown>>
mainVars == <<ctxDone, main>>

SchedPhases == {"start", "startscan", "select", "call", "scan", "stopped"}
HandlerPhases == {"idle", "called", "scanning", "storing"}
Ages == {"none", "newest", "older"}

FrontTypeOK ==
  /\ mu \in Handlers \cup {Scheduler, Nobody}
  /\ sched \in SchedPhases
  /\ handler \in [Handlers -> HandlerPhases]
  /\ held \in [Handlers -> Ages]
  /\ shown \in Ages
  /\ main \in {"serving", "draining", "exited"}
  /\ {tick, ctxDone} \subseteq BOOLEAN
  /\ \A q \in Handlers : handler[q] = "storing" <=> held[q] # "none"

FrontInit ==
  /\ mu = Nobody
  /\ sched = "start"
  /\ tick = FALSE
  /\ handler = [q \in Handlers |-> "idle"]
  /\ held = [q \in Handlers |-> "none"]
  /\ shown = "none"
  /\ ctxDone = FALSE
  /\ main = "serving"

Running == main # "exited"

-----------------------------------------------------------------------------
\* The scheduler.  Run scans once before it creates its ticker.
StartScan ==
  /\ sched = "start"
  /\ IF mu = Nobody THEN mu' = Scheduler /\ sched' = "startscan"
                    ELSE mu' = mu /\ sched' = "select"
  /\ UNCHANGED <<tick, httpVars, mainVars>>

\* Run returns the error of a scan that finds another in progress.
TickScanReturning ==
  /\ sched = "call"
  /\ IF mu = Nobody THEN mu' = Scheduler /\ sched' = "scan"
                    ELSE mu' = mu /\ sched' = "stopped"
  /\ UNCHANGED <<tick, httpVars, mainVars>>

\* runScan after a tick; ErrScanInProgress is logged and the tick is spent.
TickScan ==
  /\ sched = "call"
  /\ IF mu = Nobody THEN mu' = Scheduler /\ sched' = "scan"
                    ELSE mu' = mu /\ sched' = "select"
  /\ UNCHANGED <<tick, httpVars, mainVars>>

\* Its scan ends, with a report that nobody keeps or with an error.
SchedScanEnds ==
  /\ sched \in {"startscan", "scan"}
  /\ mu' = Nobody
  /\ sched' = "select"
  /\ UNCHANGED <<tick, httpVars, mainVars>>

\* The ticker fires; a tick that finds the channel full is dropped.
TickerFires ==
  /\ sched \in {"select", "call", "scan"}
  /\ ~tick
  /\ tick' = TRUE
  /\ UNCHANGED <<mu, sched, httpVars, mainVars>>

\* The two cases of the select; either may be taken when both are ready.
SelectTick ==
  /\ sched = "select"
  /\ tick
  /\ tick' = FALSE
  /\ sched' = "call"
  /\ UNCHANGED <<mu, httpVars, mainVars>>

SelectDone ==
  /\ sched = "select"
  /\ ctxDone
  /\ sched' = "stopped"
  /\ UNCHANGED <<mu, tick, httpVars, mainVars>>

-----------------------------------------------------------------------------
\* The handlers.  The listener is closed once main drains the server.
Request(q) ==
  /\ main = "serving"
  /\ handler[q] = "idle"
  /\ handler' = [handler EXCEPT ![q] = "called"]
  /\ UNCHANGED <<mu, sched, tick, held, shown, mainVars>>

\* Scan takes the mutex, or the answer is 409.
HandlerScan(q) ==
  /\ handler[q] = "called"
  /\ IF mu = Nobody
       THEN mu' = q /\ handler' = [handler EXCEPT ![q] = "scanning"]
       ELSE mu' = mu /\ handler' = [handler EXCEPT ![q] = "idle"]
  /\ UNCHANGED <<sched, tick, held, shown, mainVars>>

\* Its scan ends with a report, newer than those the others hold or see.
Aged(a) == IF a = "newest" THEN "older" ELSE a
HandlerScanEnds(q) ==
  /\ handler[q] = "scanning"
  /\ mu' = Nobody
  /\ handler' = [handler EXCEPT ![q] = "storing"]
  /\ held' = [x \in Handlers |-> IF x = q THEN "newest" ELSE Aged(held[x])]
  /\ shown' = Aged(shown)
  /\ UNCHANGED <<sched, tick, mainVars>>

\* Its scan ends with an error, and the handler goes on.
HandlerScanFailsUnchecked(q) ==
  /\ handler[q] = "scanning"
  /\ mu' = Nobody
  /\ handler' = [handler EXCEPT ![q] = "storing"]
  /\ UNCHANGED <<sched, tick, held, shown, mainVars>>

\* Its scan ends with an error, which is the answer.
HandlerScanFails(q) ==
  /\ handler[q] = "scanning"
  /\ mu' = Nobody
  /\ handler' = [handler EXCEPT ![q] = "idle"]
  /\ UNCHANGED <<sched, tick, held, shown, mainVars>>

\* The report becomes lastScanDTO, under a mutex of its own, and is the answer.
StoreLatest(q) ==
  /\ handler[q] = "storing"
  /\ shown' = held[q]
  /\ held' = [held EXCEPT ![q] = "none"]
  /\ handler' = [handler EXCEPT ![q] = "idle"]
  /\ UNCHANGED <<mu, sched, tick, mainVars>>

-----------------------------------------------------------------------------
\* main.  SIGINT or SIGTERM ends the signal context, and Shutdown begins.
Signal ==
  /\ main = "serving"
  /\ ctxDone' = TRUE
  /\ main' = "draining"
  /\ UNCHANGED <<mu, sched, tick, httpVars>>

AllIdle == \A q \in Handlers : handler[q] = "idle"

\* Shutdown returns when every handler has; main logs, returns, and the process
\* ends whatever its other goroutines do.
Drained ==
  /\ main = "draining"
  /\ AllIdle
  /\ main' = "exited"
  /\ UNCHANGED <<mu, sched, tick, httpVars, ctxDone>>

\* Shutdown is given a context without a deadline.
DrainTimeoutNever ==
  /\ FALSE
  /\ UNCHANGED frontVars

\* Shutdown's ten seconds are over with a handler still running: os.Exit(1).
DrainTimeout ==
  /\ main = "draining"
  /\ ~AllIdle
  /\ main' = "exited"
  /\ UNCHANGED <<mu, sched, tick, httpVars, ctxDone>>

SchedulerStep ==
  \/ StartScan
  \/ TickScan
  \/ SchedScanEnds
  \/ TickerFires
  \/ SelectTick
  \/ SelectDone

HandlerStep(q) ==
  \/ HandlerScan(q)
  \/ HandlerScanEnds(q)
  \/ HandlerScanFails(q)
  \/ StoreLatest(q)

\* ListenAndServe cannot listen, or stops: os.Exit(1).
ServeFails ==
  /\ main = "serving"
  /\ main' = "exited"
  /\ UNCHANGED <<mu, sched, tick, httpVars, ctxDone>>

MainStep == Signal \/ ServeFails \/ Drained \/ DrainTimeout

\* After the exit the process makes no more steps.
Exited == main = "exited" /\ UNCHANGED frontVars

FrontNext ==
  \/ Running /\ SchedulerStep
  \/ \E q \in Handlers : Running /\ (Request(q) \/ HandlerStep(q))
  \/ MainStep
  \/ Exited

FrontSpec == FrontInit /\ [][FrontNext]_frontVars

\* The ticker and Shutdown's timer fire, the scheduler's goroutine runs, and
\* each of its scans ends (ScanEnds of PreMark).  Nothing is assumed of the
\* HTTP handlers, nor that a signal comes.
FrontFairSpec ==
  /\ FrontSpec
  /\ WF_frontVars(Running /\ SchedScanEnds)
  /\ WF_frontVars(Running /\ TickerFires)
  /\ WF_frontVars(Running /\ (StartScan \/ TickScan \/ SelectTick))
  /\ WF_frontVars(Drained \/ DrainTimeout)

-----------------------------------------------------------------------------
\* The scheduler never gives up: however often HTTP scans get in its way, a
\* scan is again and again in progress until the process is told to stop or
\* loses its listener.
KeepsScanning == [](main = "serving" => <>(mu # Nobody \/ main # "serving"))

\* A stop ends the process, even when a handler never returns.
ShutdownEnds == ctxDone ~> (main = "exited")

\* "Evaluation Skips (Latest Scan)" (static/index.html): when no handler is
\* working, the report shown is that of the newest HTTP scan.
LatestShown == AllIdle => shown # "older"
=============================================================================
