----------------------------- MODULE ScanTiming -----------------------------
(***************************************************************************)
(* How old the facts behind a signal are when it surfaces.  One scan       *)
(* fetches the market through MarketFeed, saves the snapshots, lists the   *)
(* rules and reads the clock ONCE; then it takes the rules one after the   *)
(* other, each with a quote that may last up to RuleTime, and announces a  *)
(* signal to one notifier after the other (notify/multi), each with its    *)
(* own limit, before it takes the next rule.  Other clients share the feed *)
(* and its cache.  What a signal does to its rule is module Evaluator's;   *)
(* here is only time.                                                      *)
(***************************************************************************)
EXTENDS MarketFeed, Sequences

CONSTANTS
  Scan,            \* the client that scans; the scan mutex admits only one
  Rules,           \* bound: number of rules a scan finds enabled
  MaxSnapshotAge,  \* Precheck refuses an older snapshot
  RuleTime,        \* limit of one rule's quote and writes
  NotifyTime       \* limit of each notifier, in the order they are called

ASSUME TimingAssumption ==
  /\ Scan \in Clients
  /\ {Rules, MaxSnapshotAge, RuleTime} \subseteq Nat
  /\ NotifyTime \in Seq(Nat) /\ NotifyTime # <<>>

VARIABLES
  stage,   \* where the scan is
  left,    \* rules of this scan not yet evaluated
  snap,    \* the scan's snapshots
  now,     \* the scan's one reading of the clock
  began,   \* when the rule in hand was taken, or its notifier called
  sink,    \* the notifier being called
  asked    \* history: the notifiers that had the last signal

scanVars == <<stage, left, snap, now, began, sink, asked>>
timingVars == <<feedVars, scanVars>>

Stages == {"idle", "fetch", "prepare", "loop", "quote", "notify"}
Sinks == DOMAIN NotifyTime

TimingInit ==
  /\ FeedInit
  /\ stage = "idle"
  /\ left = 0
  /\ snap = NoAnswer
  /\ now = 0
  /\ began = 0
  /\ sink = 1
  /\ asked = {}

\* Scan takes the mutex and calls FetchAll.
Start ==
  /\ stage = "idle"
  /\ stage' = "fetch"
  /\ UNCHANGED <<feedVars, left, snap, now, began, sink, asked>>

\* FetchAll returns to Ingest, which does not look at the error.
FetchedUnchecked ==
  /\ stage = "fetch"
  /\ Return(Scan)
  /\ snap' = got[Scan]
  /\ stage' = "prepare"
  /\ UNCHANGED <<left, now, began, sink, asked>>

\* FetchAll returns to Ingest; without an answer the scan is over.
Fetched ==
  /\ stage = "fetch"
  /\ Return(Scan)
  /\ snap' = got[Scan]
  /\ stage' = IF at[Scan] = "failed" THEN "idle" ELSE "prepare"
  /\ UNCHANGED <<left, now, began, sink, asked>>

\* SaveAll has ended (its failure is only logged), ListEnabled has returned n
\* rules, and EvaluateAll reads the clock.
ReadClock(n) ==
  /\ stage = "prepare"
  /\ stage' = "loop"
  /\ left' = n
  /\ now' = clock
  /\ began' = clock
  /\ UNCHANGED <<feedVars, snap, sink, asked>>

\* Precheck lets the next rule through.
SnapshotFresh == ~(now - snap.observedAt > MaxSnapshotAge)
PassesPrecheck == ~snap.empty /\ SnapshotFresh

\* The next rule goes to its quote.
TakeRule ==
  /\ stage = "loop"
  /\ left > 0
  /\ PassesPrecheck
  /\ stage' = "quote"
  /\ left' = left - 1
  /\ began' = clock
  /\ asked' = {}
  /\ UNCHANGED <<feedVars, snap, now, sink>>

\* It is skipped: no market data, a stale snapshot, or another check.
SkipRule ==
  /\ stage = "loop"
  /\ left > 0
  /\ left' = left - 1
  /\ asked' = {}
  /\ UNCHANGED <<feedVars, stage, snap, now, began, sink>>

\* The quote failed or was turned down.
NoTrigger ==
  /\ stage = "quote"
  /\ stage' = "loop"
  /\ began' = now
  /\ UNCHANGED <<feedVars, left, snap, now, sink, asked>>

\* Decide repeats Precheck with the same snapshot and the same clock reading,
\* the signal is saved and marked, and the first notifier is called.
Surface ==
  /\ stage = "quote"
  /\ PassesPrecheck
  /\ stage' = "notify"
  /\ began' = clock
  /\ sink' = 1
  /\ UNCHANGED <<feedVars, left, snap, now, asked>>

\* A notifier returns.  Its error is kept for the log and the next notifier is
\* called; the variant returns with the first error.
NotifierReturns(last) ==
  /\ stage = "notify"
  /\ asked' = asked \cup {sink}
  /\ stage' = IF last THEN "loop" ELSE "notify"
  /\ began' = IF last THEN now ELSE clock
  /\ sink' = IF last THEN 1 ELSE sink + 1
  /\ UNCHANGED <<feedVars, left, snap, now>>
NotifyUntilError(delivered) ==
  NotifierReturns(sink = Len(NotifyTime) \/ ~delivered)
Notify(delivered) == NotifierReturns(sink = Len(NotifyTime))

\* The limit of a notifier's call ends it.  Bound: at MaxTime it has.
NotifyExpires ==
  /\ clock - began >= NotifyTime[sink] \/ clock = MaxTime
  /\ Notify(FALSE)

\* The report is returned and the mutex freed.
Finish ==
  /\ stage = "loop"
  /\ left = 0
  /\ stage' = "idle"
  /\ snap' = NoAnswer
  /\ now' = 0
  /\ began' = 0
  /\ asked' = {}
  /\ UNCHANGED <<feedVars, left, sink>>

ScanStep ==
  \/ Start
  \/ Fetched
  \/ \E n \in 0 .. Rules : ReadClock(n)
  \/ TakeRule
  \/ SkipRule
  \/ NoTrigger
  \/ Surface
  \/ \E delivered \in BOOLEAN : Notify(delivered)
  \/ Finish

\* The feed moves.  The scan calls it only in its "fetch" stage and takes its
\* result in Fetched.
FeedStep(c) ==
  /\ c = Scan => stage = "fetch"
  /\ ClientStep(c) \/ (c # Scan /\ Return(c))
  /\ UNCHANGED scanVars

\* Time does not pass the limit of a rule's calls, and a loop that can turn is
\* turned at once.  Saving the snapshots and listing the rules may take any time.
TimePasses ==
  /\ Tick
  /\ stage # "loop"
  /\ stage = "quote" => clock - began < RuleTime
  /\ stage = "notify" => clock - began < NotifyTime[sink]
  /\ UNCHANGED scanVars

TimingNext == ScanStep \/ (\E c \in Clients : FeedStep(c)) \/ TimePasses

TimingSpec == TimingInit /\ [][TimingNext]_timingVars

\* Time passes however busy the scan is, timers fire, and a goroutine that can
\* run is run.  The API is not assumed to answer, nor a caller to call.
TimingFairSpec ==
  /\ TimingSpec
  /\ SF_timingVars(TimePasses)
  /\ \A c \in Clients : WF_timingVars((Expire(c) \/ Store(c)) /\ UNCHANGED scanVars)
  /\ \A c \in Clients \ {Scan} : WF_timingVars(Return(c) /\ UNCHANGED scanVars)
  /\ WF_timingVars(Fetched)
  /\ WF_timingVars(TakeRule \/ SkipRule \/ NoTrigger \/ Finish)
  /\ WF_timingVars(NotifyExpires)

-----------------------------------------------------------------------------
\* The stages of a scan and its call of the feed fit together.
TimingTypeOK ==
  /\ FeedTypeOK
  /\ stage \in Stages
  /\ left \in 0 .. Rules
  /\ snap \in Answer \cup {NoAnswer}
  /\ {now, began} \subseteq Times
  /\ sink \in Sinks /\ asked \subseteq Sinks
  /\ stage \in {"prepare", "loop", "quote", "notify"} => snap # NoAnswer
  /\ stage # "fetch" => at[Scan] = "idle"

\* What the first k notifiers may take together.
NotifySum[k \in 0 .. Len(NotifyTime)] ==
  IF k = 0 THEN 0 ELSE NotifySum[k - 1] + NotifyTime[k]

\* One rule of a scan with its quote, its writes and all its notifiers.
RuleLimit == RuleTime + NotifySum[Len(NotifyTime)]

\* A signal is announced at most this long after the API read its prices: the
\* request that fetched them, whoever sent it, then what the check allows at
\* the scan's clock reading, then every rule of the scan with its quote and its
\* notifiers.
PriceAgeWhenSurfaced ==
  stage = "notify" =>
    clock - snap.asOf <= Timeout + MaxSnapshotAge + Rules * RuleLimit

\* A signal is offered to every notifier, whichever of them fail or do not
\* answer, before the scan goes on.
AllNotifiersAsked == stage = "loop" => asked \in {{}, Sinks}
=============================================================================
