----------------------------- MODULE Evaluator -----------------------------
(***************************************************************************)
(* A scan: usecase.Scanner.Scan with the Ingestor and Evaluator it drives. *)
(* Its callers are the scheduler's goroutine and the HTTP scan handlers;   *)
(* a mutex taken with TryLock lets one of them in and turns the others     *)
(* away.  The evaluator works on copies of the rules it listed, with one   *)
(* reading of the clock for the whole scan, and every call it makes to a   *)
(* store, the quote service or the notifier is a step of its own.          *)
(*                                                                         *)
(* Abstracted: the order of the listed rules (any order here, CreatedAt    *)
(* then ID in the code), and the numbers behind a market or quote verdict. *)
(***************************************************************************)
EXTENDS RuleStore

CONSTANT Callers   \* goroutines that call Scan: the scheduler, HTTP handlers

VARIABLES
  mu,         \* Scanner.mu is locked
  pc,         \* where each caller is in Scan
  todo,       \* copies of the listed rules still to evaluate
  cur,        \* copy of the rule being evaluated
  now,        \* the scan's one reading of the clock
  cancelled,  \* the caller's context is done
  report,     \* the ScanReport being built
  notified    \* history: signals handed to the notifier

scanVars == <<pc, todo, cur, now, cancelled, report>>
evalVars == <<mu, scanVars, notified>>

Phases == {"idle", "ingest", "list", "clock", "loop", "quote", "save", "mark",
           "notify", "done"}

EmptyReport == [evaluated |-> {}, created |-> {}, skipped |-> {}, failed |-> {}]

Created == [rule : RuleIDs, at : Times]
Report == [evaluated : SUBSET RuleIDs, created : SUBSET Created,
           skipped : SUBSET RuleIDs, failed : SUBSET RuleIDs]

EvalTypeOK ==
  /\ mu \in BOOLEAN
  /\ pc \in [Callers -> Phases]
  /\ todo \in [Callers -> SUBSET Rule]
  /\ cur \in [Callers -> Rule \cup {NoRule}]
  /\ now \in [Callers -> Times]
  /\ cancelled \in [Callers -> BOOLEAN]
  /\ report \in [Callers -> Report]
  /\ notified \in SUBSET Created

AllCallers(v) == [c \in Callers |-> v]

EvalInit ==
  /\ mu = FALSE
  /\ pc = AllCallers("idle")
  /\ todo = AllCallers({})
  /\ cur = AllCallers(NoRule)
  /\ now = AllCallers(0)
  /\ cancelled = AllCallers(FALSE)
  /\ report = AllCallers(EmptyReport)
  /\ notified = {}

Goto(c, phase) == pc' = [pc EXCEPT ![c] = phase]

\* One more rule in a list of the report.
Skipped(c, id) == [report EXCEPT ![c].skipped = @ \cup {id}]
Failed(c, id) == [report EXCEPT ![c].failed = @ \cup {id}]

\* Scan returns ErrScanInProgress at once, changing nothing, when mu is held.
TryLockUnchecked(c) ==
  /\ pc[c] = "idle"
  /\ mu' = TRUE
  /\ Goto(c, "ingest")
  /\ UNCHANGED <<storeVars, todo, cur, now, cancelled, report, notified>>
TryLock(c) ==
  /\ pc[c] = "idle"
  /\ ~mu
  /\ mu' = TRUE
  /\ Goto(c, "ingest")
  /\ UNCHANGED <<storeVars, todo, cur, now, cancelled, report, notified>>

\* The caller's context ends: the client went away or the process is told to
\* stop.
Cancel(c) ==
  /\ pc[c] # "idle"
  /\ ~cancelled[c]
  /\ cancelled' = [cancelled EXCEPT ![c] = TRUE]
  /\ UNCHANGED <<storeVars, mu, pc, todo, cur, now, report, notified>>

\* Ingest fails with the market source; a failure to store the snapshots is
\* only logged.
Ingest(c) ==
  /\ pc[c] = "ingest"
  /\ \/ Goto(c, "list")
     \/ Goto(c, "done")
  /\ UNCHANGED <<storeVars, mu, todo, cur, now, cancelled, report, notified>>

\* rules.ListEnabled; an error ends the scan.
ListRows(c, rows) ==
  /\ pc[c] = "list"
  /\ \/ /\ ~(Durable /\ cancelled[c])
        /\ todo' = [todo EXCEPT ![c] = rows]
        /\ Goto(c, "clock")
     \/ /\ Durable
        /\ Goto(c, "done")
        /\ UNCHANGED todo
  /\ UNCHANGED <<storeVars, mu, cur, now, cancelled, report, notified>>
ListEveryRow(c) == ListRows(c, EveryRow)
ListEnabled(c) == ListRows(c, EnabledRows)

\* now := e.clock.Now(), once per scan.
ReadClock(c) ==
  /\ pc[c] = "clock"
  /\ now' = [now EXCEPT ![c] = clock]
  /\ Goto(c, "loop")
  /\ UNCHANGED <<storeVars, mu, todo, cur, cancelled, report, notified>>

CooldownActiveOneShort(r, t) == r.last # Never /\ t - r.last < Cooldown[r.id] - 1
CooldownActive(r, t) == r.last # Never /\ t - r.last < Cooldown[r.id]

\* What the market says of a rule's token: not in the feed, rejected by the
\* checks on age, price and premium, or within the rule's threshold.
Markets == {"absent", "unfit", "fit"}

Precheck(r, t, market) ==
  /\ r.enabled
  /\ ~CooldownActive(r, t)
  /\ market = "fit"

\* A rule without market data is kept for another try.
TakeRuleRetrying(c, r, market) ==
  /\ pc[c] = "loop"
  /\ ~cancelled[c]
  /\ r \in todo[c]
  /\ market = "absent"
  /\ report' = [report EXCEPT ![c].evaluated = @ \cup {r.id}]
  /\ UNCHANGED <<storeVars, mu, pc, todo, cur, now, cancelled, notified>>

\* One iteration of the loop up to the call of QuoteBuy: the context is
\* checked, then the rule is skipped or its quote is asked for.
TakeRule(c, r, market) ==
  /\ pc[c] = "loop"
  /\ ~cancelled[c]
  /\ r \in todo[c]
  /\ todo' = [todo EXCEPT ![c] = @ \ {r}]
  /\ IF market # "absent" /\ Precheck(r, now[c], market)
       THEN /\ cur' = [cur EXCEPT ![c] = r]
            /\ Goto(c, "quote")
            /\ report' = [report EXCEPT ![c].evaluated = @ \cup {r.id}]
       ELSE /\ report' = [report EXCEPT ![c].evaluated = @ \cup {r.id},
                                        ![c].skipped = @ \cup {r.id}]
            /\ UNCHANGED <<cur, pc>>
  /\ UNCHANGED <<storeVars, mu, now, cancelled, notified>>

\* The context ended between two iterations: the error drops the report.
Abort(c) ==
  /\ pc[c] = "loop"
  /\ cancelled[c]
  /\ todo[c] # {}
  /\ todo' = [todo EXCEPT ![c] = {}]
  /\ report' = [report EXCEPT ![c] = EmptyReport]
  /\ Goto(c, "done")
  /\ UNCHANGED <<storeVars, mu, cur, now, cancelled, notified>>

EndIteration(c) == /\ cur' = [cur EXCEPT ![c] = NoRule]
                   /\ Goto(c, "loop")

\* The missing `continue` after a failed QuoteBuy.
QuoteFallThrough(c) ==
  LET r == cur[c] IN
  /\ pc[c] = "quote"
  /\ \/ report' = Failed(c, r.id)
     \/ UNCHANGED report
  /\ Len(signals) < MaxSignals
  /\ Goto(c, "save")
  /\ UNCHANGED <<storeVars, mu, todo, cur, now, cancelled, notified>>

\* QuoteBuy fails, or Decide turns the quote down, or the rule triggers.
\* Decide repeats Precheck first, on the same copy and the same `now`.
Quote(c) ==
  LET r == cur[c] IN
  /\ pc[c] = "quote"
  /\ \/ /\ report' = Failed(c, r.id)
        /\ EndIteration(c)
     \/ /\ ~cancelled[c]
        /\ report' = Skipped(c, r.id)
        /\ EndIteration(c)
     \/ /\ ~cancelled[c]
        /\ Precheck(r, now[c], "fit")
        /\ Len(signals) < MaxSignals
        /\ Goto(c, "save")
        /\ UNCHANGED <<cur, report>>
  /\ UNCHANGED <<storeVars, mu, todo, now, cancelled, notified>>

\* The missing `continue` after a failed signals.Save.
SaveSignalFallThrough(c, outcome) ==
  LET r == cur[c] IN
  /\ pc[c] = "save"
  /\ signals' = IF outcome = "failed" THEN signals ELSE WithSignal(r.id, now[c])
  /\ report' = IF outcome = "ok" THEN report ELSE Failed(c, r.id)
  /\ Goto(c, "mark")
  /\ UNCHANGED <<rules, unmarked, clock, mu, cur, todo, now, cancelled, notified>>

\* A `return` in place of the `continue` after a failed signals.Save.
SaveSignalReturning(c, outcome) ==
  LET r == cur[c] IN
  /\ pc[c] = "save"
  /\ signals' = IF outcome = "failed" THEN signals ELSE WithSignal(r.id, now[c])
  /\ report' = IF outcome = "ok" THEN report ELSE Failed(c, r.id)
  /\ Goto(c, IF outcome = "ok" THEN "mark" ELSE "done")
  /\ cur' = IF outcome = "ok" THEN cur ELSE [cur EXCEPT ![c] = NoRule]
  /\ UNCHANGED <<rules, unmarked, clock, mu, todo, now, cancelled, notified>>

\* signals.Save.  An error ends the iteration, also when the row was in fact
\* written: the rule is then never marked for that signal.
SaveSignal(c, outcome) ==
  LET r == cur[c] IN
  /\ pc[c] = "save"
  /\ signals' = IF outcome = "failed" THEN signals ELSE WithSignal(r.id, now[c])
  /\ unmarked' = IF outcome = "applied" THEN unmarked \cup {r.id} ELSE unmarked
  /\ IF outcome = "ok"
       THEN /\ Goto(c, "mark")
            /\ UNCHANGED <<cur, report>>
       ELSE /\ report' = Failed(c, r.id)
            /\ EndIteration(c)
  /\ UNCHANGED <<rules, clock, mu, todo, now, cancelled, notified>>

\* The listed row saved back without MarkTriggered, and marked with a later
\* reading of the clock than the signal's.
MarkWithRow(c, outcome, row) ==
  /\ pc[c] = "mark"
  /\ rules' = IF outcome = "failed" THEN rules ELSE Saved(row)
  /\ unmarked' = IF outcome = "failed" THEN unmarked \cup {row.id}
                                      ELSE unmarked \ {row.id}
  /\ report' = IF outcome = "ok" THEN report ELSE Failed(c, row.id)
  /\ Goto(c, "notify")
  /\ UNCHANGED <<signals, clock, mu, todo, cur, now, cancelled, notified>>
MarkUnmarked(c, outcome) == MarkWithRow(c, outcome, cur[c])
MarkAtSave(c, outcome) == MarkWithRow(c, outcome, MarkTriggered(cur[c], clock))

\* rules.Save(rule.MarkTriggered(now)): the whole listed row with a new mark.
\* An error is recorded and the iteration goes on.
Mark(c, outcome) == MarkWithRow(c, outcome, MarkTriggered(cur[c], now[c]))

\* The notifier is called; its error is only logged, and the signal is added
\* to the report.
Notify(c) ==
  LET s == [rule |-> cur[c].id, at |-> now[c]] IN
  /\ pc[c] = "notify"
  /\ notified' = notified \cup {s}
  /\ report' = [report EXCEPT ![c].created = @ \cup {s}]
  /\ EndIteration(c)
  /\ UNCHANGED <<storeVars, mu, todo, now, cancelled>>

\* The loop ends; Scan still holds the mutex.
Finish(c) ==
  /\ pc[c] = "loop"
  /\ todo[c] = {}
  /\ Goto(c, "done")
  /\ UNCHANGED <<storeVars, mu, todo, cur, now, cancelled, report, notified>>

\* Scan returns and its deferred Unlock runs.
Return(c) ==
  /\ pc[c] = "done"
  /\ mu' = FALSE
  /\ Goto(c, "idle")
  /\ now' = [now EXCEPT ![c] = 0]
  /\ cancelled' = [cancelled EXCEPT ![c] = FALSE]
  /\ report' = [report EXCEPT ![c] = EmptyReport]
  /\ UNCHANGED <<storeVars, todo, cur, notified>>

\* Every step a scan takes by itself.
ScanStep(c) ==
  \/ Ingest(c)
  \/ ListEnabled(c)
  \/ ReadClock(c)
  \/ \E r \in todo[c], market \in Markets : TakeRule(c, r, market)
  \/ Abort(c)
  \/ Quote(c)
  \/ \E outcome \in WriteOutcomes(cancelled[c]) :
       SaveSignal(c, outcome) \/ Mark(c, outcome)
  \/ Notify(c)
  \/ Finish(c)
  \/ Return(c)
=============================================================================
