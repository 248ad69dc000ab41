------------------------------ MODULE PreMark ------------------------------
(***************************************************************************)
(* The running service: owners' requests, scans and the clock interleave   *)
(* over the shared stores, and the process may stop at any point and start *)
(* again (main.go).                                                        *)
(***************************************************************************)
EXTENDS RuleService, Evaluator

vars == <<rules, signals, unmarked, clock, req, command,
          mu, pc, todo, cur, now, cancelled, report, notified>>

TypeOK == StoreTypeOK /\ ServiceTypeOK /\ EvalTypeOK

Init == StoreInit /\ ServiceInit /\ EvalInit

\* Rules whose signal is stored and whose mark is about to be saved.
Pending == {cur[c].id : c \in {d \in Callers : pc[d] = "mark"}}

\* The process dies and is started again.  Goroutines and the mutex are gone;
\* SQLite keeps what was committed, the in-memory stores keep nothing.
Restart ==
  /\ mu' = FALSE
  /\ pc' = AllCallers("idle")
  /\ todo' = AllCallers({})
  /\ cur' = AllCallers(NoRule)
  /\ now' = AllCallers(0)
  /\ cancelled' = AllCallers(FALSE)
  /\ report' = AllCallers(EmptyReport)
  /\ req' = [q \in Reqs |-> NoReq]
  /\ IF Durable
       THEN /\ unmarked' = unmarked \cup Pending
            /\ UNCHANGED <<rules, signals, command>>
       ELSE /\ rules' = [id \in RuleIDs |-> NoRule]
            /\ signals' = <<>>
            /\ unmarked' = {}
            /\ command' = [id \in RuleIDs |-> "none"]
  /\ UNCHANGED <<clock, notified>>

ServiceStep ==
  \/ \E o \in Owners, id \in RuleIDs, outcome \in AppliedOutcomes :
       CreateRule(o, id, outcome)
  \/ \E q \in Reqs, o \in Owners, id \in RuleIDs :
       \/ \E b \in BOOLEAN : GetForPatch(q, o, id, b)
       \/ GetForDelete(q, o, id)
  \/ \E q \in Reqs, outcome \in AppliedOutcomes :
       SavePatch(q, outcome) \/ DeleteRow(q, outcome)
  \/ \E q \in Reqs : RequestFails(q)

Next ==
  \/ ServiceStep /\ UNCHANGED evalVars
  \/ \E c \in Callers :
       (TryLock(c) \/ Cancel(c) \/ ScanStep(c)) /\ UNCHANGED serviceVars
  \/ Tick /\ UNCHANGED <<serviceVars, evalVars>>
  \/ Restart

Spec == Init /\ [][Next]_vars

\* Only the scan's own steps are fair: its calls out end by their timeouts,
\* while requests, cancellations, restarts and the clock owe nobody a step.
FairSpec == Spec /\ \A c \in Callers :
                      WF_vars(ScanStep(c) /\ UNCHANGED serviceVars)
-----------------------------------------------------------------------------
(* What a correct service guarantees. *)

\* Copies of rules held by goroutines: they may be written back later.
ScanCopies(c) == todo[c] \cup (IF cur[c] = NoRule THEN {} ELSE {cur[c]})
HeldByScan(id) == \E c \in Callers : \E r \in ScanCopies(c) : r.id = id
HeldByRequest(id) == \E q \in Reqs : req[q] # NoReq /\ req[q].copy.id = id

\* Scanner.Scan: one scan at a time, and the mutex is held exactly while one
\* runs, so an error, a cancellation or a restart never leaves it locked.
OneScan ==
  /\ \A c, d \in Callers : pc[c] # "idle" /\ pc[d] # "idle" => c = d
  /\ mu <=> \E c \in Callers : pc[c] # "idle"

HasSignal(id, t) == \E i \in DOMAIN signals : signals[i].rule = id /\ signals[i].at = t

\* Evaluator saves the signal before the mark: a row that claims to have
\* triggered at a time has its signal of that time in the log, whichever
\* request or scan wrote the row and whatever was cancelled or restarted.
MarkHasSignal ==
  \A id \in RuleIDs : Exists(id) /\ rules[id].last # Never => HasSignal(id, rules[id].last)

\* LastTriggeredAt of the stored row is at or after every signal of the rule,
\* except while the scan is between the two saves and when a mark was lost to
\* one of the causes `unmarked` records: this is what the cooldown rests on.
Covered(id, t) == \A i \in DOMAIN signals : signals[i].rule = id => signals[i].at <= t

MarkCovers ==
  \A id \in RuleIDs :
    \/ id \in unmarked \cup Pending
    \/ ~Exists(id)
    \/ Covered(id, rules[id].last)

\* EvaluationReport: a rule counts in one list only, except that one whose
\* mark failed is both a failure and a signal; every signal reported is stored
\* and was handed to the notifier; a finished report accounts for every rule
\* it counts as evaluated.
CreatedIDs(c) == {s.rule : s \in report[c].created}
InFlight(c) == IF cur[c] = NoRule THEN {} ELSE {cur[c].id}

ReportAddsUp(c) ==
  /\ report[c].skipped \cap (report[c].failed \cup CreatedIDs(c)) = {}
  /\ report[c].failed \cap CreatedIDs(c) \subseteq unmarked \cup
        {id \in RuleIDs : cancelled[c]}
  /\ report[c].created \subseteq notified
  /\ \A s \in report[c].created : HasSignal(s.rule, s.at)
  /\ report[c].evaluated =
       report[c].skipped \cup report[c].failed \cup CreatedIDs(c) \cup InFlight(c)

ReportSound == \A c \in Callers : ReportAddsUp(c)

\* A rule that was listed is evaluated before the scan ends, unless its context
\* is cancelled: "one bad rule never blocks the others" (README, Testing).
Listed(c) ==
  report[c].evaluated \cup (IF pc[c] = "done" THEN {} ELSE {r.id : r \in todo[c]})
Running(c) == pc[c] \notin {"idle", "ingest", "list", "done"}
NoRuleLost ==
  [][\A c \in Callers :
       Running(c) /\ (Running(c)' \/ pc'[c] = "done") /\ ~cancelled'[c]
       => Listed(c)' = Listed(c)]_vars

\* A deleted rule that no goroutine holds a copy of never comes back.
Gone(id) == command[id] = "deleted" /\ ~Exists(id) /\ ~HeldByScan(id) /\ ~HeldByRequest(id)
GoneIsGone == [][\A id \in RuleIDs : Gone(id) => Gone(id)' \/ command'[id] = "none"]_vars

\* A rule that is disabled, and not in the hands of a scan, stays out of every
\* scan until a request of its owner enables it.
Quiet(id) == Exists(id) /\ ~rules[id].enabled /\ ~HeldByScan(id)
QuietUntilEnabled ==
  [][\A id \in RuleIDs : Quiet(id) /\ ~Quiet(id)' =>
       \/ rules'[id] = NoRule
       \/ \E q \in Reqs : req[q].op = "patch" /\ req[q].copy = rules'[id]
     ]_vars

\* Only a stored signal is announced.
AnnouncedIsStored ==
  [][\A s \in notified' \ notified : HasSignal(s.rule, s.at)]_vars

\* Every scan ends, whatever fails or is cancelled, so the mutex is not held
\* for ever and the next tick of the scheduler can scan.
ScanEnds == \A c \in Callers : pc[c] # "idle" ~> pc[c] = "idle"

\* The signal log, its marks and the cooldowns keep the promise of AlertLog.
Alerts == INSTANCE AlertLog WITH log <- signals, loose <- unmarked
AlertPromise == Alerts!AlertSpec
-----------------------------------------------------------------------------
(* What the documentation and the tests say of a rule, taken as invariants. *)

\* The tests of DeleteRule and SetRuleEnabled (rules_test.go): after a
\* successful delete the rule is not found, after a successful update the
\* stored rule has the flag that was asked for.
ConfirmedChangeStays ==
  \A id \in RuleIDs :
    Exists(id) => /\ command[id] # "deleted"
                  /\ command[id] = "off" => ~rules[id].enabled

\* The UI's text for `cooldown_active`: a rule is held back until its cooldown
\* has elapsed since its last triggered signal.
CooldownSinceLastSignal ==
  \A i, j \in DOMAIN signals :
    i < j /\ signals[i].rule = signals[j].rule
    => signals[j].at - signals[i].at >= Cooldown[signals[j].rule]
=============================================================================
