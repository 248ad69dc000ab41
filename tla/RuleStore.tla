----------------------------- MODULE RuleStore -----------------------------
(***************************************************************************)
(* The persistent state every other part works on: the rule table and the  *)
(* signal log of ports.RuleRepository and ports.SignalRepository, either   *)
(* in SQLite (Durable) or in memory.  One repository call is one step: the *)
(* memory store holds its RWMutex for the whole call, the SQLite store     *)
(* runs one statement on a pool of one connection.                         *)
(*                                                                         *)
(* A rule carries the fields the properties tell apart.  Its symbol,       *)
(* thresholds and budget only decide a check's verdict, which the          *)
(* Evaluator module chooses; its cooldown never changes after creation and *)
(* is the constant Cooldown.                                               *)
(***************************************************************************)
EXTENDS Integers, Sequences, FiniteSets

CONSTANTS
  RuleIDs,     \* identifiers the ID generator may hand out
  Owners,      \* values of the X-Owner-ID header
  Cooldown,    \* the cooldown each rule is created with, in clock units
  Durable,     \* TRUE: sqlitestore; FALSE: memstore
  NoRule,      \* "no row" in the rule table
  MaxTime,     \* bound: the clock stops here
  MaxSignals   \* bound: no quote triggers once this many signals are stored

ASSUME CooldownAssumption == Cooldown \in [RuleIDs -> Nat \ {0}]
ASSUME StorageAssumption == Durable \in BOOLEAN
ASSUME BoundsAssumption == MaxTime \in Nat /\ MaxSignals \in Nat

Never == -1   \* the zero time.Time of a rule that has not triggered
Times == 0 .. MaxTime

Rule == [id : RuleIDs, owner : Owners, enabled : BOOLEAN,
         last : Times \cup {Never}]

\* NoRule is not a row, so that "no row" can be told from every row.
ASSUME NoRuleAssumption == NoRule \notin Rule

\* `excused` is a history field: the rule's cooldown mark was known lost when
\* the signal was stored.
Signal == [rule : RuleIDs, at : Times, excused : BOOLEAN]

VARIABLES
  rules,     \* the rule table
  signals,   \* the signal log, oldest first
  unmarked,  \* history: rules whose stored LastTriggeredAt may be out of date
  clock      \* the wall clock

storeVars == <<rules, signals, unmarked, clock>>

StoreTypeOK ==
  /\ rules \in [RuleIDs -> Rule \cup {NoRule}]
  /\ signals \in Seq(Signal)
  /\ unmarked \in SUBSET RuleIDs
  /\ clock \in Times

StoreInit ==
  /\ rules = [id \in RuleIDs |-> NoRule]
  /\ signals = <<>>
  /\ unmarked = {}
  /\ clock = 0

Exists(id) == rules[id] # NoRule

\* Domain updates of a rule: each returns a whole new row.
NewRuleWithZeroMillis(id, o) ==
  [id |-> id, owner |-> o, enabled |-> TRUE, last |-> Never - 1]
NewRule(id, o) == [id |-> id, owner |-> o, enabled |-> TRUE, last |-> Never]
OwnedBy(r, o) == r.owner = o
WithEnabled(r, b) == [r EXCEPT !.enabled = b]
MarkTriggered(r, t) == [r EXCEPT !.last = t]

\* The table after Save(r), an upsert of the whole row by its ID.
Saved(r) == [rules EXCEPT ![r.id] = r]

\* The table after Delete(id).
Deleted(id) == [rules EXCEPT ![id] = NoRule]

\* What ListEnabled returns, as a set.
EveryRow == {rules[id] : id \in {i \in RuleIDs : Exists(i)}}
EnabledRows == {rules[id] : id \in {i \in RuleIDs : Exists(i) /\ rules[i].enabled}}

\* The signal log after Save of a new signal of rule `id` at time t.
WithSignal(id, t) ==
  Append(signals, [rule |-> id, at |-> t, excused |-> id \in unmarked])

\* How a write to the store can end.  A call whose context is already
\* cancelled fails in SQLite, and one cancelled while it runs may have been
\* applied although an error is returned; the memory store ignores the context
\* and cannot fail.
WriteOutcomes(cancelled) ==
  IF ~Durable THEN {"ok"}
  ELSE IF cancelled THEN {"failed", "applied"}
  ELSE {"ok", "failed"}

\* The outcomes with an effect, when the moment of a cancellation is not
\* modelled.
AppliedOutcomes == IF Durable THEN {"ok", "applied"} ELSE {"ok"}

Tick == /\ clock < MaxTime
        /\ clock' = clock + 1
        /\ UNCHANGED <<rules, signals, unmarked>>
=============================================================================
