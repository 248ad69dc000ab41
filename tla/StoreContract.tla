--------------------------- MODULE StoreContract ---------------------------
(***************************************************************************)
(* What the callers of ports.SnapshotRepository and ports.SignalRepository *)
(* may rely on, with no connection and no transaction: a write happens as  *)
(* a whole or not at all, an answer is what was stored at one moment, and  *)
(* an error means that nothing was stored.  Only the single statement that *)
(* saves a signal may have worked although its caller is told of an error. *)
(*                                                                         *)
(* A row is its table, its key (a snapshot's symbol, a signal's owner), an *)
(* identity and the moment it was seen; prices and texts are left out.     *)
(* Answers are sets: the order of a list is left out.                      *)
(***************************************************************************)
EXTENDS Integers, FiniteSets

CONSTANTS
  Callers,   \* goroutines that use the stores
  Symbols,   \* of snapshots
  Owners,    \* of signals
  RowIDs,    \* bound: identities of rows, numbers because signals sort by ID
  MaxTime,   \* bound: the clock stops here
  Milli      \* a millisecond in clock units

Times == 0 .. MaxTime
Snapshot == [table : {"snapshots"}, key : Symbols, id : RowIDs, seen : Times]
Signal == [table : {"signals"}, key : Owners, id : RowIDs, seen : Times]
Row == Snapshot \cup Signal

SaveAll(R) == [op |-> "saveAll", rows |-> R]
Save(r) == [op |-> "save", rows |-> {r}]
History(symbol, since) == [op |-> "history", key |-> symbol, since |-> since]
ListByOwner(owner, limit) == [op |-> "list", key |-> owner, limit |-> limit]
NoRequest == [op |-> "none"]

Request ==
  [op : {"saveAll", "save"}, rows : SUBSET Row]
    \cup [op : {"history"}, key : Symbols, since : Int]
    \cup [op : {"list"}, key : Owners, limit : Nat]

Writes == {"saveAll", "save"}
Reads == {"history", "list"}

VARIABLES
  durable,   \* TRUE: SQLite; FALSE: memory
  stored,    \* the rows of both tables
  asked,     \* the request of each caller
  state,     \* "idle", "asked", "ok" or "error"
  answer     \* the rows a caller was given

contractVars == <<durable, stored, asked, state, answer>>

\* Times are cut to milliseconds on their way into SQLite; memory keeps them.
Column(cut, t) == IF cut THEN t - (t % Milli) ELSE t

\* ORDER BY created_ms DESC, id DESC
Newer(cut, x, y) ==
  \/ Column(cut, x.seen) > Column(cut, y.seen)
  \/ Column(cut, x.seen) = Column(cut, y.seen) /\ x.id > y.id
Newest(cut, S, n) == {r \in S : Cardinality({x \in S : Newer(cut, x, r)}) < n}

Own(R, table, key) == {r \in R : r.table = table /\ r.key = key}

InWindowAfter(cut, R, symbol, since) ==
  {r \in Own(R, "snapshots", symbol) : Column(cut, r.seen) > Column(cut, since)}
InWindow(cut, R, symbol, since) ==
  {r \in Own(R, "snapshots", symbol) : Column(cut, r.seen) >= Column(cut, since)}

\* The limit is applied to the signals of all owners.
LatestOfAll(cut, R, owner, limit) ==
  Own(Newest(cut, {r \in R : r.table = "signals"}, limit), "signals", owner)
Latest(cut, R, owner, limit) == Newest(cut, Own(R, "signals", owner), limit)

\* What a read makes of the rows R.
Selected(cut, q, R) ==
  IF q.op = "history" THEN InWindow(cut, R, q.key, q.since)
                      ELSE Latest(cut, R, q.key, q.limit)

ContractInit ==
  /\ durable \in BOOLEAN
  /\ stored = {}
  /\ asked = [c \in Callers |-> NoRequest]
  /\ state = [c \in Callers |-> "idle"]
  /\ answer = [c \in Callers |-> {}]

Ask(c) ==
  /\ state[c] = "idle"
  /\ asked'[c] \in Request
  /\ asked' = [asked EXCEPT ![c] = asked'[c]]
  /\ state' = [state EXCEPT ![c] = "asked"]
  /\ UNCHANGED <<durable, stored, answer>>

\* The caller is told `s`; the rest of the step says what became of the rows.
Told(c, s) ==
  /\ state[c] = "asked"
  /\ state' = [state EXCEPT ![c] = s]
  /\ UNCHANGED <<durable, asked>>

Write(c) ==
  /\ asked[c].op \in Writes
  /\ stored' = stored \cup asked[c].rows
  /\ Told(c, "ok") \/ (Told(c, "error") /\ asked[c].op = "save")
  /\ UNCHANGED answer

Read(c) ==
  /\ asked[c].op \in Reads
  /\ answer' = [answer EXCEPT ![c] = Selected(durable, asked[c], stored)]
  /\ Told(c, "ok")
  /\ UNCHANGED stored

Refuse(c) == Told(c, "error") /\ UNCHANGED <<stored, answer>>

Leave(c) ==
  /\ state[c] \in {"ok", "error"}
  /\ asked' = [asked EXCEPT ![c] = NoRequest]
  /\ state' = [state EXCEPT ![c] = "idle"]
  /\ answer' = [answer EXCEPT ![c] = {}]
  /\ UNCHANGED <<durable, stored>>

Crash ==
  /\ stored' = IF durable THEN stored ELSE {}
  /\ asked' = [c \in Callers |-> NoRequest]
  /\ state' = [c \in Callers |-> "idle"]
  /\ answer' = [c \in Callers |-> {}]
  /\ UNCHANGED durable

ContractNext ==
  \/ \E c \in Callers : Ask(c) \/ Write(c) \/ Read(c) \/ Refuse(c) \/ Leave(c)
  \/ Crash

ContractSpec == ContractInit /\ [][ContractNext]_contractVars
=============================================================================
