------------------------------- MODULE Stores -------------------------------
(***************************************************************************)
(* The snapshot and signal repositories.  In SQLite (`durable`) a call     *)
(* waits for the only connection of the pool (db.go), and SaveAll and the  *)
(* reads keep it over several steps: a transaction inserts row by row, a   *)
(* read fetches row by row.  Its context may be cancelled at any of them,  *)
(* and any of them may fail.  In memory a call holds a mutex throughout,   *)
(* is one step, and ignores its context.                                   *)
(*                                                                         *)
(* Callers are scans, which save, and HTTP requests, which read through    *)
(* MarketQuery.History and SignalQuery.ListSignals.                        *)
(***************************************************************************)
EXTENDS Integers, FiniteSets

CONSTANTS
  Symbols, Owners, RowIDs, MaxTime, Milli,   \* as in StoreContract
  Scans,                      \* goroutines that save
  Pages,                      \* goroutines that read
  Nobody,                     \* the connection is in the pool
  Windows,                    \* windows of history a client may ask for
  MinWindow, MaxWindow,       \* 1h and 168h
  Limits,                     \* limits a client may ask for
  DefaultLimit, MaxLimit      \* 20 and 100

Callers == Scans \cup Pages
ASSUME NobodyAssumption == Nobody \notin Callers
ASSUME BoundsAssumption == /\ Milli \in Nat \ {0} /\ MaxTime \in Nat
                           /\ RowIDs \subseteq Nat /\ IsFiniteSet(RowIDs)
ASSUME LimitsAssumption == /\ MinWindow \in Int /\ MaxWindow \in Int
                           /\ DefaultLimit \in Nat /\ MaxLimit \in Nat

VARIABLES
  durable,    \* TRUE: SQLite; FALSE: memory (config STORAGE)
  rows,       \* the committed rows
  conn,       \* who holds the connection
  pc,         \* "idle", "wait", "tx", "rows", then "ok" or "error"
  asked,      \* the request of each caller
  left,       \* rows still to insert, or still to fetch
  got,        \* rows inserted and not yet committed, or fetched
  cancelled,  \* the caller's context is cancelled
  clock

vars == <<durable, rows, conn, pc, asked, left, got, cancelled, clock>>

\* Where a caller of the contract sees itself.
Seen(c) == IF pc[c] \in {"wait", "tx", "rows"} THEN "asked" ELSE pc[c]
Contract == INSTANCE StoreContract WITH
  stored <- rows,
  state <- [c \in Callers |-> Seen(c)],
  answer <- [c \in Callers |-> IF pc[c] = "ok" THEN got[c] ELSE {}]

Holding(c) == pc[c] \in {"tx", "rows"}

\* The connection is held exactly while a transaction or a result set is open.
StoresTypeOK ==
  /\ durable \in BOOLEAN
  /\ rows \subseteq Contract!Row
  /\ conn \in Callers \cup {Nobody}
  /\ pc \in [Callers -> {"idle", "wait", "tx", "rows", "ok", "error"}]
  /\ left \in [Callers -> SUBSET Contract!Row]
  /\ got \in [Callers -> SUBSET Contract!Row]
  /\ cancelled \in [Callers -> BOOLEAN]
  /\ clock \in Contract!Times
  /\ \A c \in Callers : conn = c <=> Holding(c)

StoresInit ==
  /\ durable \in BOOLEAN
  /\ rows = {}
  /\ conn = Nobody
  /\ pc = [c \in Callers |-> "idle"]
  /\ asked = [c \in Callers |-> Contract!NoRequest]
  /\ left = [c \in Callers |-> {}]
  /\ got = [c \in Callers |-> {}]
  /\ cancelled = [c \in Callers |-> FALSE]
  /\ clock = 0

Pending == UNION {asked[c].rows : c \in {d \in Callers : asked[d].op \in Contract!Writes}}
FreshIDs == RowIDs \ {r.id : r \in rows \cup Pending}
NewRows(Table) == {r \in Table : r.id \in FreshIDs /\ r.seen = clock}

Call(c, q) ==
  /\ pc[c] = "idle"
  /\ pc' = [pc EXCEPT ![c] = "wait"]
  /\ asked' = [asked EXCEPT ![c] = q]
  /\ UNCHANGED <<durable, rows, conn, left, got, cancelled, clock>>

\* A scan saves the snapshots of one fetch, or one signal.  Nothing is done of
\* an empty list; a symbol may occur twice in a list.
IngestSnapshots(c) ==
  \E R \in SUBSET NewRows(Contract!Snapshot) :
    /\ R # {}
    /\ \A r, s \in R : r.id = s.id => r = s
    /\ Call(c, Contract!SaveAll(R))
SaveSignal(c) == \E r \in NewRows(Contract!Signal) : Call(c, Contract!Save(r))

\* The window counts from the clock before the wait for the connection.  A
\* request outside the limits is refused and reaches no store.
AskHistory(c) ==
  \E k \in Symbols, w \in Windows :
    /\ w \in MinWindow .. MaxWindow
    /\ Call(c, Contract!History(k, clock - w))
AskSignals(c) ==
  \E k \in Owners, n \in Limits :
    /\ n \in 0 .. MaxLimit
    /\ Call(c, Contract!ListByOwner(k, IF n = 0 THEN DefaultLimit ELSE n))

-----------------------------------------------------------------------------
\* The call of c ends with answer s and the rows G, and c gives its connection
\* back.
Ends(c, s, G) ==
  /\ pc' = [pc EXCEPT ![c] = s]
  /\ left' = [left EXCEPT ![c] = {}]
  /\ got' = [got EXCEPT ![c] = G]
  /\ conn' = IF conn = c THEN Nobody ELSE conn
  /\ UNCHANGED <<durable, asked, cancelled, clock>>

\* The pool never opens a second connection: db.SetMaxOpenConns(1).
AvailableAlways == TRUE
Available == conn = Nobody

\* One call in memory.
InMemory(c) ==
  /\ ~durable
  /\ pc[c] = "wait"
  /\ IF asked[c].op \in Contract!Writes
       THEN rows' = rows \cup asked[c].rows /\ Ends(c, "ok", {})
       ELSE UNCHANGED rows /\ Ends(c, "ok", Contract!Selected(durable, asked[c], rows))

\* Save of a signal is one statement.  When its context is cancelled while it
\* runs it may be applied and yet return an error.
Exec(c) ==
  /\ durable
  /\ pc[c] = "wait" /\ asked[c].op = "save"
  /\ Available
  /\ ~cancelled[c]
  /\ rows' = rows \cup asked[c].rows
  /\ \E s \in {"ok", "error"} : Ends(c, s, {})

\* BeginTx, or a query: the connection is taken from the pool.
Open(c, state, R) ==
  /\ pc' = [pc EXCEPT ![c] = state]
  /\ conn' = c
  /\ left' = [left EXCEPT ![c] = R]
  /\ UNCHANGED <<durable, rows, asked, got, cancelled, clock>>

Acquire(c) ==
  /\ durable
  /\ pc[c] = "wait"
  /\ Available
  /\ ~cancelled[c]
  /\ \/ asked[c].op = "saveAll" /\ Open(c, "tx", asked[c].rows)
     \/ /\ asked[c].op \in Contract!Reads
        /\ Open(c, "rows", Contract!Selected(durable, asked[c], rows))

\* One row more: inserted by a transaction whose context is not cancelled, or
\* fetched, possibly before a cancellation is noticed.
NextRow(c) ==
  /\ Holding(c)
  /\ pc[c] = "tx" => ~cancelled[c]
  /\ \E r \in left[c] :
       /\ left' = [left EXCEPT ![c] = @ \ {r}]
       /\ got' = [got EXCEPT ![c] = @ \cup {r}]
  /\ UNCHANGED <<durable, rows, conn, pc, asked, cancelled, clock>>

Commit(c) ==
  /\ pc[c] = "tx"
  /\ left[c] = {}
  /\ ~cancelled[c]
  /\ rows' = rows \cup got[c]
  /\ Ends(c, "ok", {})

\* The end of the rows.  A cancellation also ends the loop over them, and only
\* rows.Err() tells the two apart.
EndRowsErrIgnored(c) ==
  /\ pc[c] = "rows"
  /\ left[c] = {} \/ cancelled[c]
  /\ UNCHANGED rows
  /\ Ends(c, "ok", got[c])
EndRows(c) ==
  /\ pc[c] = "rows"
  /\ left[c] = {}
  /\ UNCHANGED rows
  /\ Ends(c, "ok", got[c])

\* The call fails: its context is cancelled, or a statement, the commit or
\* rows.Err() returns an error.  The deferred Rollback or Close gives the
\* connection back.
Fails(c) ==
  /\ durable
  /\ \/ Holding(c)
     \/ pc[c] = "wait" /\ (Available \/ cancelled[c])
FailWithoutClose(c) ==
  /\ Fails(c)
  /\ pc' = [pc EXCEPT ![c] = "error"]
  /\ UNCHANGED <<durable, rows, conn, asked, left, got, cancelled, clock>>
Fail(c) == Fails(c) /\ UNCHANGED rows /\ Ends(c, "error", {})

-----------------------------------------------------------------------------
Cancel(c) ==
  /\ pc[c] \in {"wait", "tx", "rows"}
  /\ cancelled' = [cancelled EXCEPT ![c] = TRUE]
  /\ UNCHANGED <<durable, rows, conn, pc, asked, left, got, clock>>

Return(c) ==
  /\ pc[c] \in {"ok", "error"}
  /\ pc' = [pc EXCEPT ![c] = "idle"]
  /\ asked' = [asked EXCEPT ![c] = Contract!NoRequest]
  /\ got' = [got EXCEPT ![c] = {}]
  /\ cancelled' = [cancelled EXCEPT ![c] = FALSE]
  /\ UNCHANGED <<durable, rows, conn, left, clock>>

\* The process dies and starts again: SQLite drops what was not committed.
Restart ==
  /\ rows' = IF durable THEN rows ELSE {}
  /\ conn' = Nobody
  /\ pc' = [c \in Callers |-> "idle"]
  /\ asked' = [c \in Callers |-> Contract!NoRequest]
  /\ left' = [c \in Callers |-> {}]
  /\ got' = [c \in Callers |-> {}]
  /\ cancelled' = [c \in Callers |-> FALSE]
  /\ UNCHANGED <<durable, clock>>

Tick ==
  /\ clock < MaxTime
  /\ clock' = clock + 1
  /\ UNCHANGED <<durable, rows, conn, pc, asked, left, got, cancelled>>

Progress(c) ==
  InMemory(c) \/ Exec(c) \/ Acquire(c) \/ NextRow(c) \/ Commit(c) \/ EndRows(c) \/ Fail(c)

StoresNext ==
  \/ \E c \in Scans : IngestSnapshots(c) \/ SaveSignal(c)
  \/ \E c \in Pages : AskHistory(c) \/ AskSignals(c)
  \/ \E c \in Callers : Progress(c) \/ Cancel(c) \/ Return(c)
  \/ Restart
  \/ Tick

StoresSpec == StoresInit /\ [][StoresNext]_vars

\* A statement ends, and the pool hands its connection to some waiting call at
\* random, so no call is passed over for ever.  Nothing else is fair.
FairStoresSpec == StoresSpec /\ \A c \in Callers : SF_vars(Progress(c))

-----------------------------------------------------------------------------
\* Both stores keep the contract: whatever is cancelled, fails or crashes, a
\* batch is stored whole or not at all, a list cut short is never returned as
\* if it were whole, and rows do not change under a reader.
ContractKept == Contract!ContractSpec

\* A read gave c its answer.
Answered(c, op) == pc[c] # "ok" /\ pc'[c] = "ok" /\ asked[c].op = op

\* The snapshots of c's history that are in its window in real time, not in
\* stored milliseconds.
SeenSince(c) ==
  {r \in Contract!Own(rows, "snapshots", asked[c].key) : r.seen >= asked[c].since}

\* A history misses nothing of its window.  Memory adds nothing to it; SQLite
\* compares milliseconds and may add what is less than one older.
HistoryRight ==
  [][\A c \in Callers : Answered(c, "history") =>
       /\ SeenSince(c) \subseteq got'[c]
       /\ \A r \in got'[c] \ SeenSince(c) : durable /\ r.seen > asked[c].since - Milli]_vars

\* "History returns snapshots for the symbol with ObservedAt >= since"
\* (outbound.go): it returns no older ones.
SinceKept ==
  [][\A c \in Callers : Answered(c, "history") => got'[c] \subseteq SeenSince(c)]_vars

\* A list of signals has as many of the owner's as the limit allows, and leaves
\* out none that is newer by a millisecond than one it has.
ListRight ==
  [][\A c \in Callers : Answered(c, "list") =>
       LET own == Contract!Own(rows, "signals", asked[c].key)
       IN  /\ got'[c] \subseteq own
           /\ got'[c] = own \/ Cardinality(got'[c]) = asked[c].limit
           /\ \A r \in got'[c], x \in own \ got'[c] : x.seen < r.seen + Milli]_vars

\* Every call to a store ends, although all wait for one connection: no
\* failure and no cancellation keeps it from the calls behind.
StoreCallEnds ==
  \A c \in Callers : pc[c] \in {"wait", "tx", "rows"} ~> pc[c] \notin {"wait", "tx", "rows"}
=============================================================================
