----------------------------- MODULE MarketFeed -----------------------------
(***************************************************************************)
(* The market data client, prestocksapi.Client, shared by scans, rule      *)
(* creation and the token pages.  FetchAll looks at its cache under a      *)
(* mutex, releases it, asks the PreStocks API with a timeout, stamps the   *)
(* answer with the clock and stores it under the mutex again.  Concurrent  *)
(* calls that miss together all fetch, and store in any order.             *)
(*                                                                         *)
(* An answer is a list of snapshots, all stamped alike; the model keeps    *)
(* the moment the API read its prices, the stamp, and whether the list is  *)
(* empty (no entry with a valid symbol).                                   *)
(***************************************************************************)
EXTENDS Integers

CONSTANTS
  Clients,   \* concurrent callers of FetchAll
  TTL,       \* cacheTTL; 0 turns the cache off
  Timeout,   \* limit of one request to the API
  MaxTime,   \* bound: the clock stops here
  NoAnswer   \* "nothing", where an answer may be

ASSUME FeedAssumption == /\ TTL \in Nat
                         /\ Timeout \in Nat
                         /\ MaxTime \in Nat

Times == 0 .. MaxTime

Answer == [asOf : Times, observedAt : Times, empty : BOOLEAN]

ASSUME NoAnswerAssumption == NoAnswer \notin Answer

VARIABLES
  clock,     \* the wall clock
  cached,    \* Client.cached
  cachedAt,  \* Client.cachedAt
  at,        \* where each caller is in FetchAll
  since,     \* when its request was sent
  got,       \* the answer it received or is about to return
  given      \* history: when its answer was taken from the cache or the API

feedVars == <<clock, cached, cachedAt, at, since, got, given>>

Phases == {"idle", "waiting", "answered", "storing", "done", "failed"}

FeedTypeOK ==
  /\ clock \in Times
  /\ cached \in Answer \cup {NoAnswer}
  /\ cachedAt \in Times
  /\ at \in [Clients -> Phases]
  /\ since \in [Clients -> Times]
  /\ got \in [Clients -> Answer \cup {NoAnswer}]
  /\ given \in [Clients -> Times]

FeedInit ==
  /\ clock = 0
  /\ cached = NoAnswer
  /\ cachedAt = 0
  /\ at = [c \in Clients |-> "idle"]
  /\ since = [c \in Clients |-> 0]
  /\ got = [c \in Clients |-> NoAnswer]
  /\ given = [c \in Clients |-> 0]

\* The cache may be used: it is on, not empty, and younger than its TTL.
Usable ==
  /\ TTL > 0
  /\ cached # NoAnswer
  /\ ~cached.empty
  /\ clock - cachedAt < TTL

\* A cached answer is stamped again when it is used.
HitStamped(c) ==
  /\ at[c] = "idle"
  /\ Usable
  /\ got' = [got EXCEPT ![c] = [cached EXCEPT !.observedAt = clock]]
  /\ given' = [given EXCEPT ![c] = clock]
  /\ at' = [at EXCEPT ![c] = "done"]
  /\ UNCHANGED <<clock, cached, cachedAt, since>>

\* The caller gets a copy of the cached list.
Hit(c) ==
  /\ at[c] = "idle"
  /\ Usable
  /\ got' = [got EXCEPT ![c] = cached]
  /\ given' = [given EXCEPT ![c] = clock]
  /\ at' = [at EXCEPT ![c] = "done"]
  /\ UNCHANGED <<clock, cached, cachedAt, since>>

\* The request is sent.
Miss(c) ==
  /\ at[c] = "idle"
  /\ ~Usable
  /\ since' = [since EXCEPT ![c] = clock]
  /\ at' = [at EXCEPT ![c] = "waiting"]
  /\ UNCHANGED <<clock, cached, cachedAt, got, given>>

\* The API reads its prices and answers; the answer travels.
Serve(c, empty) ==
  /\ at[c] = "waiting"
  /\ got' = [got EXCEPT ![c] = [asOf |-> clock, observedAt |-> clock, empty |-> empty]]
  /\ at' = [at EXCEPT ![c] = "answered"]
  /\ UNCHANGED <<clock, cached, cachedAt, since, given>>

\* The body is read and decoded before the request's context ends, and every
\* snapshot is stamped with the clock.
Decode(c) ==
  /\ at[c] = "answered"
  /\ clock - since[c] <= Timeout
  /\ got' = [got EXCEPT ![c].observedAt = clock]
  /\ given' = [given EXCEPT ![c] = clock]
  /\ at' = [at EXCEPT ![c] = IF TTL > 0 THEN "storing" ELSE "done"]
  /\ UNCHANGED <<clock, cached, cachedAt, since>>

\* A failed request is sent again, as often as it takes.
FailRetrying(c) ==
  /\ at[c] \in {"waiting", "answered"}
  /\ got' = [got EXCEPT ![c] = NoAnswer]
  /\ since' = [since EXCEPT ![c] = clock]
  /\ at' = [at EXCEPT ![c] = "waiting"]
  /\ UNCHANGED <<clock, cached, cachedAt, given>>

\* No connection, a status other than 200, a body that is not the expected
\* JSON, the timeout, or the end of the caller's own context.
Fail(c) ==
  /\ at[c] \in {"waiting", "answered"}
  /\ got' = [got EXCEPT ![c] = NoAnswer]
  /\ at' = [at EXCEPT ![c] = "failed"]
  /\ UNCHANGED <<clock, cached, cachedAt, since, given>>

\* The timeout of the request fires.  Bound: at MaxTime every timer has fired.
Expire(c) == (clock - since[c] >= Timeout \/ clock = MaxTime) /\ Fail(c)

\* The cache is stamped when it is written.
StoreStampedLate(c) ==
  /\ at[c] = "storing"
  /\ cached' = got[c]
  /\ cachedAt' = clock
  /\ at' = [at EXCEPT ![c] = "done"]
  /\ UNCHANGED <<clock, since, got, given>>
Store(c) ==
  /\ at[c] = "storing"
  /\ cached' = got[c]
  /\ cachedAt' = got[c].observedAt
  /\ at' = [at EXCEPT ![c] = "done"]
  /\ UNCHANGED <<clock, since, got, given>>

\* FetchAll returns a copy of the answer, or ErrUpstream.
Return(c) ==
  /\ at[c] \in {"done", "failed"}
  /\ got' = [got EXCEPT ![c] = NoAnswer]
  /\ since' = [since EXCEPT ![c] = 0]
  /\ given' = [given EXCEPT ![c] = 0]
  /\ at' = [at EXCEPT ![c] = "idle"]
  /\ UNCHANGED <<clock, cached, cachedAt>>

Tick ==
  /\ clock < MaxTime
  /\ clock' = clock + 1
  /\ UNCHANGED <<cached, cachedAt, at, since, got, given>>

ClientStep(c) ==
  \/ Hit(c)
  \/ Miss(c)
  \/ \E empty \in BOOLEAN : Serve(c, empty)
  \/ Decode(c)
  \/ Fail(c)
  \/ Store(c)

FeedNext ==
  \/ \E c \in Clients : ClientStep(c) \/ Return(c)
  \/ Tick

FeedSpec == FeedInit /\ [][FeedNext]_feedVars

-----------------------------------------------------------------------------
\* However calls overlap and in whatever order they store, the prices a call
\* returns were read by the API less than TTL + Timeout before, and at most
\* Timeout before when the call fetched them itself.
AgeBounded ==
  \A c \in Clients :
    at[c] \in {"storing", "done"} =>
      LET age == given[c] - got[c].asOf
      IN  age <= Timeout \/ age < TTL + Timeout

\* A call ends even when the API never answers.
CallEnds == \A c \in Clients : (at[c] # "idle") ~> (at[c] = "idle")
=============================================================================
