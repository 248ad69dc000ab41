------------------------------- MODULE Quotes -------------------------------
(***************************************************************************)
(* A live quote: jupiter.Client.QuoteBuy with the mint information it gets *)
(* from solanarpc.Client.  A quote asks Jupiter for a route, then needs    *)
(* the mint's ScaledUiAmount multiplier: from a cache, or from the chain   *)
(* through an RPC call of its own time limit.  Meanwhile time passes and   *)
(* the issuer of a token may announce a new multiplier.  Only the scan     *)
(* asks for quotes, so there is one at a time.                             *)
(*                                                                         *)
(* A multiplier is a member of a set; amounts are module Decision's.       *)
(***************************************************************************)
EXTENDS Integers

CONSTANTS
  Mints,      \* tokens with quotes
  Mults,      \* values of a multiplier; 1 is the default
  TTL,        \* solanarpc cacheTTL
  Timeout,    \* limit of one HTTP call
  MaxTime,    \* bound: the clock stops here
  NoEntry     \* no cache entry, no quote

ASSUME QuoteAssumption ==
  /\ 1 \in Mults /\ Mults \subseteq Nat
  /\ TTL \in Nat \ {0}   \* New replaces other values by 60 seconds
  /\ Timeout \in Nat
  /\ MaxTime \in Nat

Times == 0 .. MaxTime

\* The state of a scaledUiAmountConfig extension: newMultiplier holds from
\* newMultiplierEffectiveTimestamp on, multiplier before.
Config == [multiplier : Mults, newMultiplier : Mults, from : Times]

\* Fields of it an RPC answer may lack or hold in a form that does not parse.
Fields == {"multiplier", "newMultiplier", "from"}

Entry == [multiplier : Mults, cachedAt : Times, whole : BOOLEAN]
Quote == [multiplier : Mults, quotedAt : Times, whole : BOOLEAN]

ASSUME NoEntryAssumption == NoEntry \notin Entry \cup Quote

VARIABLES
  clock,   \* the wall clock
  chain,   \* the extension of each mint on the chain
  force,   \* history: the multiplier in force for a mint at each past time
  cache,   \* solanarpc.Client.cache
  at,      \* where the quote is
  mint,    \* whose quote it is, or was
  since,   \* when the call in progress was sent
  answer,  \* the RPC answer travelling: a config and its readable fields
  quote    \* the quote returned, until the next is asked for

quoteVars == <<clock, chain, force, cache, at, mint, since, answer, quote>>

Phases == {"idle", "route", "mintinfo", "rpc", "answered"}

Effective(c, t) == IF t >= c.from THEN c.newMultiplier ELSE c.multiplier

QuoteTypeOK ==
  /\ clock \in Times
  /\ chain \in [Mints -> Config]
  /\ force \in [Mints -> [Times -> Mults]]
  /\ cache \in [Mints -> Entry \cup {NoEntry}]
  /\ at \in Phases
  /\ mint \in Mints
  /\ since \in Times
  /\ answer \in [config : Config, fields : SUBSET Fields]
  /\ quote \in Quote \cup {NoEntry}

NoScaling == [multiplier |-> 1, newMultiplier |-> 1, from |-> 0]
NoReply == [config |-> NoScaling, fields |-> {}]

\* A mint without the extension has no readable fields, and its multiplier is 1.
QuoteInit ==
  /\ clock = 0
  /\ chain = [m \in Mints |-> NoScaling]
  /\ force = [m \in Mints |-> [t \in Times |-> 1]]
  /\ cache = [m \in Mints |-> NoEntry]
  /\ at = "idle"
  /\ mint \in Mints
  /\ since = 0
  /\ answer = NoReply
  /\ quote = NoEntry

\* QuoteBuy sends its request for a route.
Ask(m) ==
  /\ at = "idle"
  /\ at' = "route"
  /\ mint' = m
  /\ since' = clock
  /\ quote' = NoEntry
  /\ UNCHANGED <<clock, chain, force, cache, answer>>

\* Jupiter's answer is read, in time, and its amounts are valid numbers.
Routed ==
  /\ at = "route"
  /\ clock - since <= Timeout
  /\ at' = "mintinfo"
  /\ since' = clock
  /\ UNCHANGED <<clock, chain, force, cache, mint, answer, quote>>

\* QuoteBuy returns a quote in UI units, made with multiplier k, stamped now.
Quoted(k, whole) ==
  /\ quote' = [multiplier |-> k, quotedAt |-> clock, whole |-> whole]
  /\ at' = "idle"
  /\ since' = 0

Cached(m) ==
  /\ cache[m] # NoEntry
  /\ clock - cache[m].cachedAt < TTL

MintHit ==
  /\ at = "mintinfo"
  /\ Cached(mint)
  /\ Quoted(cache[mint].multiplier, cache[mint].whole)
  /\ UNCHANGED <<clock, chain, force, cache, mint, answer>>

MintMiss ==
  /\ at = "mintinfo"
  /\ ~Cached(mint)
  /\ at' = "rpc"
  /\ since' = clock
  /\ UNCHANGED <<clock, chain, force, cache, mint, answer, quote>>

\* The RPC node reads the account and answers.
Serve(fields) ==
  /\ at = "rpc"
  /\ answer' = [config |-> chain[mint], fields |-> fields]
  /\ at' = "answered"
  /\ UNCHANGED <<clock, chain, force, cache, mint, since, quote>>

\* An announced multiplier is taken whatever its time.
SelectAnnounced(a, t) ==
  IF "newMultiplier" \in a.fields THEN a.config.newMultiplier
  ELSE IF "multiplier" \in a.fields THEN a.config.multiplier
  ELSE 1

\* The multiplier MintInfo takes from an answer at time t: the new one if its
\* time is readable and has come and it can be read itself, else the old one,
\* else 1.
Select(a, t) ==
  IF {"from", "newMultiplier"} \subseteq a.fields /\ t >= a.config.from
    THEN a.config.newMultiplier
  ELSE IF "multiplier" \in a.fields THEN a.config.multiplier
  ELSE 1

\* The entry is stored with the time it expires.
MintInfoStoringExpiry ==
  /\ at = "answered"
  /\ clock - since <= Timeout
  /\ LET k == Select(answer, clock)
         whole == answer.fields = Fields
     IN  /\ cache' = [cache EXCEPT ![mint] = [multiplier |-> k, cachedAt |-> clock + TTL,
                                              whole |-> whole]]
         /\ Quoted(k, whole)
  /\ answer' = NoReply
  /\ UNCHANGED <<clock, chain, force, mint>>

\* The answer is decoded, in time, the entry stored, the quote returned.
MintInfo ==
  /\ at = "answered"
  /\ clock - since <= Timeout
  /\ LET k == Select(answer, clock)
         whole == answer.fields = Fields
     IN  /\ cache' = [cache EXCEPT ![mint] = [multiplier |-> k, cachedAt |-> clock,
                                              whole |-> whole]]
         /\ Quoted(k, whole)
  /\ answer' = NoReply
  /\ UNCHANGED <<clock, chain, force, mint>>

\* A failed call is made again, as often as it takes.
FailRetrying ==
  /\ at \in {"route", "rpc", "answered"}
  /\ at' = IF at = "answered" THEN "rpc" ELSE at
  /\ since' = clock
  /\ answer' = NoReply
  /\ UNCHANGED <<clock, chain, force, cache, mint, quote>>

\* A call fails or takes too long, an answer is not usable: QuoteBuy returns
\* ErrUpstream or ErrQuoteUnavailable.
Fail ==
  /\ at \in {"route", "rpc", "answered"}
  /\ at' = "idle"
  /\ since' = 0
  /\ answer' = NoReply
  /\ UNCHANGED <<clock, chain, force, cache, mint, quote>>

\* Bound: at MaxTime every timer has fired.
Expire == (clock - since >= Timeout \/ clock = MaxTime) /\ Fail

\* The issuer announces a multiplier for a later time.  An announcement is
\* not withdrawn before it takes effect.
Announce(m, k, t) ==
  /\ chain[m].from <= clock
  /\ t > clock
  /\ chain' = [chain EXCEPT ![m] = [multiplier |-> chain[m].newMultiplier,
                                    newMultiplier |-> k, from |-> t]]
  /\ UNCHANGED <<clock, force, cache, at, mint, since, answer, quote>>

Tick ==
  /\ clock < MaxTime
  /\ clock' = clock + 1
  /\ force' = [m \in Mints |-> [force[m] EXCEPT ![clock + 1] = Effective(chain[m], clock + 1)]]
  /\ UNCHANGED <<chain, cache, at, mint, since, answer, quote>>

QuoteNext ==
  \/ \E m \in Mints : Ask(m)
  \/ Routed
  \/ MintHit
  \/ MintMiss
  \/ \E fields \in SUBSET Fields : Serve(fields)
  \/ MintInfo
  \/ Fail
  \/ \E m \in Mints, k \in Mults, t \in Times : Announce(m, k, t)
  \/ Tick

QuoteSpec == QuoteInit /\ [][QuoteNext]_quoteVars

\* Time passes, timers fire and local steps are taken; nobody has to answer.
QuoteFairSpec ==
  /\ QuoteSpec
  /\ WF_quoteVars(Tick)
  /\ WF_quoteVars(Expire)
  /\ WF_quoteVars(MintHit \/ MintMiss)

-----------------------------------------------------------------------------
\* A quote made from a complete answer uses a multiplier that was in force for
\* its mint less than TTL + Timeout before the quote's timestamp, or during
\* the RPC call itself.
MultiplierRecent ==
  quote # NoEntry /\ quote.whole =>
    \E t \in Times :
      /\ t <= quote.quotedAt
      /\ quote.quotedAt - t <= Timeout \/ quote.quotedAt - t < TTL + Timeout
      /\ quote.multiplier = force[mint][t]

\* "ScaledUiAmount multiplier currently in effect" (jupiter/client.go): that of
\* a quote made from a complete answer is the one in force at its timestamp.
MultiplierInForce ==
  quote # NoEntry /\ quote.whole => quote.multiplier = force[mint][quote.quotedAt]

\* A quote ends, by an answer or by a timeout.
QuoteEnds == (at # "idle") ~> (at = "idle")
=============================================================================
