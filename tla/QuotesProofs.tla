---------------------------- MODULE QuotesProofs ----------------------------
(***************************************************************************)
(* The quote provider and its mint cache, for any mints, multipliers,      *)
(* TTL and time limit: its types, and the age of the multiplier a quote    *)
(* is made with.                                                           *)
(*                                                                         *)
(* MultiplierRecent speaks of the quote alone.  To hold in every step it   *)
(* needs the same of the cache entries, and of the answer that travels:    *)
(* its config is still the chain's, or its new multiplier has been in      *)
(* force since the call was sent.                                          *)
(***************************************************************************)
EXTENDS Quotes, TLAPS

\* Multiplier k was in force for m at most `age` before t.
InForce(m, k, t, age) ==
  \E s \in Times : s <= t /\ t - s <= age /\ k = force[m][s]

\* The history knows what is in force now.
ForceNow == \A m \in Mints : force[m][clock] = Effective(chain[m], clock)

CacheTrue ==
  \A m \in Mints : cache[m] # NoEntry =>
    /\ cache[m].cachedAt <= clock
    /\ cache[m].whole => InForce(m, cache[m].multiplier, cache[m].cachedAt, Timeout)

AnswerTrue ==
  at = "answered" =>
    \/ chain[mint] = answer.config
    \/ /\ answer.config.from <= clock
       /\ \E s \in Times : /\ since <= s /\ s <= clock
                           /\ force[mint][s] = answer.config.newMultiplier

QuoteTrue == quote # NoEntry => quote.quotedAt <= clock

QuoteInv ==
  /\ QuoteTypeOK
  /\ since <= clock
  /\ ForceNow
  /\ CacheTrue
  /\ AnswerTrue
  /\ QuoteTrue
  /\ MultiplierRecent

\* Times and multipliers are numbers.
LEMMA NumbersType ==
  /\ Times \subseteq Nat /\ Mults \subseteq Nat /\ 0 \in Times
  /\ TTL \in Nat /\ TTL > 0 /\ Timeout \in Nat /\ MaxTime \in Nat
  BY QuoteAssumption DEF Times

\* The order of times, for the steps below.
LEMMA TimesOrder ==
  /\ \A s, t, u \in Times : s <= t /\ t <= u => s <= u
  /\ \A t \in Times : 0 <= t /\ t <= t /\ t - t <= Timeout
  /\ \A s, t \in Times : s <= t => s <= t + 1
  BY NumbersType

LEMMA NoScalingType == NoScaling \in Config /\ NoReply \in [config : Config, fields : SUBSET Fields]
  BY QuoteAssumption DEF NoScaling, NoReply, Config, Times

LEMMA SelectType ==
  ASSUME NEW a \in [config : Config, fields : SUBSET Fields], NEW t \in Times
  PROVE  /\ Select(a, t) \in Mults
         /\ a.fields = Fields => Select(a, t) = Effective(a.config, t)
  BY QuoteAssumption DEF Select, Effective, Config, Fields

LEMMA QuoteInitHolds == QuoteInit => QuoteInv
<1> SUFFICES ASSUME QuoteInit PROVE QuoteInv
  OBVIOUS
<1> USE NumbersType, NoScalingType
<1>1. QuoteTypeOK
  BY QuoteAssumption DEF QuoteInit, QuoteTypeOK, Phases
<1>2. ForceNow
  BY DEF QuoteInit, ForceNow, Effective, NoScaling
<1> QED
  BY <1>1, <1>2
  DEF QuoteInit, QuoteInv, CacheTrue, AnswerTrue, QuoteTrue, MultiplierRecent

\* A step that leaves the clock, the chain and the history alone keeps what was
\* in force.
LEMMA InForceKept ==
  ASSUME UNCHANGED force, NEW m, NEW k, NEW t, NEW age
  PROVE  InForce(m, k, t, age)' <=> InForce(m, k, t, age)
  BY DEF InForce

\* What the invariant says of a quote, stated with InForce.
LEMMA RecentFromForce ==
  ASSUME NEW k, NEW t \in Times, NEW c \in Times, InForce(mint, k, c, Timeout),
         c = t \/ (c <= t /\ t - c < TTL)
  PROVE  \E s \in Times : /\ s <= t
                          /\ t - s <= Timeout \/ t - s < TTL + Timeout
                          /\ k = force[mint][s]
<1>1. PICK s \in Times : s <= c /\ c - s <= Timeout /\ k = force[mint][s]
  BY DEF InForce
<1>2. s <= t /\ (t - s <= Timeout \/ t - s < TTL + Timeout)
  BY <1>1, NumbersType
<1> QED
  BY <1>1, <1>2

LEMMA QuoteStep == QuoteInv /\ [QuoteNext]_quoteVars => QuoteInv'
<1> SUFFICES ASSUME QuoteInv, [QuoteNext]_quoteVars PROVE QuoteInv'
  OBVIOUS
<1> USE NumbersType, NoEntryAssumption
<1>1. /\ clock \in Times /\ since \in Times /\ mint \in Mints /\ at \in Phases
      /\ answer \in [config : Config, fields : SUBSET Fields]
      /\ chain \in [Mints -> Config] /\ force \in [Mints -> [Times -> Mults]]
      /\ cache \in [Mints -> Entry \cup {NoEntry}] /\ quote \in Quote \cup {NoEntry}
  BY DEF QuoteInv, QuoteTypeOK
<1>2. /\ since <= clock /\ ForceNow /\ CacheTrue /\ AnswerTrue /\ QuoteTrue
      /\ MultiplierRecent
  BY DEF QuoteInv
\* Steps of the quote that keep the quote it has, or drop it.
<1>3. ASSUME UNCHANGED <<clock, chain, force, cache>>,
             quote' \in {quote, NoEntry}, quote' = NoEntry \/ UNCHANGED mint,
             at' \in Phases, mint' \in Mints, since' \in Times, since' <= clock,
             answer' \in [config : Config, fields : SUBSET Fields],
             at' = "answered" => chain[mint'] = answer'.config
      PROVE  QuoteInv'
  <2>1. QuoteTypeOK'
    BY <1>1, <1>3 DEF QuoteTypeOK
  <2>2. ForceNow' /\ AnswerTrue' /\ QuoteTrue'
    BY <1>2, <1>3 DEF ForceNow, AnswerTrue, QuoteTrue, Effective
  <2>3. CacheTrue'
    BY <1>2, <1>3, InForceKept DEF CacheTrue
  <2>4. MultiplierRecent'
    BY <1>2, <1>3 DEF MultiplierRecent
  <2> QED
    BY <1>3, <2>1, <2>2, <2>3, <2>4 DEF QuoteInv
<1>4. ASSUME NEW m \in Mints, Ask(m) PROVE QuoteInv'
  BY <1>1, <1>3, <1>4 DEF Ask, Phases
<1>5. ASSUME Routed PROVE QuoteInv'
  BY <1>1, <1>3, <1>5 DEF Routed, Phases
<1>6. ASSUME MintMiss PROVE QuoteInv'
  BY <1>1, <1>3, <1>6 DEF MintMiss, Phases
<1>7. ASSUME NEW fields \in SUBSET Fields, Serve(fields) PROVE QuoteInv'
  <2>1. answer' \in [config : Config, fields : SUBSET Fields] /\ answer'.config = chain[mint]
    BY <1>1, <1>7 DEF Serve
  <2> QED
    BY <1>1, <1>2, <1>3, <1>7, <2>1 DEF Serve, Phases
<1>8. ASSUME Fail PROVE QuoteInv'
  BY <1>1, <1>3, <1>8, NoScalingType DEF Fail, Phases
<1>9. ASSUME MintHit PROVE QuoteInv'
  <2> DEFINE e == cache[mint]
  <2>1. /\ e \in Entry /\ e.multiplier \in Mults /\ e.whole \in BOOLEAN /\ e.cachedAt \in Times
        /\ clock - e.cachedAt < TTL /\ e.cachedAt <= clock
        /\ e.whole => InForce(mint, e.multiplier, e.cachedAt, Timeout)
    BY <1>1, <1>2, <1>9 DEF MintHit, Cached, CacheTrue, Entry
  <2>2. /\ quote' = [multiplier |-> e.multiplier, quotedAt |-> clock, whole |-> e.whole]
        /\ at' = "idle" /\ since' = 0 /\ UNCHANGED <<clock, chain, force, cache, mint, answer>>
    BY <1>9 DEF MintHit, Quoted
  <2> HIDE DEF e
  <2>3. quote' \in Quote
    BY <1>1, <2>1, <2>2 DEF Quote
  <2>4. QuoteTypeOK'
    BY <1>1, <2>2, <2>3 DEF QuoteTypeOK, Phases
  <2>5. ForceNow' /\ AnswerTrue' /\ QuoteTrue' /\ since' <= clock'
    <3>1. quote'.quotedAt = clock
      BY <2>2
    <3>2. 0 <= clock /\ clock <= clock
      BY <1>1, TimesOrder
    <3>3. ForceNow'
      BY <1>2, <2>2 DEF ForceNow, Effective
    <3> QED
      BY <2>2, <3>1, <3>2, <3>3 DEF AnswerTrue, QuoteTrue
  <2>6. CacheTrue'
    BY <1>2, <2>2, InForceKept DEF CacheTrue
  <2>7. MultiplierRecent'
    <3> SUFFICES ASSUME e.whole
                 PROVE  \E s \in Times : /\ s <= clock
                                         /\ clock - s <= Timeout \/ clock - s < TTL + Timeout
                                         /\ e.multiplier = force[mint][s]
      BY <2>2 DEF MultiplierRecent
    <3> QED
      BY <1>1, <2>1, RecentFromForce
  <2> QED
    BY <2>4, <2>5, <2>6, <2>7 DEF QuoteInv
<1>10. ASSUME MintInfo PROVE QuoteInv'
  <2> DEFINE k == Select(answer, clock)
             whole == answer.fields = Fields
             e == [multiplier |-> k, cachedAt |-> clock, whole |-> whole]
             q == [multiplier |-> k, quotedAt |-> clock, whole |-> whole]
  <2>0. whole => k = Effective(answer.config, clock)
    BY <1>1, SelectType, Zenon
  <2>1. /\ k \in Mults
        /\ at = "answered" /\ clock - since <= Timeout
    BY <1>1, <1>10, SelectType DEF MintInfo
  <2>2. whole \in BOOLEAN
    BY Zenon
  <2>3. /\ cache' = [cache EXCEPT ![mint] = e] /\ quote' = q
        /\ at' = "idle" /\ since' = 0 /\ UNCHANGED <<clock, chain, force, mint>>
        /\ answer' = NoReply
    BY <1>10, Zenon DEF MintInfo, Quoted
  <2>4. /\ e.multiplier = k /\ e.cachedAt = clock /\ e.whole = whole
        /\ q.multiplier = k /\ q.quotedAt = clock /\ q.whole = whole
    BY Zenon
  <2>5. e \in Entry /\ q \in Quote
    <3> HIDE DEF k, whole
    <3> QED
      BY <1>1, <2>1, <2>2 DEF Entry, Quote
  <2>6. whole => InForce(mint, k, clock, Timeout)
    <3> SUFFICES ASSUME whole PROVE InForce(mint, k, clock, Timeout)
      OBVIOUS
    <3>1. k = Effective(answer.config, clock)
      BY <2>0, Zenon
    <3> HIDE DEF k, whole
    <3>2. CASE chain[mint] = answer.config
      <4>1. k = force[mint][clock]
        BY <1>1, <1>2, <3>1, <3>2 DEF ForceNow
      <4> QED
        BY <1>1, <4>1 DEF InForce
    <3>3. CASE chain[mint] # answer.config
      <4>1. PICK s \in Times : /\ since <= s /\ s <= clock
                               /\ force[mint][s] = answer.config.newMultiplier
        BY <1>2, <2>1, <3>3 DEF AnswerTrue
      <4>2. k = force[mint][s]
        BY <1>2, <2>1, <3>1, <3>3, <4>1 DEF AnswerTrue, Effective
      <4>3. clock - s <= Timeout
        BY <1>1, <2>1, <4>1
      <4> QED
        BY <4>1, <4>2, <4>3 DEF InForce
    <3> QED
      BY <3>2, <3>3
  <2> HIDE DEF k, whole, e, q
  <2>7. QuoteTypeOK'
    BY <1>1, <2>3, <2>5, NoScalingType DEF QuoteTypeOK, Phases
  <2>8. ForceNow' /\ AnswerTrue' /\ QuoteTrue' /\ since' <= clock'
    <3>1. quote'.quotedAt = clock
      BY <2>3, <2>4
    <3>2. 0 <= clock /\ clock <= clock
      BY <1>1, TimesOrder
    <3>3. ForceNow'
      BY <1>2, <2>3 DEF ForceNow, Effective
    <3> QED
      BY <2>3, <3>1, <3>2, <3>3 DEF AnswerTrue, QuoteTrue
  <2>9. CacheTrue'
    <3> SUFFICES ASSUME NEW m \in Mints, cache'[m] # NoEntry
                 PROVE  /\ cache'[m].cachedAt <= clock
                        /\ cache'[m].whole =>
                             InForce(m, cache'[m].multiplier, cache'[m].cachedAt, Timeout)
      BY <2>3 DEF CacheTrue, InForce
    <3>1. CASE m = mint
      <4>1. cache'[m] = e
        BY <1>1, <2>3, <3>1
      <4> QED
        BY <1>1, <2>4, <2>6, <3>1, <4>1, TimesOrder, Zenon
    <3>2. CASE m # mint
      <4>1. cache'[m] = cache[m]
        BY <1>1, <2>3, <3>2
      <4> QED
        BY <1>2, <4>1 DEF CacheTrue
    <3> QED
      BY <3>1, <3>2
  <2>10. MultiplierRecent'
    <3> SUFFICES ASSUME whole
                 PROVE  \E s \in Times : /\ s <= clock
                                         /\ clock - s <= Timeout \/ clock - s < TTL + Timeout
                                         /\ k = force[mint][s]
      BY <2>3, <2>4 DEF MultiplierRecent
    <3> QED
      BY <1>1, <2>6, RecentFromForce
  <2> QED
    BY <2>7, <2>8, <2>9, <2>10 DEF QuoteInv
<1>11. ASSUME NEW m \in Mints, NEW k \in Mults, NEW t \in Times, Announce(m, k, t)
       PROVE  QuoteInv'
  <2> DEFINE x == [multiplier |-> chain[m].newMultiplier, newMultiplier |-> k, from |-> t]
  <2>1. /\ chain' = [chain EXCEPT ![m] = x] /\ chain[m].from <= clock /\ t > clock
        /\ UNCHANGED <<clock, force, cache, at, mint, since, answer, quote>>
    BY <1>11 DEF Announce
  <2>2. x \in Config /\ x.multiplier = chain[m].newMultiplier /\ x.from = t
    BY <1>1 DEF Config
  <2> HIDE DEF x
  <2>3. QuoteTypeOK'
    BY <1>1, <2>1, <2>2 DEF QuoteTypeOK
  <2>4. force[m][clock] = chain[m].newMultiplier
    BY <1>2, <2>1 DEF ForceNow, Effective
  <2>5. ForceNow'
    <3>1. ASSUME NEW n \in Mints PROVE force[n][clock] = Effective(chain'[n], clock)
      <4>1. CASE n = m
        BY <1>1, <2>1, <2>2, <2>4, <4>1 DEF Effective
      <4>2. CASE n # m
        BY <1>1, <1>2, <2>1, <4>2 DEF ForceNow
      <4> QED
        BY <4>1, <4>2
    <3> QED
      BY <2>1, <3>1 DEF ForceNow, Effective
  <2>6. AnswerTrue'
    BY <1>1, <1>2, <2>1, <2>4 DEF AnswerTrue
  <2>7. CacheTrue' /\ QuoteTrue' /\ MultiplierRecent'
    BY <1>2, <2>1, InForceKept DEF CacheTrue, QuoteTrue, MultiplierRecent
  <2> QED
    BY <1>2, <2>1, <2>3, <2>5, <2>6, <2>7 DEF QuoteInv
<1>12. ASSUME Tick PROVE QuoteInv'
  <2>1. /\ clock' = clock + 1 /\ clock' \in Times
        /\ UNCHANGED <<chain, cache, at, mint, since, answer, quote>>
    BY <1>1, <1>12 DEF Tick, Times
  <2>2. force' = [m \in Mints |->
                    [force[m] EXCEPT ![clock'] = Effective(chain[m], clock')]]
    BY <1>12 DEF Tick
  <2>3. \A m \in Mints : Effective(chain[m], clock') \in Mults
    BY <1>1 DEF Effective, Config
  <2>4. \A m \in Mints : /\ force'[m] \in [Times -> Mults]
                         /\ force'[m][clock'] = Effective(chain[m], clock')
                         /\ \A s \in Times : s <= clock => force'[m][s] = force[m][s]
    BY <1>1, <2>1, <2>2, <2>3
  <2>5. QuoteTypeOK'
    BY <1>1, <2>1, <2>2, <2>4 DEF QuoteTypeOK
  <2>6. ForceNow'
    BY <2>1, <2>4 DEF ForceNow, Effective
  <2>7. CacheTrue'
    <3> SUFFICES ASSUME NEW m \in Mints, cache[m] # NoEntry
                 PROVE  /\ cache[m].cachedAt <= clock'
                        /\ cache[m].whole =>
                             \E s \in Times : /\ s <= cache[m].cachedAt
                                              /\ cache[m].cachedAt - s <= Timeout
                                              /\ cache[m].multiplier = force'[m][s]
      BY <2>1 DEF CacheTrue, InForce
    <3>1. cache[m].cachedAt \in Times /\ cache[m].cachedAt <= clock
      BY <1>1, <1>2 DEF CacheTrue, Entry
    <3>2. ASSUME cache[m].whole
          PROVE  \E s \in Times : /\ s <= cache[m].cachedAt
                                  /\ cache[m].cachedAt - s <= Timeout
                                  /\ cache[m].multiplier = force'[m][s]
      <4>1. PICK s \in Times : /\ s <= cache[m].cachedAt
                               /\ cache[m].cachedAt - s <= Timeout
                               /\ cache[m].multiplier = force[m][s]
        BY <1>2, <3>2 DEF CacheTrue, InForce
      <4>2. force'[m][s] = force[m][s]
        <5>1. s <= clock
          <6>1. clock \in Times
            BY <1>1
          <6>2. s <= cache[m].cachedAt
            BY <4>1
          <6> HIDE NumbersType, NoEntryAssumption
          <6> QED
            BY <3>1, <6>1, <6>2, TimesOrder, Zenon
        <5> QED
          BY <2>4, <5>1, Zenon
      <4> QED
        BY <4>1, <4>2
    <3> QED
      <4>1. cache[m].cachedAt <= clock'
        BY <1>1, <2>1, <3>1, TimesOrder, Zenon
      <4> QED
        BY <3>2, <4>1, Zenon
  <2>8. AnswerTrue'
    <3> SUFFICES ASSUME at = "answered", chain[mint] # answer.config
                 PROVE  /\ answer.config.from <= clock'
                        /\ \E s \in Times : /\ since <= s /\ s <= clock'
                                            /\ force'[mint][s] = answer.config.newMultiplier
      BY <2>1 DEF AnswerTrue
    <3>1. PICK s \in Times : /\ since <= s /\ s <= clock
                             /\ force[mint][s] = answer.config.newMultiplier
      BY <1>2 DEF AnswerTrue
    <3>2. force'[mint][s] = force[mint][s] /\ s <= clock'
      BY <1>1, <2>1, <2>4, <3>1, TimesOrder, Zenon
    <3>3. answer.config.from \in Times /\ answer.config.from <= clock
      BY <1>1, <1>2 DEF AnswerTrue, Config
    <3>4. answer.config.from <= clock'
      BY <1>1, <2>1, <3>3, TimesOrder, Zenon
    <3> QED
      BY <3>1, <3>2, <3>4
  <2>9. QuoteTrue' /\ since' <= clock'
    <3>1. since' <= clock'
      BY <1>1, <1>2, <2>1, TimesOrder
    <3>2. ASSUME quote # NoEntry PROVE quote.quotedAt <= clock'
      <4>1. quote.quotedAt \in Times /\ quote.quotedAt <= clock
        BY <1>1, <1>2, <3>2 DEF QuoteTrue, Quote
      <4> QED
        BY <1>1, <2>1, <4>1, TimesOrder
    <3> QED
      BY <2>1, <3>1, <3>2 DEF QuoteTrue
  <2>10. MultiplierRecent'
    <3> SUFFICES ASSUME quote # NoEntry, quote.whole
                 PROVE  \E s \in Times :
                          /\ s <= quote.quotedAt
                          /\ quote.quotedAt - s <= Timeout \/ quote.quotedAt - s < TTL + Timeout
                          /\ quote.multiplier = force'[mint][s]
      BY <2>1 DEF MultiplierRecent
    <3>1. PICK s \in Times :
                 /\ s <= quote.quotedAt
                 /\ quote.quotedAt - s <= Timeout \/ quote.quotedAt - s < TTL + Timeout
                 /\ quote.multiplier = force[mint][s]
      BY <1>2 DEF MultiplierRecent
    <3>2. quote.quotedAt \in Times /\ quote.quotedAt <= clock
      BY <1>1, <1>2 DEF QuoteTrue, Quote
    <3>3. force'[mint][s] = force[mint][s]
      <4>1. s <= clock
        BY <1>1, <3>1, <3>2, TimesOrder, Zenon
      <4> QED
        BY <1>1, <2>4, <4>1, Zenon
    <3> QED
      BY <3>1, <3>3
  <2> QED
    BY <2>5, <2>6, <2>7, <2>8, <2>9, <2>10 DEF QuoteInv
<1>13. CASE UNCHANGED quoteVars
  <2>1. QuoteTypeOK' /\ since' <= clock' /\ ForceNow' /\ QuoteTrue'
    BY <1>1, <1>2, <1>13 DEF quoteVars, QuoteTypeOK, ForceNow, QuoteTrue, Effective
  <2>2. CacheTrue' /\ AnswerTrue' /\ MultiplierRecent'
    BY <1>2, <1>13, InForceKept DEF quoteVars, CacheTrue, AnswerTrue, MultiplierRecent
  <2> QED
    BY <2>1, <2>2 DEF QuoteInv
<1> QED
  BY <1>4, <1>5, <1>6, <1>7, <1>8, <1>9, <1>10, <1>11, <1>12, <1>13 DEF QuoteNext

LEMMA QuoteInvariance == QuoteSpec => []QuoteInv
  BY QuoteInitHolds, QuoteStep, PTL DEF QuoteSpec

\* The quote's phases, its cache and the chain keep their types.
THEOREM QuoteTypeCorrect == QuoteSpec => []QuoteTypeOK
<1>1. QuoteInv => QuoteTypeOK
  BY DEF QuoteInv
<1> QED
  BY <1>1, QuoteInvariance, PTL

\* A quote never uses a multiplier that went out of force longer ago than the
\* cache and one RPC call allow, whatever the issuer announces meanwhile.
THEOREM MultipliersAreRecent == QuoteSpec => []MultiplierRecent
<1>1. QuoteInv => MultiplierRecent
  BY DEF QuoteInv
<1> QED
  BY <1>1, QuoteInvariance, PTL
=============================================================================
