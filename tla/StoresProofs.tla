---------------------------- MODULE StoresProofs ----------------------------
(***************************************************************************)
(* Both stores keep StoreContract, for every set of scans, pages, symbols, *)
(* owners and rows, and every limit.  That a list is whole does not depend *)
(* on what a read selects; that a history keeps its window does.           *)
(***************************************************************************)
EXTENDS Stores, FiniteSetTheorems, WellFoundedInduction, TLAPS

\* What a call holds in each phase: an open transaction has inserted part of
\* its batch, an open result set has given part of what the rows NOW hold.
CallShape(c) ==
  /\ pc[c] # "idle" => asked[c] \in Contract!Request
  /\ pc[c] \in {"idle", "wait"} => got[c] = {}
  /\ IF Holding(c) THEN durable ELSE left[c] = {}
  /\ pc[c] = "tx" => /\ asked[c].op = "saveAll"
                     /\ left[c] \cup got[c] = asked[c].rows
  /\ pc[c] = "rows" => /\ asked[c].op \in Contract!Reads
                       /\ left[c] \cup got[c] = Contract!Selected(durable, asked[c], rows)

AskedType == asked \in [Callers -> Contract!Request \cup {Contract!NoRequest}]

StoresInv == StoresTypeOK /\ AskedType /\ \A c \in Callers : CallShape(c)

-----------------------------------------------------------------------------
\* A read returns rows that are stored.
LEMMA SelectedIsStored ==
  ASSUME NEW cut, NEW q, NEW R PROVE Contract!Selected(cut, q, R) \subseteq R
BY DEF Contract!Selected, Contract!InWindow, Contract!Latest, Contract!Newest, Contract!Own

\* The rows of a write are rows.
LEMMA WritesRows ==
  ASSUME NEW q \in Contract!Request, q.op \in Contract!Writes
  PROVE  q.rows \subseteq Contract!Row
BY DEF Contract!Request, Contract!Writes

\* Requests that pass the checks before the store are requests of the contract.
LEMMA CallsAreRequests ==
  ASSUME NEW c \in Callers, clock \in Contract!Times,
         IngestSnapshots(c) \/ SaveSignal(c) \/ AskHistory(c) \/ AskSignals(c)
  PROVE  \E q \in Contract!Request : Call(c, q)
<1>1. CASE IngestSnapshots(c)
  BY <1>1 DEF IngestSnapshots, NewRows, Contract!SaveAll, Contract!Request, Contract!Row
<1>2. CASE SaveSignal(c)
  BY <1>2 DEF SaveSignal, NewRows, Contract!Save, Contract!Request, Contract!Row
<1>3. CASE AskHistory(c)
  <2>1. PICK k \in Symbols, w \in MinWindow .. MaxWindow : Call(c, Contract!History(k, clock - w))
    BY <1>3 DEF AskHistory
  <2>2. clock - w \in Int
    BY LimitsAssumption, BoundsAssumption DEF Contract!Times
  <2> QED
    BY <2>1, <2>2 DEF Contract!History, Contract!Request
<1>4. CASE AskSignals(c)
  <2>1. PICK k \in Owners, n \in 0 .. MaxLimit :
          Call(c, Contract!ListByOwner(k, IF n = 0 THEN DefaultLimit ELSE n))
    BY <1>4 DEF AskSignals
  <2>2. (IF n = 0 THEN DefaultLimit ELSE n) \in Nat
    BY LimitsAssumption
  <2> QED
    BY <2>1, <2>2 DEF Contract!ListByOwner, Contract!Request
<1> QED
  BY <1>1, <1>2, <1>3, <1>4

-----------------------------------------------------------------------------
\* The calls that a step of c does not touch keep their shape, unless rows
\* change under an open result set.
Untouched(d) ==
  /\ pc'[d] = pc[d] /\ asked'[d] = asked[d] /\ left'[d] = left[d] /\ got'[d] = got[d]
  /\ durable' = durable
  /\ rows' = rows \/ ~Holding(d)

LEMMA OthersKeepShape ==
  ASSUME NEW d \in Callers, CallShape(d), Untouched(d) PROVE CallShape(d)'
BY DEF CallShape, Untouched, Holding

\* Without a holder, or in memory, nobody has a result set or a transaction.
LEMMA NobodyHolds ==
  ASSUME StoresInv, NEW d \in Callers, conn = Nobody \/ ~durable
  PROVE  ~Holding(d)
BY NobodyAssumption DEF StoresInv, StoresTypeOK, CallShape

LEMMA HolderIsAlone ==
  ASSUME StoresInv, NEW c \in Callers, NEW d \in Callers, Holding(c), d # c
  PROVE  ~Holding(d) /\ conn = c
BY DEF StoresInv, StoresTypeOK

\* A call that ends gives its connection back.
LEMMA EndsKeeps ==
  ASSUME StoresInv, NEW c \in Callers, NEW s \in {"ok", "error"}, NEW G \in SUBSET Contract!Row,
         pc[c] # "idle", rows' \subseteq Contract!Row, Ends(c, s, G),
         rows' = rows \/ \A d \in Callers \ {c} : ~Holding(d)
  PROVE  StoresInv'
<1>1. StoresTypeOK'
  <2>1. \A d \in Callers : (conn' = d <=> Holding(d)')
    BY NobodyAssumption DEF StoresInv, StoresTypeOK, Ends, Holding
  <2> QED
    BY <2>1 DEF StoresInv, StoresTypeOK, Ends
<1>2. AskedType'
  BY DEF StoresInv, AskedType, Ends
<1>3. CallShape(c)'
  BY DEF StoresInv, StoresTypeOK, CallShape, Ends, Holding
<1>4. ASSUME NEW d \in Callers \ {c} PROVE CallShape(d)'
  <2>1. Untouched(d)
    BY DEF StoresInv, StoresTypeOK, Ends, Untouched
  <2> QED
    BY <2>1, OthersKeepShape DEF StoresInv
<1> QED
  BY <1>1, <1>2, <1>3, <1>4 DEF StoresInv

THEOREM StoresInvariance == StoresSpec => []StoresInv
<1>1. StoresInit => StoresInv
  BY NobodyAssumption, BoundsAssumption
  DEF StoresInit, StoresInv, StoresTypeOK, AskedType, CallShape, Holding, Contract!Times
<1>2. StoresInv /\ [StoresNext]_vars => StoresInv'
  <2> SUFFICES ASSUME StoresInv, [StoresNext]_vars PROVE StoresInv'
    OBVIOUS
  <2> USE DEF StoresInv
  <2>1. ASSUME NEW c \in Callers, NEW q \in Contract!Request, Call(c, q) PROVE StoresInv'
    <3>1. StoresTypeOK'
      BY <2>1 DEF StoresTypeOK, Call, Holding
    <3>2. AskedType'
      BY <2>1 DEF AskedType, Call
    <3>3. CallShape(c)'
      BY <2>1 DEF StoresTypeOK, AskedType, CallShape, Call, Holding
    <3>4. ASSUME NEW d \in Callers \ {c} PROVE CallShape(d)'
      BY <2>1, OthersKeepShape DEF StoresTypeOK, AskedType, Call, Untouched
    <3> QED
      BY <3>1, <3>2, <3>3, <3>4
  <2>2. ASSUME NEW c \in Callers, InMemory(c) PROVE StoresInv'
    <3>1. asked[c] \in Contract!Request /\ pc[c] # "idle"
      BY <2>2 DEF InMemory, CallShape
    <3>2. \A d \in Callers : ~Holding(d)
      BY <2>2, NobodyHolds DEF InMemory
    <3>3. CASE asked[c].op \in Contract!Writes
      BY <2>2, <3>1, <3>2, <3>3, WritesRows, EndsKeeps DEF InMemory, StoresTypeOK
    <3>4. CASE asked[c].op \notin Contract!Writes
      BY <2>2, <3>1, <3>4, SelectedIsStored, EndsKeeps DEF InMemory, StoresTypeOK
    <3> QED
      BY <3>3, <3>4
  <2>3. ASSUME NEW c \in Callers, Exec(c) PROVE StoresInv'
    <3>1. asked[c] \in Contract!Request /\ pc[c] # "idle" /\ asked[c].op \in Contract!Writes
      BY <2>3 DEF Exec, CallShape, Contract!Writes
    <3>2. \A d \in Callers : ~Holding(d)
      BY <2>3, NobodyHolds DEF Exec, Available
    <3> QED
      BY <2>3, <3>1, <3>2, WritesRows, EndsKeeps DEF Exec, StoresTypeOK
  <2>4. ASSUME NEW c \in Callers, Acquire(c) PROVE StoresInv'
    <3>1. asked[c] \in Contract!Request /\ pc[c] = "wait" /\ got[c] = {} /\ durable
      BY <2>4 DEF Acquire, CallShape
    <3>2. \A d \in Callers : ~Holding(d)
      BY <2>4, NobodyHolds DEF Acquire, Available
    <3>3. PICK s \in {"tx", "rows"}, R \in SUBSET Contract!Row :
            /\ Open(c, s, R)
            /\ s = "tx" => asked[c].op = "saveAll" /\ R = asked[c].rows
            /\ s = "rows" => /\ asked[c].op \in Contract!Reads
                             /\ R = Contract!Selected(durable, asked[c], rows)
      <4>1. CASE asked[c].op = "saveAll" /\ Open(c, "tx", asked[c].rows)
        BY <3>1, <4>1, WritesRows DEF Contract!Writes
      <4>2. CASE /\ asked[c].op \in Contract!Reads
                 /\ Open(c, "rows", Contract!Selected(durable, asked[c], rows))
        BY <4>2, SelectedIsStored DEF StoresTypeOK
      <4> QED
        BY <2>4, <4>1, <4>2 DEF Acquire
    <3>4. StoresTypeOK'
      BY <3>1, <3>2, <3>3, NobodyAssumption DEF StoresTypeOK, Open, Holding
    <3>5. AskedType'
      BY <3>3 DEF AskedType, Open
    <3>6. CallShape(c)'
      BY <3>1, <3>3 DEF StoresTypeOK, CallShape, Open, Holding
    <3>7. ASSUME NEW d \in Callers \ {c} PROVE CallShape(d)'
      BY <3>3, OthersKeepShape DEF StoresTypeOK, Open, Untouched
    <3> QED
      BY <3>4, <3>5, <3>6, <3>7
  <2>5. ASSUME NEW c \in Callers, NextRow(c) PROVE StoresInv'
    <3>1. StoresTypeOK'
      BY <2>5 DEF StoresTypeOK, NextRow, Holding
    <3>2. AskedType'
      BY <2>5 DEF AskedType, NextRow
    <3>3. CallShape(c)'
      BY <2>5 DEF StoresTypeOK, CallShape, NextRow, Holding
    <3>4. ASSUME NEW d \in Callers \ {c} PROVE CallShape(d)'
      BY <2>5, OthersKeepShape DEF StoresTypeOK, NextRow, Untouched
    <3> QED
      BY <3>1, <3>2, <3>3, <3>4
  <2>6. ASSUME NEW c \in Callers, Commit(c) PROVE StoresInv'
    <3>1. Holding(c) /\ pc[c] # "idle"
      BY <2>6 DEF Commit, Holding
    <3>2. \A d \in Callers \ {c} : ~Holding(d)
      BY <3>1, HolderIsAlone
    <3> QED
      BY <2>6, <3>1, <3>2, EndsKeeps DEF Commit, StoresTypeOK
  <2>7. ASSUME NEW c \in Callers, EndRows(c) PROVE StoresInv'
    BY <2>7, EndsKeeps DEF EndRows, StoresTypeOK
  <2>8. ASSUME NEW c \in Callers, Fail(c) PROVE StoresInv'
    BY <2>8, EndsKeeps DEF Fail, Fails, StoresTypeOK, Holding
  <2>9. ASSUME NEW c \in Callers, Cancel(c) PROVE StoresInv'
    <3>1. \A d \in Callers : Untouched(d)
      BY <2>9 DEF Cancel, Untouched
    <3>2. \A d \in Callers : CallShape(d)'
      BY <3>1, OthersKeepShape
    <3> QED
      BY <2>9, <3>2 DEF StoresTypeOK, AskedType, Cancel, Holding
  <2>10. ASSUME NEW c \in Callers, Return(c) PROVE StoresInv'
    <3>1. StoresTypeOK'
      BY <2>10 DEF StoresTypeOK, Return, Holding
    <3>2. AskedType'
      BY <2>10 DEF AskedType, Return
    <3>3. CallShape(c)'
      BY <2>10 DEF StoresTypeOK, CallShape, Return, Holding
    <3>4. ASSUME NEW d \in Callers \ {c} PROVE CallShape(d)'
      BY <2>10, OthersKeepShape DEF StoresTypeOK, AskedType, Return, Untouched
    <3> QED
      BY <3>1, <3>2, <3>3, <3>4
  <2>11. ASSUME Restart PROVE StoresInv'
    <3>1. StoresTypeOK'
      BY <2>11, NobodyAssumption DEF StoresTypeOK, Restart, Holding
    <3>2. AskedType'
      BY <2>11 DEF AskedType, Restart
    <3>3. \A d \in Callers : CallShape(d)'
      BY <2>11 DEF CallShape, Restart, Holding
    <3> QED
      BY <3>1, <3>2, <3>3
  <2>12. ASSUME Tick \/ UNCHANGED vars PROVE StoresInv'
    <3>1. \A d \in Callers : Untouched(d)
      BY <2>12 DEF Tick, vars, Untouched
    <3>2. \A d \in Callers : CallShape(d)'
      BY <3>1, OthersKeepShape
    <3>3. clock' \in Contract!Times
      BY <2>12, BoundsAssumption DEF StoresTypeOK, Tick, vars, Contract!Times
    <3> QED
      BY <2>12, <3>2, <3>3 DEF StoresTypeOK, AskedType, Tick, vars, Holding
  <2>13. ASSUME NEW c \in Callers,
                IngestSnapshots(c) \/ SaveSignal(c) \/ AskHistory(c) \/ AskSignals(c)
         PROVE  StoresInv'
    BY <2>1, <2>13, CallsAreRequests DEF StoresTypeOK
  <2> QED
    BY <2>2, <2>3, <2>4, <2>5, <2>6, <2>7, <2>8, <2>9, <2>10, <2>11, <2>12, <2>13
    DEF StoresNext, Progress, Callers
<1> QED
  BY <1>1, <1>2, PTL DEF StoresSpec

-----------------------------------------------------------------------------
\* The types, and the connection held exactly while a transaction or a result
\* set is open.
THEOREM StoresTypeCorrect == StoresSpec => []StoresTypeOK
BY StoresInvariance, PTL DEF StoresInv

\* What a caller of the contract sees of the calls: their states and answers.
States == [c \in Callers |-> Seen(c)]
Answers == [c \in Callers |-> IF pc[c] = "ok" THEN got[c] ELSE {}]

\* An end of the call of c is an end in the contract.
LEMMA EndsTells ==
  ASSUME StoresInv, NEW c \in Callers, NEW s \in {"ok", "error"}, NEW G,
         pc[c] \in {"wait", "tx", "rows"}, Ends(c, s, G)
  PROVE  /\ Contract!Told(c, s)
         /\ Answers' = [Answers EXCEPT ![c] = IF s = "ok" THEN G ELSE {}]
         /\ s = "error" \/ G = {} => UNCHANGED Answers
<1>1. \A d \in Callers : Seen(d)' = IF d = c THEN s ELSE Seen(d)
  BY DEF StoresInv, StoresTypeOK, Ends, Seen
<1>2. States' = [States EXCEPT ![c] = s]
  BY <1>1 DEF States
<1>3. Contract!Told(c, s)
  BY <1>2 DEF Contract!Told, States, Ends, Seen
<1>4. Answers' = [Answers EXCEPT ![c] = IF s = "ok" THEN G ELSE {}]
  BY DEF StoresInv, StoresTypeOK, Ends, Answers
<1>5. Answers[c] = {}
  BY DEF Answers
<1>6. s = "error" \/ G = {} => UNCHANGED Answers
  BY <1>4, <1>5 DEF Answers
<1> QED
  BY <1>3, <1>4, <1>6

LEMMA ContractStep ==
  StoresInv /\ [StoresNext]_vars => [Contract!ContractNext]_(Contract!contractVars)
<1> SUFFICES ASSUME StoresInv, [StoresNext]_vars
             PROVE  Contract!ContractNext \/ UNCHANGED <<durable, rows, asked, States, Answers>>
  BY DEF Contract!contractVars, States, Answers
<1>1. ASSUME NEW c \in Callers, NEW q \in Contract!Request, Call(c, q)
      PROVE  Contract!Ask(c)
  <2>1. \A d \in Callers : Seen(d)' = IF d = c THEN "asked" ELSE Seen(d)
    BY <1>1 DEF StoresInv, StoresTypeOK, Call, Seen
  <2>2. States' = [States EXCEPT ![c] = "asked"] /\ States[c] = "idle"
    BY <1>1, <2>1 DEF States, Call, Seen
  <2>3. UNCHANGED Answers
    BY <1>1 DEF StoresInv, StoresTypeOK, Call, Answers
  <2>4. asked'[c] = q /\ asked' = [asked EXCEPT ![c] = asked'[c]]
    BY <1>1 DEF StoresInv, AskedType, Call
  <2> QED
    BY <1>1, <2>2, <2>3, <2>4 DEF Contract!Ask, States, Answers, Call
<1>2. ASSUME NEW c \in Callers, NEW s \in {"ok", "error"}, pc[c] \in {"wait", "tx"},
             asked[c].op \in Contract!Writes, rows' = rows \cup asked[c].rows, Ends(c, s, {}),
             s = "ok" \/ asked[c].op = "save"
      PROVE  Contract!Write(c)
  <2>1. Contract!Told(c, s) /\ UNCHANGED Answers
    BY <1>2, EndsTells
  <2> QED
    BY <1>2, <2>1 DEF Contract!Write, Answers
<1>3. ASSUME NEW c \in Callers, pc[c] \in {"wait", "rows"}, asked[c].op \in Contract!Reads,
             UNCHANGED rows, Ends(c, "ok", Contract!Selected(durable, asked[c], rows))
      PROVE  Contract!Read(c)
  <2>1. /\ Contract!Told(c, "ok")
        /\ Answers' = [Answers EXCEPT ![c] = Contract!Selected(durable, asked[c], rows)]
    BY <1>3, EndsTells
  <2> QED
    BY <1>3, <2>1 DEF Contract!Read, Answers
<1>4. ASSUME NEW c \in Callers, InMemory(c) PROVE Contract!Write(c) \/ Contract!Read(c)
  <2>1. asked[c] \in Contract!Request /\ pc[c] = "wait"
    BY <1>4 DEF StoresInv, CallShape, InMemory
  <2>2. asked[c].op \in Contract!Writes \cup Contract!Reads
    BY <2>1 DEF Contract!Request, Contract!Writes, Contract!Reads
  <2> QED
    BY <1>2, <1>3, <1>4, <2>1, <2>2 DEF InMemory
<1>5. ASSUME NEW c \in Callers, Exec(c) PROVE Contract!Write(c)
  BY <1>2, <1>5 DEF Exec, Contract!Writes
<1>6. ASSUME NEW c \in Callers, Commit(c) PROVE Contract!Write(c)
  <2>1. asked[c].op = "saveAll" /\ got[c] = asked[c].rows
    BY <1>6 DEF StoresInv, CallShape, Commit
  <2> QED
    BY <1>2, <1>6, <2>1 DEF Commit, Contract!Writes
<1>7. ASSUME NEW c \in Callers, EndRows(c) PROVE Contract!Read(c)
  <2>1. asked[c].op \in Contract!Reads /\ got[c] = Contract!Selected(durable, asked[c], rows)
    BY <1>7 DEF StoresInv, CallShape, EndRows
  <2> QED
    BY <1>3, <1>7, <2>1 DEF EndRows
<1>8. ASSUME NEW c \in Callers, Fail(c) PROVE Contract!Refuse(c)
  <2>1. Contract!Told(c, "error") /\ UNCHANGED Answers
    BY <1>8, EndsTells DEF Fail, Fails, Holding
  <2> QED
    BY <1>8, <2>1 DEF Contract!Refuse, Fail, Answers
<1>9. ASSUME NEW c \in Callers, Return(c) PROVE Contract!Leave(c)
  <2>1. \A d \in Callers : Seen(d)' = IF d = c THEN "idle" ELSE Seen(d)
    BY <1>9 DEF StoresInv, StoresTypeOK, Return, Seen
  <2>2. States' = [States EXCEPT ![c] = "idle"] /\ States[c] \in {"ok", "error"}
    BY <1>9, <2>1 DEF States, Return, Seen
  <2>3. Answers' = [Answers EXCEPT ![c] = {}]
    BY <1>9 DEF StoresInv, StoresTypeOK, Return, Answers
  <2> QED
    BY <1>9, <2>2, <2>3 DEF Contract!Leave, Return, States, Answers
<1>10. ASSUME Restart PROVE Contract!Crash
  <2>1. States' = [c \in Callers |-> "idle"] /\ Answers' = [c \in Callers |-> {}]
    BY <1>10 DEF States, Answers, Restart, Seen
  <2> QED
    BY <1>10, <2>1 DEF Contract!Crash, Restart, States, Answers
<1>11. ASSUME NEW c \in Callers, Acquire(c) \/ NextRow(c) \/ Cancel(c)
       PROVE  UNCHANGED <<durable, rows, asked, States, Answers>>
  <2>1. /\ \A d \in Callers : Seen(d)' = Seen(d)
        /\ \A d \in Callers : pc'[d] = "ok" <=> pc[d] = "ok"
        /\ \A d \in Callers : pc[d] = "ok" => got'[d] = got[d]
    BY <1>11 DEF StoresInv, StoresTypeOK, Acquire, Open, NextRow, Holding, Cancel, Seen
  <2>2. UNCHANGED <<States, Answers>>
    BY <2>1 DEF States, Answers
  <2> QED
    BY <1>11, <2>2 DEF Acquire, Open, NextRow, Cancel
<1>12. ASSUME Tick \/ UNCHANGED vars PROVE UNCHANGED <<durable, rows, asked, States, Answers>>
  BY <1>12 DEF Tick, vars, States, Answers, Seen
<1>13. ASSUME NEW c \in Callers,
              IngestSnapshots(c) \/ SaveSignal(c) \/ AskHistory(c) \/ AskSignals(c)
       PROVE  Contract!Ask(c)
  BY <1>1, <1>13, CallsAreRequests DEF StoresInv, StoresTypeOK
<1> QED
  BY <1>4, <1>5, <1>6, <1>7, <1>8, <1>9, <1>10, <1>11, <1>12, <1>13
  DEF StoresNext, Progress, Callers, Contract!ContractNext

\* Both stores implement the contract: batches are whole, lists are whole and
\* of one moment, an error of anything but the save of a signal had no effect.
THEOREM StoresKeepContract == StoresSpec => ContractKept
<1>1. StoresInit => Contract!ContractInit
  BY DEF StoresInit, Contract!ContractInit, Seen
<1> QED
  BY <1>1, ContractStep, StoresInvariance, PTL
  DEF StoresSpec, ContractKept, Contract!ContractSpec

-----------------------------------------------------------------------------
\* Cutting to milliseconds takes less than one and keeps the order.
LEMMA Millis ==
  ASSUME NEW t \in Int
  PROVE  /\ t % Milli \in 0 .. Milli - 1
         /\ t \div Milli \in Int
         /\ t - (t % Milli) = Milli * (t \div Milli)
BY BoundsAssumption

LEMMA CutKeepsOrder ==
  ASSUME NEW s \in Int, NEW t \in Int, s <= t
  PROVE  s - (s % Milli) <= t - (t % Milli)
<1>1. s \div Milli <= t \div Milli
  <2>1. SUFFICES ASSUME s \div Milli >= t \div Milli + 1 PROVE FALSE
    BY Millis
  <2>2. Milli * (s \div Milli) >= Milli * (t \div Milli + 1)
    BY <2>1, Millis, BoundsAssumption
  <2>3. Milli * (t \div Milli + 1) = Milli * (t \div Milli) + Milli
    BY Millis, BoundsAssumption
  <2> QED
    BY <2>2, <2>3, Millis, BoundsAssumption
<1>2. Milli * (s \div Milli) <= Milli * (t \div Milli)
  BY <1>1, Millis, BoundsAssumption
<1> QED
  BY <1>2, Millis

LEMMA ColumnInWindow ==
  ASSUME NEW cut \in BOOLEAN, NEW since \in Int, NEW t \in Int
  PROVE  /\ t >= since => Contract!Column(cut, t) >= Contract!Column(cut, since)
         /\ Contract!Column(cut, t) >= Contract!Column(cut, since) =>
              t >= since \/ (cut /\ t > since - Milli)
<1>1. /\ t % Milli \in 0 .. Milli - 1 /\ since % Milli \in 0 .. Milli - 1
      /\ t >= since => t - (t % Milli) >= since - (since % Milli)
  BY Millis, CutKeepsOrder, BoundsAssumption
<1>2. CASE cut
  BY <1>1, <1>2, BoundsAssumption DEF Contract!Column
<1>3. CASE ~cut
  BY <1>3 DEF Contract!Column
<1> QED
  BY <1>2, <1>3

\* An answered read was given what the rows select at that moment.
LEMMA AnsweredBySelection ==
  ASSUME StoresInv, [StoresNext]_vars, NEW c \in Callers, NEW op \in Contract!Reads,
         Answered(c, op)
  PROVE  got'[c] = Contract!Selected(durable, asked[c], rows)
<1>1. CASE InMemory(c)
  BY <1>1 DEF StoresInv, StoresTypeOK, Answered, InMemory, Ends, Contract!Writes, Contract!Reads
<1>2. CASE EndRows(c)
  BY <1>2 DEF StoresInv, StoresTypeOK, CallShape, EndRows, Ends
<1>3. CASE Exec(c) \/ Commit(c)
  BY <1>3 DEF StoresInv, CallShape, Answered, Exec, Commit, Contract!Reads
<1>4. CASE Restart \/ Tick \/ UNCHANGED vars
  BY <1>4 DEF Answered, Restart, Tick, vars
<1>5. ASSUME NEW d \in Callers,
             IngestSnapshots(d) \/ SaveSignal(d) \/ AskHistory(d) \/ AskSignals(d)
      PROVE  FALSE
  BY <1>5, CallsAreRequests DEF StoresInv, StoresTypeOK, Answered, Call
<1>6. ASSUME NEW d \in Callers, Acquire(d) \/ NextRow(d) \/ Fail(d) \/ Cancel(d) \/ Return(d)
      PROVE  FALSE
  BY <1>6 DEF StoresInv, StoresTypeOK, Answered, Acquire, Open, NextRow, Fail, Ends, Cancel, Return
<1>7. ASSUME NEW d \in Callers \ {c}, InMemory(d) \/ Exec(d) \/ Commit(d) \/ EndRows(d)
      PROVE  FALSE
  BY <1>7 DEF StoresInv, StoresTypeOK, Answered, InMemory, Exec, Commit, EndRows, Ends
<1> QED
  BY <1>1, <1>2, <1>3, <1>4, <1>5, <1>6, <1>7 DEF StoresNext, Progress, Callers

\* Nothing of the window is missing, nothing is a millisecond too old, and in
\* memory nothing is too old at all.
THEOREM HistoriesAreRight == StoresSpec => HistoryRight
<1>1. ASSUME StoresInv, [StoresNext]_vars, NEW c \in Callers, Answered(c, "history")
      PROVE  /\ SeenSince(c) \subseteq got'[c]
             /\ \A r \in got'[c] \ SeenSince(c) : durable /\ r.seen > asked[c].since - Milli
  <2> DEFINE own == Contract!Own(rows, "snapshots", asked[c].key)
  <2>1. asked[c].since \in Int /\ durable \in BOOLEAN
    BY <1>1 DEF Answered, StoresInv, StoresTypeOK, AskedType, Contract!Request,
       Contract!NoRequest
  <2>2. got'[c] = {r \in own :
                     Contract!Column(durable, r.seen) >= Contract!Column(durable, asked[c].since)}
    <3>1. "history" \in Contract!Reads
      BY DEF Contract!Reads
    <3>2. got'[c] = Contract!Selected(durable, asked[c], rows)
      BY <1>1, <3>1, AnsweredBySelection
    <3> QED
      BY <1>1, <3>2 DEF Answered, Contract!Selected, Contract!InWindow
  <2>3. \A r \in own : r.seen \in Int
    BY <1>1, BoundsAssumption
    DEF StoresInv, StoresTypeOK, Contract!Own, Contract!Row, Contract!Snapshot,
        Contract!Signal, Contract!Times
  <2>4. SeenSince(c) = {r \in own : r.seen >= asked[c].since}
    BY DEF SeenSince
  <2> HIDE DEF own
  <2> QED
    BY <2>1, <2>2, <2>3, <2>4, ColumnInWindow
<1>2. StoresInv /\ [StoresNext]_vars =>
        [\A c \in Callers : Answered(c, "history") =>
           /\ SeenSince(c) \subseteq got'[c]
           /\ \A r \in got'[c] \ SeenSince(c) :
                durable /\ r.seen > asked[c].since - Milli]_vars
  BY <1>1
<1> QED
  BY <1>2, StoresInvariance, PTL DEF StoresSpec, HistoryRight

-----------------------------------------------------------------------------
\* The identities of rows.  ListRight counts rows, so it needs that no two of
\* an owner's signals have the same place in the order of a list, and that
\* there are finitely many.
Unique(R) == \A r, s \in R : r.id = s.id => r = s
Known == rows \cup Pending

LEMMA UniqueIsFinite ==
  ASSUME NEW R \in SUBSET Contract!Row, Unique(R)
  PROVE  IsFiniteSet(R)
<1> DEFINE f == [r \in R |-> r.id]
<1>1. \A r \in R : r.id \in RowIDs
  BY DEF Contract!Row, Contract!Snapshot, Contract!Signal
<1>2. f \in [R -> RowIDs]
  BY <1>1
<1>3. \A r, s \in R : f[r] = f[s] => r = s
  BY DEF Unique
<1>4. f \in Injection(R, RowIDs)
  BY <1>2, <1>3 DEF Injection, IsInjective
<1> QED
  BY <1>4, BoundsAssumption, FS_Injection

\* The rows of a new write have identities of their own.
LEMMA NewRowsAreFresh ==
  ASSUME NEW R, R \subseteq NewRows(Contract!Snapshot) \/ R \subseteq NewRows(Contract!Signal),
         Unique(R), Unique(Known)
  PROVE  Unique(Known \cup R)
<1>1. \A r \in R : \A s \in Known : r.id # s.id
  BY DEF NewRows, FreshIDs, Known
<1> QED
  BY <1>1 DEF Unique

LEMMA KnownInit == StoresInit => Unique(Known)
  BY DEF StoresInit, Unique, Known, Pending, Contract!NoRequest, Contract!Writes

LEMMA KnownStep == StoresInv /\ Unique(Known) /\ [StoresNext]_vars => Unique(Known)'
<1> SUFFICES ASSUME StoresInv, Unique(Known), [StoresNext]_vars PROVE Unique(Known')
  BY DEF Unique
<1>1. ASSUME Known' \subseteq Known PROVE Unique(Known')
  BY <1>1 DEF Unique
<1>2. ASSUME NEW c \in Callers, NEW R,
             rows' \subseteq rows,
             asked' = [asked EXCEPT ![c] = asked'[c]],
             asked'[c].op \in Contract!Writes => asked'[c].rows \subseteq R,
             Unique(Known \cup R)
      PROVE  Unique(Known')
  <2>1. Known' \subseteq Known \cup R
    BY <1>2 DEF Known, Pending, StoresInv, AskedType
  <2> QED
    BY <1>2, <2>1 DEF Unique
<1>3. ASSUME NEW c \in Callers, NEW q, Call(c, q)
      PROVE  rows' = rows /\ asked'[c] = q /\ asked' = [asked EXCEPT ![c] = asked'[c]]
  BY <1>3 DEF Call, StoresInv, AskedType
<1>4. ASSUME NEW c \in Callers, IngestSnapshots(c) PROVE Unique(Known')
  <2>1. PICK R \in SUBSET NewRows(Contract!Snapshot) :
             (\A r, s \in R : r.id = s.id => r = s) /\ Call(c, Contract!SaveAll(R))
    BY <1>4 DEF IngestSnapshots
  <2>2. Unique(Known \cup R)
    BY <2>1, NewRowsAreFresh DEF Unique
  <2> QED
    BY <1>2, <1>3, <2>1, <2>2 DEF Contract!SaveAll
<1>5. ASSUME NEW c \in Callers, SaveSignal(c) PROVE Unique(Known')
  <2>1. PICK r \in NewRows(Contract!Signal) : Call(c, Contract!Save(r))
    BY <1>5 DEF SaveSignal
  <2>2. Unique(Known \cup {r})
    <3>1. Unique({r}) /\ {r} \subseteq NewRows(Contract!Signal)
      BY <2>1 DEF Unique
    <3> QED
      BY <3>1, NewRowsAreFresh, Zenon
  <2> QED
    BY <1>2, <1>3, <2>1, <2>2 DEF Contract!Save
<1>6. ASSUME NEW c \in Callers, NEW q, q.op \notin Contract!Writes, Call(c, q)
      PROVE  Unique(Known')
  <2>1. Unique(Known \cup {})
    BY DEF Unique
  <2> QED
    BY <1>2, <1>3, <1>6, <2>1
<1>7. ASSUME NEW c \in Callers, AskHistory(c) \/ AskSignals(c) PROVE Unique(Known')
  BY <1>6, <1>7 DEF AskHistory, AskSignals, Contract!History, Contract!ListByOwner, Contract!Writes
<1>8. ASSUME NEW c \in Callers, rows' \subseteq rows \cup asked[c].rows,
             asked[c].op \in Contract!Writes, UNCHANGED asked
      PROVE  Unique(Known')
  <2>1. Known' \subseteq Known
    BY <1>8 DEF Known, Pending
  <2> QED
    BY <1>1, <2>1
<1>9. ASSUME rows' \subseteq rows, UNCHANGED asked PROVE Unique(Known')
  <2>1. Known' \subseteq Known
    BY <1>9 DEF Known, Pending
  <2> QED
    BY <1>1, <2>1
<1>10. ASSUME NEW c \in Callers, InMemory(c) PROVE Unique(Known')
  BY <1>8, <1>9, <1>10 DEF InMemory, Ends
<1>11. ASSUME NEW c \in Callers, Exec(c) PROVE Unique(Known')
  BY <1>8, <1>11 DEF Exec, Ends, Contract!Writes
<1>12. ASSUME NEW c \in Callers, Commit(c) PROVE Unique(Known')
  <2>1. asked[c].op = "saveAll" /\ got[c] = asked[c].rows
    BY <1>12 DEF StoresInv, CallShape, Commit
  <2> QED
    BY <1>8, <1>12, <2>1 DEF Commit, Ends, Contract!Writes
<1>13. ASSUME NEW c \in Callers,
              Acquire(c) \/ NextRow(c) \/ EndRows(c) \/ Fail(c) \/ Cancel(c)
       PROVE  Unique(Known')
  BY <1>9, <1>13 DEF Acquire, Open, NextRow, EndRows, Fail, Ends, Cancel
<1>14. ASSUME NEW c \in Callers, Return(c) PROVE Unique(Known')
  <2>1. asked'[c].op \notin Contract!Writes
    BY <1>14 DEF Return, StoresInv, AskedType, Contract!NoRequest, Contract!Writes
  <2>2. Unique(Known \cup {})
    BY DEF Unique
  <2>3. rows' \subseteq rows /\ asked' = [asked EXCEPT ![c] = asked'[c]]
    BY <1>14 DEF Return, StoresInv, AskedType
  <2> QED
    BY <1>2, <2>1, <2>2, <2>3
<1>15. ASSUME Restart PROVE Unique(Known')
  <2>1. Known' \subseteq Known
    BY <1>15 DEF Restart, Known, Pending, Contract!NoRequest, Contract!Writes
  <2> QED
    BY <1>1, <2>1
<1>16. ASSUME Tick \/ UNCHANGED vars PROVE Unique(Known')
  BY <1>9, <1>16 DEF Tick, vars
<1> QED
  BY <1>4, <1>5, <1>7, <1>10, <1>11, <1>12, <1>13, <1>14, <1>15, <1>16
  DEF StoresNext, Progress, Callers

LEMMA KnownInvariance == StoresSpec => []Unique(Known)
  BY KnownInit, KnownStep, StoresInvariance, PTL DEF StoresSpec

-----------------------------------------------------------------------------
\* The order of a list of signals: total and strict on rows whose identities
\* differ, so that the newest n are n, unless there are fewer.
LEMMA LeastNatural ==
  ASSUME NEW T \in SUBSET Nat, T # {}
  PROVE  \E x \in T : \A y \in T : x <= y
<1> DEFINE R == OpToRel(<, Nat)
<1>1. IsWellFoundedOn(R, Nat)
  BY NatLessThanWellFounded
<1> HIDE DEF R
<1>2. PICK x \in T : \A y \in T : ~ (<<y, x>> \in R)
  BY <1>1, WFMin
<1>3. \A y \in T : <<y, x>> \in R <=> y < x
  BY Zenon DEF R, OpToRel
<1>4. \A y \in T : ~ (y < x)
  BY <1>2, <1>3, Zenon
<1> QED
  BY <1>4

\* The contract's instance counts as this module does.
LEMMA SameCardinality == ASSUME NEW S PROVE Contract!Cardinality(S) = Cardinality(S)
  BY Zenon DEF Contract!Cardinality, Cardinality

LEMMA ColumnType ==
  ASSUME NEW cut \in BOOLEAN, NEW t \in Int
  PROVE  Contract!Column(cut, t) \in Int
  BY Millis, BoundsAssumption DEF Contract!Column

LEMMA RowNumbers ==
  ASSUME NEW r \in Contract!Row
  PROVE  r.seen \in Int /\ r.id \in Int
<1>1. Contract!Times \subseteq Int /\ RowIDs \subseteq Int
  BY BoundsAssumption DEF Contract!Times
<1>2. r.seen \in Contract!Times /\ r.id \in RowIDs
  BY DEF Contract!Row, Contract!Snapshot, Contract!Signal
<1> QED
  BY <1>1, <1>2

LEMMA NewerIsOrder ==
  ASSUME NEW cut \in BOOLEAN, NEW S \in SUBSET Contract!Row, Unique(S)
  PROVE  /\ \A x \in S : ~Contract!Newer(cut, x, x)
         /\ \A x, y, z \in S : Contract!Newer(cut, x, y) /\ Contract!Newer(cut, y, z) =>
                                 Contract!Newer(cut, x, z)
         /\ \A x, y \in S : x = y \/ Contract!Newer(cut, x, y) \/ Contract!Newer(cut, y, x)
<1> DEFINE K(r) == Contract!Column(cut, r.seen)
<1>1. \A r \in S : K(r) \in Int /\ r.id \in Int
  <2>1. \A r \in S : r.seen \in Int /\ r.id \in Int
    BY RowNumbers
  <2> QED
    BY <2>1, ColumnType
<1>2. \A x, y \in S : Contract!Newer(cut, x, y) <=> K(x) > K(y) \/ (K(x) = K(y) /\ x.id > y.id)
  BY DEF Contract!Newer
<1>3. \A x, y \in S : x.id = y.id => x = y
  BY DEF Unique
<1> HIDE DEF K
<1>4. ASSUME NEW x \in S PROVE ~Contract!Newer(cut, x, x)
  BY <1>1, <1>2
<1>5. ASSUME NEW x \in S, NEW y \in S, NEW z \in S,
             Contract!Newer(cut, x, y), Contract!Newer(cut, y, z)
      PROVE  Contract!Newer(cut, x, z)
  BY <1>1, <1>2, <1>5
<1>6. ASSUME NEW x \in S, NEW y \in S, x # y
      PROVE  Contract!Newer(cut, x, y) \/ Contract!Newer(cut, y, x)
  BY <1>1, <1>2, <1>3, <1>6
<1> QED
  BY <1>4, <1>5, <1>6

\* The number of newer rows grows from row to row.
LEMMA RankGrows ==
  ASSUME NEW cut \in BOOLEAN, NEW S \in SUBSET Contract!Row, Unique(S), IsFiniteSet(S)
  PROVE  LET rank(r) == Cardinality({x \in S : Contract!Newer(cut, x, r)})
         IN  /\ \A r \in S : rank(r) \in Nat
             /\ \A x, r \in S : Contract!Newer(cut, x, r) => rank(x) < rank(r)
<1> DEFINE A(r) == {x \in S : Contract!Newer(cut, x, r)}
<1>1. ASSUME NEW r PROVE IsFiniteSet(A(r)) /\ Cardinality(A(r)) \in Nat
  <2>1. A(r) \in SUBSET S
    OBVIOUS
  <2> QED
    BY <2>1, FS_Subset, FS_CardinalityType, Zenon
<1>2. ASSUME NEW x \in S, NEW r \in S, Contract!Newer(cut, x, r)
      PROVE  Cardinality(A(x)) < Cardinality(A(r))
  <2>1. A(x) \cup {x} \in SUBSET A(r) /\ x \notin A(x)
    BY <1>2, NewerIsOrder
  <2> HIDE DEF A
  <2>2. Cardinality(A(x) \cup {x}) = Cardinality(A(x)) + 1
    BY <1>1, <2>1, FS_AddElement
  <2>3. Cardinality(A(x) \cup {x}) <= Cardinality(A(r))
    BY <1>1, <2>1, FS_Subset, Zenon
  <2> QED
    BY <1>1, <2>2, <2>3
<1> QED
  BY <1>1, <1>2

LEMMA NewestAreRight ==
  ASSUME NEW cut \in BOOLEAN, NEW S \in SUBSET Contract!Row, Unique(S), IsFiniteSet(S),
         NEW n \in Nat
  PROVE  LET N == Contract!Newest(cut, S, n)
         IN  /\ N \subseteq S
             /\ N = S \/ Cardinality(N) = n
             /\ \A r \in N, x \in S \ N : ~Contract!Newer(cut, x, r)
<1> DEFINE A(r) == {x \in S : Contract!Newer(cut, x, r)}
           rank(r) == Cardinality(A(r))
           N == Contract!Newest(cut, S, n)
<1>1. N = {r \in S : rank(r) < n}
  <2>1. \A r \in S : Contract!Cardinality({x \in S : Contract!Newer(cut, x, r)}) = rank(r)
    BY SameCardinality
  <2> HIDE DEF rank
  <2> QED
    BY <2>1 DEF Contract!Newest
<1>2. /\ \A r \in S : rank(r) \in Nat
      /\ \A x, r \in S : x \in A(r) => rank(x) < rank(r)
  BY RankGrows
<1>3. \A x, r \in S : x = r \/ x \in A(r) \/ r \in A(x)
  BY NewerIsOrder
<1>4. \A r \in S : r \notin A(r)
  BY NewerIsOrder
<1>5. ASSUME NEW r \in S PROVE IsFiniteSet(A(r))
  <2>1. A(r) \in SUBSET S
    OBVIOUS
  <2> QED
    BY <2>1, FS_Subset, Zenon
<1>6. \A r \in S : A(r) \subseteq S /\ \A x \in S : Contract!Newer(cut, x, r) => x \in A(r)
  OBVIOUS
<1>7. \A r \in S : rank(r) = Cardinality(A(r))
  OBVIOUS
<1> HIDE DEF A, rank, N
<1>8. \A r \in N, x \in S \ N : x \notin A(r)
  BY <1>1, <1>2
<1>9. ASSUME N # S PROVE Cardinality(N) = n
  \* The newest of the rows left out.
  <2>1. PICK x \in S \ N : \A y \in S \ N : rank(x) <= rank(y)
    <3> DEFINE T == {rank(y) : y \in S \ N}
    <3>1. T \in SUBSET Nat /\ T # {}
      BY <1>1, <1>2, <1>9
    <3> HIDE DEF T
    <3>2. PICK k \in T : \A j \in T : k <= j
      BY <3>1, LeastNatural
    <3> QED
      BY <3>2 DEF T
  <2>2. N = A(x)
    <3>1. ASSUME NEW y \in A(x) PROVE y \in N
      <4>1. y \in S /\ rank(y) < rank(x) /\ rank(x) \in Nat /\ rank(y) \in Nat
        BY <1>2, <1>6, <2>1, <3>1
      <4> QED
        BY <2>1, <4>1
    <3>2. ASSUME NEW y \in N PROVE y \in A(x)
      BY <1>1, <1>3, <1>8, <2>1, <3>2
    <3> QED
      BY <3>1, <3>2
  <2>3. Cardinality(N) = rank(x) /\ rank(x) \in Nat /\ rank(x) >= n
    <3>1. x \in S /\ x \notin N
      BY <2>1
    <3>2. rank(x) \in Nat /\ ~(rank(x) < n)
      BY <1>1, <1>2, <3>1
    <3> QED
      BY <1>7, <2>2, <3>1, <3>2
  \* The oldest of those kept.
  <2>4. CASE N = {}
    BY <2>3, <2>4, FS_EmptySet
  <2>5. CASE N # {}
    <3>1. PICK r \in N : \A y \in N : rank(y) <= rank(r)
      <4> DEFINE T == {n - rank(y) : y \in N}
      <4>1. T \in SUBSET Nat /\ T # {}
        BY <1>1, <1>2, <2>5
      <4> HIDE DEF T
      <4>2. PICK k \in T : \A j \in T : k <= j
        BY <4>1, LeastNatural
      <4>3. PICK r \in N : k = n - rank(r)
        BY <4>2 DEF T
      <4>4. \A y \in N : n - rank(r) <= n - rank(y)
        BY <4>2, <4>3 DEF T
      <4>5. \A y \in N : rank(y) \in Nat
        BY <1>1, <1>2
      <4> QED
        BY <4>3, <4>4, <4>5
    <3>2. r \in S /\ rank(r) \in Nat /\ rank(r) < n
      BY <1>1, <1>2
    <3>3. N = A(r) \cup {r}
      <4>1. ASSUME NEW y \in N, y # r PROVE y \in A(r)
        <5>1. y \in S /\ rank(y) \in Nat /\ rank(y) <= rank(r)
          BY <1>1, <1>2, <3>1
        <5>2. r \notin A(y)
          BY <1>2, <3>2, <5>1
        <5> QED
          BY <1>3, <3>2, <4>1, <5>1, <5>2
      <4>2. ASSUME NEW y \in A(r) PROVE y \in N
        <5>1. y \in S /\ rank(y) \in Nat /\ rank(y) < rank(r)
          BY <1>2, <1>6, <3>2, <4>2
        <5> QED
          BY <1>1, <3>2, <5>1
      <4> QED
        BY <4>1, <4>2
    <3>4. Cardinality(N) = rank(r) + 1
      <4>1. Cardinality(A(r) \cup {r}) = Cardinality(A(r)) + 1
        BY <1>4, <1>5, <3>2, FS_AddElement, Zenon
      <4> QED
        BY <1>7, <3>2, <3>3, <4>1
    <3> QED
      BY <2>3, <3>2, <3>4
  <2> QED
    BY <2>4, <2>5
<1>10. N \subseteq S
  BY <1>1
<1>11. \A r \in N, x \in S \ N : ~Contract!Newer(cut, x, r)
  BY <1>6, <1>8, <1>10
<1> QED
  BY <1>9, <1>10, <1>11 DEF N

\* A row that is not newer by a stored millisecond was not seen a millisecond
\* later.
LEMMA NotNewerNotLater ==
  ASSUME NEW cut \in BOOLEAN, NEW x \in Contract!Row, NEW r \in Contract!Row,
         ~Contract!Newer(cut, x, r)
  PROVE  x.seen < r.seen + Milli
<1>1. x.seen \in Int /\ r.seen \in Int
  BY RowNumbers
<1>2. /\ Contract!Column(cut, x.seen) \in Int /\ Contract!Column(cut, r.seen) \in Int
      /\ ~(Contract!Column(cut, x.seen) > Contract!Column(cut, r.seen))
  BY <1>1, ColumnType DEF Contract!Newer
<1>3. /\ x.seen % Milli \in 0 .. Milli - 1 /\ r.seen % Milli \in 0 .. Milli - 1
  BY <1>1, Millis
<1> QED
  BY <1>1, <1>2, <1>3, BoundsAssumption DEF Contract!Column

\* A list holds the newest of the owner's signals, as many as the limit allows;
\* it leaves out none that was seen a millisecond after one it holds.
THEOREM ListsAreRight == StoresSpec => ListRight
<1> DEFINE Right(c) ==
             LET own == Contract!Own(rows, "signals", asked[c].key)
             IN  /\ got'[c] \subseteq own
                 /\ got'[c] = own \/ Cardinality(got'[c]) = asked[c].limit
                 /\ \A r \in got'[c], x \in own \ got'[c] : x.seen < r.seen + Milli
<1>1. ASSUME StoresInv, Unique(Known), [StoresNext]_vars, NEW c \in Callers, Answered(c, "list")
      PROVE  Right(c)
  <2> DEFINE own == Contract!Own(rows, "signals", asked[c].key)
             limit == asked[c].limit
  <2>1. limit \in Nat /\ durable \in BOOLEAN /\ asked[c].op = "list"
    BY <1>1 DEF Answered, StoresInv, StoresTypeOK, AskedType, Contract!Request, Contract!NoRequest
  <2>2. own \in SUBSET Contract!Row /\ Unique(own)
    BY <1>1 DEF StoresInv, StoresTypeOK, Unique, Known, Contract!Own
  <2>3. IsFiniteSet(own)
    BY <2>2, UniqueIsFinite, Zenon
  <2>4. got'[c] = Contract!Newest(durable, own, limit)
    <3>1. "list" \in Contract!Reads
      BY DEF Contract!Reads
    <3>2. got'[c] = Contract!Selected(durable, asked[c], rows)
      BY <1>1, <3>1, AnsweredBySelection
    <3> QED
      BY <2>1, <3>2 DEF Contract!Selected, Contract!Latest
  <2> HIDE DEF own, limit
  <2>5. /\ got'[c] \subseteq own
        /\ got'[c] = own \/ Cardinality(got'[c]) = limit
        /\ \A r \in got'[c], x \in own \ got'[c] : ~Contract!Newer(durable, x, r)
    BY <2>1, <2>2, <2>3, <2>4, NewestAreRight
  <2>6. \A r \in got'[c], x \in own \ got'[c] : x.seen < r.seen + Milli
    BY <2>1, <2>2, <2>5, NotNewerNotLater
  <2> QED
    BY <2>5, <2>6 DEF own, limit
<1> HIDE DEF Right
<1>2. StoresInv /\ Unique(Known) /\ [StoresNext]_vars =>
        [\A c \in Callers : Answered(c, "list") => Right(c)]_vars
  BY <1>1
<1>3. StoresSpec => [][\A c \in Callers : Answered(c, "list") => Right(c)]_vars
  BY <1>2, StoresInvariance, KnownInvariance, PTL DEF StoresSpec
<1> QED
  BY <1>3 DEF ListRight, Right
=============================================================================
