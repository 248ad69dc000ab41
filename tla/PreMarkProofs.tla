--------------------------- MODULE PreMarkProofs ---------------------------
(***************************************************************************)
(* Theorems about PreMark for every set of rules, owners, callers and      *)
(* requests, every cooldown and both stores.  IInv is the inductive        *)
(* invariant they all follow from.                                         *)
(***************************************************************************)
EXTENDS PreMark, TLAPS

Evaluating == {"quote", "save", "mark", "notify"}
Looping == Evaluating \cup {"loop"}

\* A row is stored under its own ID.
RowKeys == \A id \in RuleIDs : Exists(id) => rules[id].id = id

\* The mark a row or a copy carries is the time of a stored signal.
Backed(r) == r.last # Never => HasSignal(r.id, r.last)

MarksBacked ==
  /\ \A id \in RuleIDs : Exists(id) => Backed(rules[id])
  /\ \A q \in Reqs : req[q] # NoReq => Backed(req[q].copy)
  /\ \A c \in Callers : \A r \in todo[c] : Backed(r)
  /\ \A c \in Callers : cur[c] # NoRule => Backed(cur[c])

\* An ID is in use before a row, a copy or a signal bears it.
Used(id) == command[id] # "none"

IDsUsed ==
  /\ \A id \in RuleIDs : Exists(id) => Used(id)
  /\ \A i \in DOMAIN signals : Used(signals[i].rule)
  /\ \A q \in Reqs : req[q] # NoReq => Used(req[q].copy.id)
  /\ \A c \in Callers : \A r \in todo[c] : Used(r.id)
  /\ \A c \in Callers : cur[c] # NoRule => Used(cur[c].id)

\* The log is in time order and never ahead of the clock, and nobody but the
\* running scan adds to it after that scan read the clock.
TimesInOrder ==
  /\ \A i, j \in DOMAIN signals : i < j => signals[i].at <= signals[j].at
  /\ \A i \in DOMAIN signals : signals[i].at <= clock
  /\ \A c \in Callers : pc[c] \in Looping =>
       now[c] <= clock /\ \A i \in DOMAIN signals : signals[i].at <= now[c]

\* A scan holds the copy of one rule from its quote to its notification.
CurInHand == \A c \in Callers : cur[c] # NoRule <=> pc[c] \in Evaluating

TypeInv == TypeOK /\ CurInHand

\* What a scan holds in each phase.
ScanShape ==
  \A c \in Callers :
    /\ todo[c] # {} => pc[c] \in Looping \cup {"clock"}
    /\ \A r, s \in todo[c] : r.id = s.id => r = s
    /\ cur[c] # NoRule => \A r \in todo[c] : r.id # cur[c].id
    /\ pc[c] = "mark" => HasSignal(cur[c].id, now[c])

\* A copy's mark covers the rule's signals until the scan itself adds one, and
\* the rule about to trigger has passed the cooldown check on that copy.
CopyCovers(r) == r.id \in unmarked \/ Covered(r.id, r.last)

CopiesCover ==
  \A c \in Callers :
    /\ \A r \in todo[c] : CopyCovers(r)
    /\ pc[c] \in {"quote", "save"} => CopyCovers(cur[c]) 
    /\ pc[c] = "save" => ~CooldownActive(cur[c], now[c])

Safety ==
  /\ RowKeys
  /\ IDsUsed
  /\ MarksBacked
  /\ TimesInOrder
  /\ ScanShape
  /\ MarkCovers
  /\ CopiesCover

IInv == TypeInv /\ OneScan /\ Safety
-----------------------------------------------------------------------------
LEMMA EmptyReportType == EmptyReport \in Report
  BY DEF EmptyReport, Report

LEMMA TypeInit == Init => TypeInv
<1> SUFFICES ASSUME Init PROVE TypeInv
  OBVIOUS
<1> USE BoundsAssumption DEF Init
<1>1. StoreTypeOK
  BY DEF StoreInit, StoreTypeOK, Times
<1>2. ServiceTypeOK
  BY DEF ServiceInit, ServiceTypeOK, Request, Commands
<1>3. EvalTypeOK
  <2>1. mu \in BOOLEAN
    BY Zenon DEF EvalInit
  <2>2. cancelled \in [Callers -> BOOLEAN]
    BY Zenon DEF EvalInit, AllCallers
  <2> QED
    BY <2>1, <2>2, EmptyReportType DEF EvalInit, EvalTypeOK, AllCallers, Phases, Times
<1>4. CurInHand
  BY DEF EvalInit, CurInHand, Evaluating, AllCallers
<1> QED
  BY <1>1, <1>2, <1>3, <1>4 DEF TypeInv, TypeOK

\* What the operators the actions are built from return.
LEMMA SavedType ==
  ASSUME StoreTypeOK, NEW r \in Rule
  PROVE  Saved(r) \in [RuleIDs -> Rule \cup {NoRule}]
  BY DEF Saved, StoreTypeOK, Rule

LEMMA RowUpdateType ==
  ASSUME NEW r \in Rule, NEW b \in BOOLEAN, NEW t \in Times
  PROVE  WithEnabled(r, b) \in Rule /\ MarkTriggered(r, t) \in Rule
  BY DEF WithEnabled, MarkTriggered, Rule

LEMMA WithSignalType ==
  ASSUME StoreTypeOK, NEW id \in RuleIDs, NEW t \in Times
  PROVE  WithSignal(id, t) \in Seq(Signal)
<1> DEFINE s == [rule |-> id, at |-> t, excused |-> id \in unmarked]
<1>1. s \in Signal
  BY DEF Signal
<1> QED
  BY <1>1 DEF WithSignal, StoreTypeOK

LEMMA ReportType ==
  ASSUME EvalTypeOK, NEW c \in Callers, NEW id \in RuleIDs
  PROVE  /\ Skipped(c, id) \in [Callers -> Report]
         /\ Failed(c, id) \in [Callers -> Report]
  BY DEF EvalTypeOK, Skipped, Failed, Report

\* No step of a request, a scan, the clock or a restart leaves the types.
LEMMA TypeStep == TypeInv /\ [Next]_vars => TypeInv'
<1> SUFFICES ASSUME TypeInv, [Next]_vars PROVE TypeInv'
  OBVIOUS
<1> USE BoundsAssumption DEF TypeInv, TypeOK
<1>a. ASSUME UNCHANGED evalVars PROVE EvalTypeOK' /\ CurInHand'
  BY <1>a DEF EvalTypeOK, CurInHand, evalVars, scanVars
<1>b. ASSUME UNCHANGED serviceVars PROVE ServiceTypeOK'
  BY <1>b DEF ServiceTypeOK, serviceVars
<1>c. ASSUME UNCHANGED storeVars PROVE StoreTypeOK'
  BY <1>c DEF StoreTypeOK, storeVars
<1>1. ASSUME NEW o \in Owners, NEW id \in RuleIDs, NEW outcome \in AppliedOutcomes,
             CreateRule(o, id, outcome), UNCHANGED evalVars
      PROVE  TypeInv'
  <2>1. NewRule(id, o) \in Rule
    BY DEF NewRule, Rule
  <2>2. StoreTypeOK'
    BY <1>1, <2>1, SavedType DEF CreateRule, StoreTypeOK
  <2>3. ServiceTypeOK'
    BY <1>1 DEF CreateRule, ServiceTypeOK, Commands
  <2> QED
    BY <1>1, <1>a, <2>2, <2>3
<1>2. ASSUME NEW q \in Reqs, NEW o \in Owners, NEW id \in RuleIDs, NEW b \in BOOLEAN,
             GetForPatch(q, o, id, b), UNCHANGED evalVars
      PROVE  TypeInv'
  <2>1. WithEnabled(rules[id], b) \in Rule
    BY <1>2 DEF GetForPatch, Exists, StoreTypeOK, WithEnabled, Rule
  <2>2. ServiceTypeOK'
    BY <1>2, <2>1 DEF GetForPatch, ServiceTypeOK, Request
  <2> QED
    BY <1>2, <1>a, <1>c, <2>2 DEF GetForPatch
<1>3. ASSUME NEW q \in Reqs, NEW o \in Owners, NEW id \in RuleIDs,
             GetForDelete(q, o, id), UNCHANGED evalVars
      PROVE  TypeInv'
  <2>1. rules[id] \in Rule
    BY <1>3 DEF GetForDelete, Exists, StoreTypeOK
  <2>2. ServiceTypeOK'
    BY <1>3, <2>1 DEF GetForDelete, ServiceTypeOK, Request
  <2> QED
    BY <1>3, <1>a, <1>c, <2>2 DEF GetForDelete
<1>4. ASSUME NEW q \in Reqs, NEW outcome \in AppliedOutcomes,
             SavePatch(q, outcome), UNCHANGED evalVars
      PROVE  TypeInv'
  <2>1. req[q].copy \in Rule /\ req[q].copy.id \in RuleIDs
    BY <1>4 DEF SavePatch, ServiceTypeOK, Request, NoReq, Rule
  <2>2. StoreTypeOK'
    BY <1>4, <2>1, SavedType DEF SavePatch, StoreTypeOK
  <2>3. ServiceTypeOK'
    BY <1>4, <2>1 DEF SavePatch, ServiceTypeOK, Commands, Request
  <2> QED
    BY <1>4, <1>a, <2>2, <2>3
<1>5. ASSUME NEW q \in Reqs, NEW outcome \in AppliedOutcomes,
             DeleteRow(q, outcome), UNCHANGED evalVars
      PROVE  TypeInv'
  <2>1. req[q].copy.id \in RuleIDs
    BY <1>5 DEF DeleteRow, ServiceTypeOK, Request, NoReq, Rule
  <2>2. StoreTypeOK'
    BY <1>5, <2>1 DEF DeleteRow, StoreTypeOK, Deleted
  <2>3. ServiceTypeOK'
    BY <1>5, <2>1 DEF DeleteRow, ServiceTypeOK, Commands, Request
  <2> QED
    BY <1>5, <1>a, <2>2, <2>3
<1>6. ASSUME NEW q \in Reqs, RequestFails(q), UNCHANGED evalVars PROVE TypeInv'
  <2>1. ServiceTypeOK'
    BY <1>6 DEF RequestFails, ServiceTypeOK, Request
  <2> QED
    BY <1>6, <1>a, <1>c, <2>1 DEF RequestFails
<1>7. ASSUME NEW c \in Callers, TryLock(c), UNCHANGED serviceVars PROVE TypeInv'
  <2>1. EvalTypeOK'
    BY <1>7 DEF TryLock, EvalTypeOK, Goto, Phases
  <2>2. CurInHand'
    BY <1>7 DEF TryLock, EvalTypeOK, CurInHand, Goto, Evaluating
  <2> QED
    BY <1>7, <1>b, <1>c, <2>1, <2>2 DEF TryLock
<1>8. ASSUME NEW c \in Callers, Cancel(c), UNCHANGED serviceVars PROVE TypeInv'
  <2>1. EvalTypeOK' /\ CurInHand'
    BY <1>8 DEF Cancel, EvalTypeOK, CurInHand
  <2> QED
    BY <1>8, <1>b, <1>c, <2>1 DEF Cancel
<1>9. ASSUME NEW c \in Callers, Ingest(c), UNCHANGED serviceVars PROVE TypeInv'
  <2>1. EvalTypeOK'
    BY <1>9 DEF Ingest, EvalTypeOK, Goto, Phases
  <2>2. CurInHand'
    BY <1>9 DEF Ingest, EvalTypeOK, CurInHand, Goto, Evaluating
  <2> QED
    BY <1>9, <1>b, <1>c, <2>1, <2>2 DEF Ingest
<1>10. ASSUME NEW c \in Callers, ListEnabled(c), UNCHANGED serviceVars PROVE TypeInv'
  <2>1. EnabledRows \in SUBSET Rule
    BY DEF EnabledRows, Exists, StoreTypeOK
  <2>2. EvalTypeOK'
    BY <1>10, <2>1 DEF ListEnabled, ListRows, EvalTypeOK, Goto, Phases
  <2>3. CurInHand'
    BY <1>10 DEF ListEnabled, ListRows, EvalTypeOK, CurInHand, Goto, Evaluating
  <2> QED
    BY <1>10, <1>b, <1>c, <2>2, <2>3 DEF ListEnabled, ListRows
<1>11. ASSUME NEW c \in Callers, ReadClock(c), UNCHANGED serviceVars PROVE TypeInv'
  <2>1. EvalTypeOK'
    BY <1>11 DEF ReadClock, EvalTypeOK, StoreTypeOK, Goto, Phases
  <2>2. CurInHand'
    BY <1>11 DEF ReadClock, EvalTypeOK, CurInHand, Goto, Evaluating
  <2> QED
    BY <1>11, <1>b, <1>c, <2>1, <2>2 DEF ReadClock
<1>12. ASSUME NEW c \in Callers, NEW r \in todo[c], NEW market \in Markets,
              TakeRule(c, r, market), UNCHANGED serviceVars
       PROVE  TypeInv'
  <2>1. r \in Rule /\ r.id \in RuleIDs
    BY DEF EvalTypeOK, Rule
  <2>2. report' \in [Callers -> Report]
    BY <1>12, <2>1 DEF TakeRule, EvalTypeOK, Report
  <2>3. EvalTypeOK'
    BY <1>12, <2>1, <2>2 DEF TakeRule, EvalTypeOK, Goto, Phases
  <2>4. CurInHand'
    BY <1>12, <2>1, NoRuleAssumption
    DEF TakeRule, EvalTypeOK, CurInHand, Goto, Evaluating
  <2> QED
    BY <1>12, <1>b, <1>c, <2>3, <2>4 DEF TakeRule
<1>13. ASSUME NEW c \in Callers, Abort(c), UNCHANGED serviceVars PROVE TypeInv'
  <2>1. EvalTypeOK'
    BY <1>13, EmptyReportType DEF Abort, EvalTypeOK, Goto, Phases
  <2>2. CurInHand'
    BY <1>13 DEF Abort, EvalTypeOK, CurInHand, Goto, Evaluating
  <2> QED
    BY <1>13, <1>b, <1>c, <2>1, <2>2 DEF Abort
<1>14. ASSUME NEW c \in Callers, Quote(c), UNCHANGED serviceVars PROVE TypeInv'
  <2>1. cur[c] \in Rule /\ cur[c].id \in RuleIDs
    BY <1>14 DEF Quote, EvalTypeOK, CurInHand, Evaluating, Rule
  <2>2. EvalTypeOK'
    <3>1. report' \in [Callers -> Report]
      <4>1. Skipped(c, cur[c].id) \in [Callers -> Report]
            /\ Failed(c, cur[c].id) \in [Callers -> Report]
        BY <2>1, ReportType
      <4> QED
        BY <1>14, <4>1 DEF Quote, EvalTypeOK
    <3>2. pc' \in [Callers -> Phases] /\ cur' \in [Callers -> Rule \cup {NoRule}]
      BY <1>14 DEF Quote, EndIteration, EvalTypeOK, Goto, Phases
    <3> QED
      BY <1>14, <3>1, <3>2 DEF Quote, EvalTypeOK
  <2>3. CurInHand'
    BY <1>14 DEF Quote, EndIteration, EvalTypeOK, CurInHand, Goto, Evaluating
  <2> QED
    BY <1>14, <1>b, <1>c, <2>2, <2>3 DEF Quote
<1>15. ASSUME NEW c \in Callers, NEW outcome \in WriteOutcomes(cancelled[c]),
              SaveSignal(c, outcome), UNCHANGED serviceVars
       PROVE  TypeInv'
  <2>1. cur[c] \in Rule /\ cur[c].id \in RuleIDs /\ now[c] \in Times
    BY <1>15 DEF SaveSignal, EvalTypeOK, CurInHand, Evaluating, Rule
  <2>2. StoreTypeOK'
    BY <1>15, <2>1, WithSignalType DEF SaveSignal, StoreTypeOK
  <2>3. EvalTypeOK'
    <3>1. CASE outcome = "ok"
      BY <1>15, <3>1 DEF SaveSignal, EvalTypeOK, Goto, Phases
    <3>2. CASE outcome # "ok"
      BY <1>15, <3>2, <2>1, ReportType DEF SaveSignal, EndIteration, EvalTypeOK, Goto, Phases
    <3> QED
      BY <3>1, <3>2
  <2>4. CurInHand'
    BY <1>15 DEF SaveSignal, EndIteration, EvalTypeOK, CurInHand, Goto, Evaluating
  <2> QED
    BY <1>15, <1>b, <2>2, <2>3, <2>4
<1>16. ASSUME NEW c \in Callers, NEW outcome \in WriteOutcomes(cancelled[c]),
              Mark(c, outcome), UNCHANGED serviceVars
       PROVE  TypeInv'
  <2> DEFINE row == MarkTriggered(cur[c], now[c])
  <2>1. cur[c] \in Rule /\ now[c] \in Times
    BY <1>16 DEF Mark, MarkWithRow, EvalTypeOK, CurInHand, Evaluating
  <2>2. row \in Rule /\ row.id \in RuleIDs
    BY <2>1, RowUpdateType DEF Rule
  <2>3. StoreTypeOK'
    BY <1>16, <2>2, SavedType DEF Mark, MarkWithRow, StoreTypeOK
  <2>4. EvalTypeOK'
    BY <1>16, <2>2, ReportType DEF Mark, MarkWithRow, EvalTypeOK, Goto, Phases
  <2>5. CurInHand'
    BY <1>16 DEF Mark, MarkWithRow, EvalTypeOK, CurInHand, Goto, Evaluating
  <2> QED
    BY <1>16, <1>b, <2>3, <2>4, <2>5
<1>17. ASSUME NEW c \in Callers, Notify(c), UNCHANGED serviceVars PROVE TypeInv'
  <2> DEFINE s == [rule |-> cur[c].id, at |-> now[c]]
  <2>1. s \in Created
    BY <1>17 DEF Notify, EvalTypeOK, CurInHand, Evaluating, Rule, Created
  <2>2. report' \in [Callers -> Report]
    BY <1>17, <2>1 DEF Notify, EvalTypeOK, Report
  <2>3. EvalTypeOK'
    BY <1>17, <2>1, <2>2 DEF Notify, EndIteration, EvalTypeOK, Goto, Phases
  <2>4. CurInHand'
    BY <1>17 DEF Notify, EndIteration, EvalTypeOK, CurInHand, Goto, Evaluating
  <2> QED
    BY <1>17, <1>b, <1>c, <2>3, <2>4 DEF Notify
<1>18. ASSUME NEW c \in Callers, Finish(c), UNCHANGED serviceVars PROVE TypeInv'
  <2>1. EvalTypeOK'
    BY <1>18 DEF Finish, EvalTypeOK, Goto, Phases
  <2>2. CurInHand'
    BY <1>18 DEF Finish, EvalTypeOK, CurInHand, Goto, Evaluating
  <2> QED
    BY <1>18, <1>b, <1>c, <2>1, <2>2 DEF Finish
<1>19. ASSUME NEW c \in Callers, Return(c), UNCHANGED serviceVars PROVE TypeInv'
  <2>1. EvalTypeOK'
    <3>1. mu' \in BOOLEAN
      BY <1>19, Zenon DEF Return
    <3> QED
      BY <1>19, <3>1, EmptyReportType DEF Return, EvalTypeOK, Goto, Phases, Times
  <2>2. CurInHand'
    BY <1>19 DEF Return, EvalTypeOK, CurInHand, Goto, Evaluating
  <2> QED
    BY <1>19, <1>b, <1>c, <2>1, <2>2 DEF Return
<1>20. ASSUME Tick, UNCHANGED <<serviceVars, evalVars>> PROVE TypeInv'
  <2>1. StoreTypeOK'
    BY <1>20 DEF Tick, StoreTypeOK, Times
  <2> QED
    BY <1>20, <1>a, <1>b, <2>1
<1>21. CASE Restart
  <2>1. StoreTypeOK'
    <3>1. Pending \subseteq RuleIDs
      BY DEF Pending, EvalTypeOK, CurInHand, Evaluating, Rule
    <3>2. CASE Durable
      BY <1>21, <3>1, <3>2 DEF Restart, StoreTypeOK
    <3>3. CASE ~Durable
      <4>1. rules' = [id \in RuleIDs |-> NoRule]
        BY <1>21, <3>3, Zenon DEF Restart
      <4>2. signals' = <<>> /\ unmarked' = {} /\ clock' = clock
        BY <1>21, <3>3 DEF Restart
      <4> QED
        BY <4>1, <4>2 DEF StoreTypeOK
    <3> QED
      BY <3>2, <3>3
  <2>2. ServiceTypeOK'
    BY <1>21 DEF Restart, ServiceTypeOK, Request, Commands
  <2>3. EvalTypeOK'
    <3>1. mu' \in BOOLEAN
      BY <1>21, Zenon DEF Restart
    <3>2. cancelled' \in [Callers -> BOOLEAN]
      BY <1>21, Zenon DEF Restart, AllCallers
    <3> QED
      BY <1>21, <3>1, <3>2, EmptyReportType DEF Restart, EvalTypeOK, AllCallers, Phases, Times
  <2>4. CurInHand'
    BY <1>21 DEF Restart, CurInHand, Evaluating, AllCallers
  <2> QED
    BY <2>1, <2>2, <2>3, <2>4
<1>22. CASE UNCHANGED vars
  BY <1>22, <1>a, <1>b, <1>c DEF vars, evalVars, scanVars, serviceVars, storeVars
<1> QED
  BY <1>1, <1>2, <1>3, <1>4, <1>5, <1>6, <1>7, <1>8, <1>9, <1>10, <1>11, <1>12,
     <1>13, <1>14, <1>15, <1>16, <1>17, <1>18, <1>19, <1>20, <1>21, <1>22, Zenon
  DEF Next, ServiceStep, ScanStep

\* Type correctness, and a scan has a rule in hand exactly from its quote to
\* its notification, in every behaviour.
THEOREM TypeCorrect == Spec => []TypeInv
  BY TypeInit, TypeStep, PTL DEF Spec

\* Rows, copies, requests, the mutex and the report keep their types.
THEOREM TypesKept == Spec => []TypeOK
<1>1. TypeInv => TypeOK
  BY DEF TypeInv
<1> QED
  BY <1>1, TypeCorrect, PTL

-----------------------------------------------------------------------------
\* A caller that holds the mutex moves on inside the scan.
LEMMA InsideScan ==
  ASSUME TypeInv, OneScan, NEW c \in Callers, pc[c] # "idle", UNCHANGED mu,
         pc' = pc \/ \E phase \in Phases \ {"idle"} : Goto(c, phase)
  PROVE  OneScan'
  BY DEF TypeInv, TypeOK, EvalTypeOK, OneScan, Goto

LEMMA OneScanStep == TypeInv /\ OneScan /\ [Next]_vars => OneScan'
<1> SUFFICES ASSUME TypeInv, OneScan, [Next]_vars PROVE OneScan'
  OBVIOUS
<1>1. CASE UNCHANGED evalVars
  BY <1>1 DEF OneScan, evalVars, scanVars
<1>2. ASSUME NEW c \in Callers, TryLock(c) PROVE OneScan'
  BY <1>2 DEF TypeInv, TypeOK, EvalTypeOK, TryLock, OneScan, Goto
<1>3. ASSUME NEW c \in Callers, Cancel(c) PROVE OneScan'
  BY <1>3, InsideScan DEF Cancel
<1>4. ASSUME NEW c \in Callers, Return(c) PROVE OneScan'
  BY <1>4 DEF TypeInv, TypeOK, EvalTypeOK, Return, OneScan, Goto
<1>5. ASSUME NEW c \in Callers, ScanStep(c), ~Return(c) PROVE OneScan'
  <2>1. /\ pc[c] # "idle" /\ UNCHANGED mu
        /\ pc' = pc \/ \E phase \in Phases \ {"idle"} : Goto(c, phase)
    BY <1>5
    DEF ScanStep, Ingest, ListEnabled, ListRows, ReadClock, TakeRule, Abort, Quote,
        SaveSignal, Mark, MarkWithRow, Notify, Finish, EndIteration, Phases
  <2> QED
    BY <2>1, InsideScan
<1>6. CASE Restart
  BY <1>6 DEF Restart, OneScan, AllCallers
<1>7. CASE UNCHANGED vars
  BY <1>7 DEF OneScan, vars
<1> QED
  BY <1>1, <1>2, <1>3, <1>4, <1>5, <1>6, <1>7 DEF Next

\* Scanner.Scan admits one scan at a time, and the mutex is held exactly while
\* a scan runs.
THEOREM ScanIsExclusive == Spec => []OneScan
<1>1. Init => OneScan
  BY DEF Init, EvalInit, OneScan, AllCallers
<1> QED
  BY <1>1, OneScanStep, TypeCorrect, PTL DEF Spec
-----------------------------------------------------------------------------
\* Requests do not touch the log, the clock or a scan.
LEMMA RequestFrame ==
  ASSUME UNCHANGED evalVars, UNCHANGED <<signals, clock>>, TimesInOrder, ScanShape
  PROVE  TimesInOrder' /\ ScanShape' /\ Pending' = Pending
  BY DEF TimesInOrder, ScanShape, Pending, HasSignal, evalVars, scanVars

\* More rules whose mark is known lost never uncover a copy.
LEMMA CopiesFrame ==
  ASSUME UNCHANGED evalVars, UNCHANGED signals, unmarked \subseteq unmarked', CopiesCover
  PROVE  CopiesCover'
  BY DEF CopiesCover, CopyCovers, Covered, CooldownActive, evalVars, scanVars

\* A request that only takes or drops a copy.
LEMMA RequestOnly ==
  ASSUME TypeInv, Safety, UNCHANGED <<storeVars, command, evalVars>>,
         NEW q \in Reqs, NEW x,
         x = NoReq \/ (Used(x.copy.id) /\ Backed(x.copy)),
         req' = [req EXCEPT ![q] = x]
  PROVE  Safety'
<1> USE DEF TypeInv, TypeOK, ServiceTypeOK, Safety, storeVars
<1>1. RowKeys'
  BY DEF RowKeys, Exists
<1>2. IDsUsed'
  BY DEF IDsUsed, Used, Exists, evalVars, scanVars
<1>3. MarksBacked'
  BY DEF MarksBacked, Backed, HasSignal, Exists, evalVars, scanVars
<1>4. TimesInOrder' /\ ScanShape' /\ Pending' = Pending
  BY RequestFrame
<1>5. MarkCovers'
  BY <1>4 DEF MarkCovers, Exists, Covered
<1>6. CopiesCover'
  BY CopiesFrame
<1> QED
  BY <1>1, <1>2, <1>3, <1>4, <1>5, <1>6

LEMMA SignalsType ==
  ASSUME StoreTypeOK
  PROVE  \A i \in DOMAIN signals : signals[i].rule \in RuleIDs /\ signals[i].at \in Times
<1>1. \A i \in DOMAIN signals : signals[i] \in Signal
  BY DEF StoreTypeOK
<1> QED
  BY <1>1 DEF Signal

\* An ID once in use stays in use for the log and for what a scan holds.
LEMMA UsedFrame ==
  ASSUME TypeInv, IDsUsed, UNCHANGED evalVars, UNCHANGED signals,
         \A id \in RuleIDs : Used(id) => Used(id)'
  PROVE  /\ \A i \in DOMAIN signals' : Used(signals[i].rule)'
         /\ \A c \in Callers : \A r \in todo'[c] : Used(r.id)'
         /\ \A c \in Callers : cur'[c] # NoRule => Used(cur[c].id)'
<1>1. \A i \in DOMAIN signals : signals[i].rule \in RuleIDs
  BY SignalsType DEF TypeInv, TypeOK
<1>2. \A c \in Callers : \A r \in todo[c] : r.id \in RuleIDs
  BY DEF TypeInv, TypeOK, EvalTypeOK, Rule
<1>3. \A c \in Callers : cur[c] # NoRule => cur[c].id \in RuleIDs
  BY DEF TypeInv, TypeOK, EvalTypeOK, Rule
<1> QED
  BY <1>1, <1>2, <1>3 DEF IDsUsed, Used, evalVars, scanVars

LEMMA SafetyInit == Init => Safety
  BY BoundsAssumption
  DEF Init, StoreInit, ServiceInit, EvalInit, AllCallers, Safety, RowKeys, IDsUsed,
      MarksBacked, TimesInOrder, ScanShape, MarkCovers, CopiesCover, Exists, Looping,
      Evaluating

LEMMA CreateRuleSafe ==
  ASSUME TypeInv, Safety, NEW o \in Owners, NEW id \in RuleIDs,
         NEW outcome \in AppliedOutcomes, CreateRule(o, id, outcome), UNCHANGED evalVars
  PROVE  Safety'
<1> USE DEF TypeInv, TypeOK, StoreTypeOK, ServiceTypeOK, Safety
<1>1. rules' = [rules EXCEPT ![id] = NewRule(id, o)] /\ NewRule(id, o) \in Rule
  BY DEF CreateRule, Saved, NewRule, Rule
<1>2. RowKeys'
  BY <1>1 DEF RowKeys, Exists, NewRule
<1>3. IDsUsed'
  <2>1. UNCHANGED <<signals, req>> /\ \A i \in RuleIDs : Used(i) => Used(i)'
    BY DEF CreateRule, Used
  <2>2. Used(id)'
    BY DEF CreateRule, Used
  <2>3. \A i \in RuleIDs : Exists(i)' => Used(i)'
    BY <1>1, <2>1, <2>2 DEF IDsUsed, Exists
  <2>4. \A q \in Reqs : req'[q] # NoReq => Used(req[q].copy.id)'
    BY <2>1 DEF IDsUsed, Used, Request, Rule
  <2> QED
    BY <2>1, <2>3, <2>4, UsedFrame DEF IDsUsed
<1>4. MarksBacked'
  <2>1. ASSUME NEW i \in RuleIDs, Exists(i)' PROVE Backed(rules[i])'
    <3>1. CASE i = id
      BY <1>1, <3>1 DEF Backed, NewRule
    <3>2. CASE i # id
      <4>1. rules'[i] = rules[i] /\ Exists(i)
        BY <1>1, <2>1, <3>2 DEF Exists
      <4> QED
        BY <4>1 DEF MarksBacked, Backed, HasSignal, CreateRule
    <3> QED
      BY <3>1, <3>2
  <2> QED
    BY <2>1 DEF MarksBacked, Backed, HasSignal, CreateRule, evalVars, scanVars
<1>5. TimesInOrder' /\ ScanShape' /\ Pending' = Pending
  BY RequestFrame DEF CreateRule
<1>6. MarkCovers'
  <2>1. \A i \in DOMAIN signals : signals[i].rule # id
    BY DEF IDsUsed, Used, CreateRule
  <2> QED
    BY <1>1, <1>5, <2>1 DEF MarkCovers, Exists, Covered, CreateRule
<1>7. CopiesCover'
  BY CopiesFrame DEF CreateRule
<1> QED
  BY <1>2, <1>3, <1>4, <1>5, <1>6, <1>7

LEMMA SavePatchSafe ==
  ASSUME TypeInv, Safety, NEW q \in Reqs, NEW outcome \in AppliedOutcomes,
         SavePatch(q, outcome), UNCHANGED evalVars
  PROVE  Safety'
<1> USE DEF TypeInv, TypeOK, StoreTypeOK, ServiceTypeOK, Safety
<1> DEFINE r == req[q].copy
<1>1. r \in Rule /\ r.id \in RuleIDs /\ req[q] # NoReq
  BY DEF SavePatch, Request, NoReq, Rule
<1>2. /\ rules' = [rules EXCEPT ![r.id] = r]
      /\ UNCHANGED <<signals, clock>> /\ unmarked \subseteq unmarked'
      /\ req' = [req EXCEPT ![q] = NoReq]
  BY DEF SavePatch, Saved
<1>3. RowKeys'
  BY <1>1, <1>2 DEF RowKeys, Exists
<1>4. IDsUsed'
  <2>1. \A id \in RuleIDs : Used(id) => Used(id)'
    BY <1>1 DEF SavePatch, Used
  <2>2. \A id \in RuleIDs : Exists(id)' => Used(id)'
    BY <1>1, <1>2, <2>1 DEF IDsUsed, Exists
  <2>3. \A p \in Reqs : req'[p] # NoReq => Used(req[p].copy.id)'
    BY <1>2, <2>1 DEF IDsUsed, Used, Request, Rule
  <2> QED
    BY <1>2, <2>1, <2>2, <2>3, UsedFrame DEF IDsUsed
<1>5. MarksBacked'
  BY <1>1, <1>2 DEF MarksBacked, Backed, HasSignal, Exists, evalVars, scanVars
<1>6. TimesInOrder' /\ ScanShape' /\ Pending' = Pending
  BY <1>2, RequestFrame
<1>7. MarkCovers'
  <2>1. r.id \in unmarked' \/ (Exists(r.id) /\ rules[r.id].last = r.last)
    BY DEF SavePatch
  <2> QED
    BY <1>1, <1>2, <1>6, <2>1 DEF MarkCovers, Exists, Covered
<1>8. CopiesCover'
  BY <1>2, CopiesFrame
<1> QED
  BY <1>3, <1>4, <1>5, <1>6, <1>7, <1>8

LEMMA DeleteRowSafe ==
  ASSUME TypeInv, Safety, NEW q \in Reqs, NEW outcome \in AppliedOutcomes,
         DeleteRow(q, outcome), UNCHANGED evalVars
  PROVE  Safety'
<1> USE DEF TypeInv, TypeOK, StoreTypeOK, ServiceTypeOK, Safety
<1> DEFINE id == req[q].copy.id
<1>1. id \in RuleIDs /\ req[q] # NoReq
  BY DEF DeleteRow, Request, NoReq, Rule
<1>2. /\ rules' = [rules EXCEPT ![id] = NoRule]
      /\ UNCHANGED <<signals, clock, unmarked>>
      /\ req' = [req EXCEPT ![q] = NoReq]
  BY DEF DeleteRow, Deleted
<1>3. RowKeys'
  BY <1>1, <1>2 DEF RowKeys, Exists
<1>4. IDsUsed'
  <2>1. \A i \in RuleIDs : Used(i) => Used(i)'
    BY <1>1 DEF DeleteRow, Used
  <2>2. \A i \in RuleIDs : Exists(i)' => Used(i)'
    BY <1>1, <1>2, <2>1 DEF IDsUsed, Exists
  <2>3. \A p \in Reqs : req'[p] # NoReq => Used(req[p].copy.id)'
    BY <1>2, <2>1 DEF IDsUsed, Used, Request, Rule
  <2> QED
    BY <1>2, <2>1, <2>2, <2>3, UsedFrame DEF IDsUsed
<1>5. MarksBacked'
  BY <1>1, <1>2 DEF MarksBacked, Backed, HasSignal, Exists, evalVars, scanVars
<1>6. TimesInOrder' /\ ScanShape' /\ Pending' = Pending
  BY <1>2, RequestFrame
<1>7. MarkCovers'
  BY <1>1, <1>2, <1>6 DEF MarkCovers, Exists, Covered
<1>8. CopiesCover'
  BY <1>2, CopiesFrame
<1> QED
  BY <1>3, <1>4, <1>5, <1>6, <1>7, <1>8
-----------------------------------------------------------------------------
\* What Safety says of one caller.
ScanInv(c) ==
  /\ \A r \in todo[c] : Used(r.id) /\ Backed(r) /\ CopyCovers(r)
  /\ \A r, s \in todo[c] : r.id = s.id => r = s
  /\ todo[c] # {} => pc[c] \in Looping \cup {"clock"}
  /\ cur[c] # NoRule => /\ Used(cur[c].id) /\ Backed(cur[c])
                        /\ \A r \in todo[c] : r.id # cur[c].id
  /\ pc[c] \in Looping => now[c] <= clock /\ \A i \in DOMAIN signals : signals[i].at <= now[c]
  /\ pc[c] \in {"quote", "save"} => CopyCovers(cur[c])
  /\ pc[c] = "save" => ~CooldownActive(cur[c], now[c])
  /\ pc[c] = "mark" => HasSignal(cur[c].id, now[c])

LEMMA SafetyOfScan ==
  ASSUME Safety, NEW c \in Callers
  PROVE  ScanInv(c)
  BY DEF Safety, ScanInv, IDsUsed, MarksBacked, ScanShape, TimesInOrder, CopiesCover

\* A step of caller c that only changes what c holds.
LEMMA ScanOnly ==
  ASSUME Safety, NEW c \in Callers, UNCHANGED <<storeVars, serviceVars>>,
         \A d \in Callers \ {c} : /\ pc'[d] = pc[d] /\ todo'[d] = todo[d]
                                  /\ cur'[d] = cur[d] /\ now'[d] = now[d],
         pc[c] # "mark",
         ScanInv(c)'
  PROVE  Safety'
<1> USE DEF Safety, storeVars, serviceVars
<1>1. \A d \in Callers : ScanInv(d)'
  BY SafetyOfScan
  DEF ScanInv, Used, Backed, HasSignal, CopyCovers, Covered, CooldownActive
<1>2. RowKeys'
  BY DEF RowKeys, Exists
<1>3. IDsUsed'
  BY <1>1 DEF ScanInv, IDsUsed, Used, Exists
<1>4. MarksBacked'
  <2>1. \A id \in RuleIDs : Exists(id)' => Backed(rules[id])'
    BY DEF MarksBacked, Exists, Backed, HasSignal
  <2>2. \A q \in Reqs : req'[q] # NoReq => Backed(req[q].copy)'
    BY DEF MarksBacked, Backed, HasSignal
  <2> QED
    BY <1>1, <2>1, <2>2 DEF MarksBacked, ScanInv
<1>5. TimesInOrder'
  BY <1>1 DEF TimesInOrder, ScanInv
<1>6. ScanShape'
  BY <1>1 DEF ScanShape, ScanInv
<1>7. MarkCovers'
  <2>1. Pending \subseteq Pending'
    BY DEF Pending
  <2> QED
    BY <2>1 DEF MarkCovers, Exists, Covered
<1>8. CopiesCover'
  BY <1>1 DEF CopiesCover, ScanInv
<1> QED
  BY <1>2, <1>3, <1>4, <1>5, <1>6, <1>7, <1>8

\* Steps outside the loop, and the steps that drop a copy.
LEMMA QuietScanSteps ==
  ASSUME TypeInv, Safety, NEW c \in Callers, UNCHANGED serviceVars,
         TryLock(c) \/ Cancel(c) \/ Ingest(c) \/ Abort(c) \/ Finish(c) \/ Return(c)
  PROVE  ScanInv(c)' /\ UNCHANGED storeVars
  BY SafetyOfScan
  DEF TypeInv, TypeOK, EvalTypeOK, CurInHand, ScanInv, TryLock, Cancel, Ingest, Abort,
      Finish, Return, Goto, Looping, Evaluating, storeVars, serviceVars, Used, Backed,
      HasSignal, CopyCovers, Covered, CooldownActive

\* The rows listed are covered: no signal is waiting for its mark while a scan
\* lists, because only that scan could have left one waiting.
LEMMA ListEnabledSafe ==
  ASSUME TypeInv, OneScan, Safety, NEW c \in Callers, ListEnabled(c), UNCHANGED serviceVars
  PROVE  ScanInv(c)' /\ UNCHANGED storeVars
<1>1. Pending = {}
  BY DEF OneScan, ListEnabled, ListRows, Pending
<1>2. ASSUME NEW r \in EnabledRows
      PROVE  Used(r.id) /\ Backed(r) /\ CopyCovers(r) /\ rules[r.id] = r
  <2>1. PICK id \in RuleIDs : Exists(id) /\ r = rules[id]
    BY DEF EnabledRows
  <2>2. r.id = id
    BY <2>1 DEF Safety, RowKeys
  <2>3. Used(id) /\ Backed(r)
    BY <2>1 DEF Safety, IDsUsed, MarksBacked
  <2>4. CopyCovers(r)
    BY <1>1, <2>1, <2>2 DEF Safety, MarkCovers, CopyCovers
  <2> QED
    BY <2>1, <2>2, <2>3, <2>4
<1>3. cur'[c] = NoRule /\ UNCHANGED <<storeVars, command>>
  BY DEF TypeInv, CurInHand, Evaluating, ListEnabled, ListRows, serviceVars
<1>4. \/ todo'[c] = EnabledRows /\ pc'[c] = "clock"
      \/ todo'[c] = todo[c] /\ pc'[c] = "done"
  BY DEF TypeInv, TypeOK, EvalTypeOK, ListEnabled, ListRows, Goto
<1>5. todo[c] = {}
  BY SafetyOfScan DEF ScanInv, ListEnabled, ListRows, Looping, Evaluating
<1>6. \A r \in todo'[c] : Used(r.id)' /\ Backed(r)' /\ CopyCovers(r)' /\ rules[r.id] = r
  BY <1>2, <1>3, <1>4, <1>5 DEF Used, Backed, HasSignal, CopyCovers, Covered, storeVars
<1> QED
  BY <1>3, <1>4, <1>5, <1>6 DEF ScanInv, Looping, Evaluating

\* The scan's reading of the clock is no earlier than any stored signal.
LEMMA ReadClockSafe ==
  ASSUME TypeInv, Safety, NEW c \in Callers, ReadClock(c), UNCHANGED serviceVars
  PROVE  ScanInv(c)' /\ UNCHANGED storeVars
<1>1. now'[c] = clock /\ pc'[c] = "loop" /\ UNCHANGED <<storeVars, todo, cur, command>>
  BY DEF TypeInv, TypeOK, EvalTypeOK, ReadClock, Goto, serviceVars
<1>2. clock \in Int /\ \A i \in DOMAIN signals : signals[i].at <= clock
  BY DEF TypeInv, TypeOK, StoreTypeOK, Times, Safety, TimesInOrder
<1>3. ScanInv(c) /\ cur[c] = NoRule
  BY SafetyOfScan DEF TypeInv, CurInHand, Evaluating, ReadClock
<1> QED
  BY <1>1, <1>2, <1>3
  DEF ScanInv, Looping, Evaluating, Used, Backed, HasSignal, CopyCovers, Covered, storeVars

LEMMA TakeRuleSafe ==
  ASSUME TypeInv, Safety, NEW c \in Callers, NEW r \in todo[c], NEW market \in Markets,
         TakeRule(c, r, market), UNCHANGED serviceVars
  PROVE  ScanInv(c)' /\ UNCHANGED storeVars
<1>1. /\ pc[c] = "loop" /\ todo'[c] = todo[c] \ {r}
      /\ UNCHANGED <<storeVars, now, command>>
      /\ \/ pc'[c] = "quote" /\ cur'[c] = r
         \/ UNCHANGED <<pc, cur>>
  BY DEF TypeInv, TypeOK, EvalTypeOK, TakeRule, Goto, serviceVars
<1>2. ScanInv(c) /\ cur[c] = NoRule
  BY <1>1, SafetyOfScan DEF TypeInv, CurInHand, Evaluating
<1> QED
  BY <1>1, <1>2
  DEF ScanInv, Looping, Evaluating, Used, Backed, HasSignal, CopyCovers, Covered, storeVars

\* Only a rule that passed the cooldown check on its copy gets to its signal.
LEMMA QuoteSafe ==
  ASSUME TypeInv, Safety, NEW c \in Callers, Quote(c), UNCHANGED serviceVars
  PROVE  ScanInv(c)' /\ UNCHANGED storeVars
<1>1. /\ pc[c] = "quote" /\ UNCHANGED <<storeVars, todo, now, command>>
      /\ \/ pc'[c] = "loop" /\ cur'[c] = NoRule
         \/ pc'[c] = "save" /\ cur'[c] = cur[c] /\ ~CooldownActive(cur[c], now[c])
  BY DEF TypeInv, TypeOK, EvalTypeOK, Quote, EndIteration, Goto, Precheck, serviceVars
<1>2. ScanInv(c)
  BY SafetyOfScan
<1> QED
  BY <1>1, <1>2
  DEF ScanInv, Looping, Evaluating, Used, Backed, HasSignal, CopyCovers, Covered,
      CooldownActive, storeVars

LEMMA NotifySafe ==
  ASSUME TypeInv, Safety, NEW c \in Callers, Notify(c), UNCHANGED serviceVars
  PROVE  ScanInv(c)' /\ UNCHANGED storeVars
<1>1. /\ pc[c] = "notify" /\ UNCHANGED <<storeVars, todo, now, command>>
      /\ pc'[c] = "loop" /\ cur'[c] = NoRule
  BY DEF TypeInv, TypeOK, EvalTypeOK, Notify, EndIteration, Goto, serviceVars
<1>2. ScanInv(c)
  BY SafetyOfScan
<1> QED
  BY <1>1, <1>2
  DEF ScanInv, Looping, Evaluating, Used, Backed, HasSignal, CopyCovers, Covered, storeVars

\* Only one caller is past TryLock.
LEMMA OthersIdle ==
  ASSUME OneScan, Safety, NEW c \in Callers, pc[c] # "idle", NEW d \in Callers \ {c}
  PROVE  pc[d] = "idle" /\ todo[d] = {}
<1>1. pc[d] = "idle"
  BY DEF OneScan
<1> QED
  BY <1>1 DEF Safety, ScanShape, Looping, Evaluating

\* The log after a signal was added.
LEMMA LogGrows ==
  ASSUME StoreTypeOK, NEW id \in RuleIDs, NEW t \in Times, signals' = WithSignal(id, t)
  PROVE  /\ Len(signals) \in Nat
         /\ DOMAIN signals = 1 .. Len(signals)
         /\ DOMAIN signals' = 1 .. Len(signals) + 1
         /\ \A i \in DOMAIN signals : signals'[i] = signals[i]
         /\ signals'[Len(signals) + 1].rule = id
         /\ signals'[Len(signals) + 1].at = t
<1> DEFINE s == [rule |-> id, at |-> t, excused |-> id \in unmarked]
<1>1. signals' = Append(signals, s) /\ s.rule = id /\ s.at = t
  BY DEF WithSignal
<1>2. s \in Signal
  BY DEF Signal
<1> HIDE DEF s
<1> QED
  BY <1>1, <1>2 DEF StoreTypeOK

LEMMA SaveSignalSafe ==
  ASSUME TypeInv, OneScan, Safety, NEW c \in Callers,
         NEW outcome \in WriteOutcomes(cancelled[c]), SaveSignal(c, outcome),
         UNCHANGED serviceVars
  PROVE  Safety'
<1> DEFINE r == cur[c]
           t == now[c]
<1> USE DEF Safety
<1>1. r \in Rule /\ r.id \in RuleIDs /\ t \in Times /\ t <= clock /\ pc[c] = "save"
      /\ cur[c] # NoRule
  BY DEF TypeInv, TypeOK, EvalTypeOK, CurInHand, Evaluating, Looping, SaveSignal, Rule,
         TimesInOrder
<1>2. /\ UNCHANGED <<rules, clock, todo, now, req, command>>
      /\ \A d \in Callers \ {c} : pc'[d] = pc[d] /\ cur'[d] = cur[d]
      /\ \/ pc'[c] = "mark" /\ cur'[c] = r /\ outcome = "ok" /\ unmarked' = unmarked
         \/ /\ pc'[c] = "loop" /\ cur'[c] = NoRule /\ unmarked \subseteq unmarked'
            /\ outcome = "failed" \/ (outcome = "applied" /\ r.id \in unmarked')
  BY DEF TypeInv, TypeOK, EvalTypeOK, SaveSignal, EndIteration, Goto, WriteOutcomes,
         serviceVars
<1>3. \A d \in Callers \ {c} : pc[d] = "idle" /\ todo[d] = {} /\ cur[d] = NoRule
  BY <1>1, OthersIdle DEF TypeInv, CurInHand, Evaluating
<1>4. ScanInv(c)
  BY SafetyOfScan
<1>5. RowKeys'
  BY <1>2 DEF RowKeys, Exists
<1>6. CASE outcome = "failed"
  <2>1. signals' = signals /\ pc'[c] = "loop" /\ cur'[c] = NoRule /\ unmarked \subseteq unmarked'
    BY <1>2, <1>6 DEF SaveSignal
  <2>2. \A d \in Callers : ScanInv(d)'
    <3>1. ScanInv(c)'
      BY <1>1, <1>2, <1>4, <2>1
      DEF ScanInv, Looping, Evaluating, Used, Backed, HasSignal, CopyCovers, Covered
    <3>2. ASSUME NEW d \in Callers \ {c} PROVE ScanInv(d)'
      BY <1>2, <1>3, <3>2 DEF ScanInv, Looping, Evaluating
    <3> QED
      BY <3>1, <3>2
  <2>3. IDsUsed' /\ MarksBacked'
    BY <1>2, <2>1, <2>2 DEF ScanInv, IDsUsed, MarksBacked, Used, Exists, Backed, HasSignal
  <2>4. TimesInOrder' /\ ScanShape' /\ CopiesCover'
    BY <1>2, <2>1, <2>2 DEF ScanInv, TimesInOrder, ScanShape, CopiesCover
  <2>5. MarkCovers'
    <3>1. Pending = {}
      BY <1>1, <1>3 DEF Pending
    <3> QED
      BY <1>2, <2>1, <3>1 DEF MarkCovers, Exists, Covered
  <2> QED
    BY <1>5, <2>3, <2>4, <2>5
<1>7. CASE outcome # "failed"
  <2>1. signals' = WithSignal(r.id, t)
    BY <1>7 DEF SaveSignal
  <2>2. /\ Len(signals) \in Nat
        /\ DOMAIN signals = 1 .. Len(signals)
        /\ DOMAIN signals' = 1 .. Len(signals) + 1
        /\ \A i \in DOMAIN signals : signals'[i] = signals[i]
        /\ signals'[Len(signals) + 1].rule = r.id
        /\ signals'[Len(signals) + 1].at = t
    BY <1>1, <2>1, LogGrows DEF TypeInv, TypeOK
  <2>3. \A id, x : HasSignal(id, x) => HasSignal(id, x)'
    BY <2>2 DEF HasSignal
  <2>4. \E i \in DOMAIN signals' : signals'[i].rule = r.id /\ signals'[i].at = t
    <3>1. Len(signals) + 1 \in DOMAIN signals'
      BY <2>2
    <3> QED
      BY <2>2, <3>1
  <2>5. \A i \in DOMAIN signals : signals[i].at <= t /\ signals[i].at \in Times
    BY <1>1, SignalsType DEF TypeInv, TypeOK, TimesInOrder, Looping, Evaluating
  <2>6. \A id, x : id # r.id => (Covered(id, x) => Covered(id, x)')
    BY <2>2 DEF Covered
  <2>7. \A d \in Callers : ScanInv(d)'
    <3>1. ScanInv(c)'
      <4>1. ~(pc'[c] \in {"quote", "save"}) /\ now'[c] = t /\ clock' = clock
        BY <1>2
      <4>2. pc'[c] = "mark" => HasSignal(cur[c].id, now[c])'
        BY <1>2, <2>4 DEF HasSignal
      <4>3. \A i \in DOMAIN signals' : signals'[i].at <= t
        BY <1>1, <2>2, <2>5 DEF Times
      <4>4. \A x \in todo[c] : CopyCovers(x) => CopyCovers(x)'
        BY <1>1, <1>2, <1>4, <2>6 DEF ScanInv, CopyCovers
      <4> QED
        BY <1>1, <1>2, <1>4, <2>3, <4>1, <4>2, <4>3, <4>4
        DEF ScanInv, Looping, Evaluating, Used, Backed
    <3>2. ASSUME NEW d \in Callers \ {c} PROVE ScanInv(d)'
      BY <1>2, <1>3, <3>2 DEF ScanInv, Looping, Evaluating
    <3> QED
      BY <3>1, <3>2
  <2>8. IDsUsed'
    BY <1>1, <1>2, <2>2, <2>7 DEF ScanInv, IDsUsed, Used, Exists
  <2>9. MarksBacked'
    BY <1>2, <2>3, <2>7 DEF ScanInv, MarksBacked, Exists, Backed
  <2>10. TimesInOrder'
    BY <1>1, <1>2, <2>2, <2>5, <2>7 DEF ScanInv, TimesInOrder, Times
  <2>11. ScanShape' /\ CopiesCover'
    BY <2>7 DEF ScanInv, ScanShape, CopiesCover
  <2>12. MarkCovers'
    <3>1. Pending = {}
      BY <1>1, <1>3 DEF Pending
    <3>2. r.id \in unmarked' \cup Pending'
      BY <1>2, <1>7 DEF Pending
    <3>3. unmarked \subseteq unmarked'
      BY <1>2
    <3> QED
      BY <1>2, <2>6, <3>1, <3>2, <3>3 DEF MarkCovers, Exists
  <2> QED
    BY <1>5, <2>8, <2>9, <2>10, <2>11, <2>12
<1> QED
  BY <1>6, <1>7

LEMMA MarkSafe ==
  ASSUME TypeInv, OneScan, Safety, NEW c \in Callers,
         NEW outcome \in WriteOutcomes(cancelled[c]), Mark(c, outcome),
         UNCHANGED serviceVars
  PROVE  Safety'
<1> DEFINE r == MarkTriggered(cur[c], now[c])
<1> USE DEF Safety
<1>1. /\ cur[c] \in Rule /\ cur[c] # NoRule /\ now[c] \in Times /\ pc[c] = "mark"
      /\ r \in Rule /\ r.id = cur[c].id /\ r.last = now[c] /\ r.id \in RuleIDs
  <2>1. cur[c] \in Rule /\ cur[c] # NoRule /\ now[c] \in Times /\ pc[c] = "mark"
    BY DEF TypeInv, TypeOK, EvalTypeOK, CurInHand, Evaluating, Mark, MarkWithRow
  <2> QED
    BY <2>1, RowUpdateType DEF MarkTriggered, Rule
<1>2. /\ UNCHANGED <<signals, clock, todo, cur, now, req, command>>
      /\ pc' = [pc EXCEPT ![c] = "notify"] /\ pc'[c] = "notify"
      /\ \A d \in Callers \ {c} : pc'[d] = pc[d]
      /\ \/ rules' = rules /\ unmarked' = unmarked \cup {r.id}
         \/ rules' = [rules EXCEPT ![r.id] = r] /\ unmarked' = unmarked \ {r.id}
  BY <1>1 DEF TypeInv, TypeOK, EvalTypeOK, Mark, MarkWithRow, Goto, Saved, serviceVars
<1> HIDE DEF r
<1>3. \A d \in Callers \ {c} : pc[d] = "idle" /\ todo[d] = {} /\ cur[d] = NoRule
  BY <1>1, OthersIdle DEF TypeInv, CurInHand, Evaluating
<1>4. ScanInv(c)
  BY SafetyOfScan
<1>5. \A d \in Callers : ScanInv(d)'
  <2>1. ScanInv(c)'
    BY <1>1, <1>2, <1>4
    DEF ScanInv, Looping, Evaluating, Used, Backed, HasSignal, CopyCovers, Covered
  <2>2. ASSUME NEW d \in Callers \ {c} PROVE ScanInv(d)'
    BY <1>2, <1>3, <2>2 DEF ScanInv, Looping, Evaluating
  <2> QED
    BY <2>1, <2>2
<1>6. /\ RowKeys'
      /\ \A id \in RuleIDs : Exists(id)' => Used(id)'
      /\ \A id \in RuleIDs : id # r.id => rules'[id] = rules[id]
      /\ rules'[r.id] = rules[r.id] \/ rules'[r.id] = r
  BY <1>1, <1>2, <1>4
  DEF RowKeys, IDsUsed, ScanInv, Exists, Used, TypeInv, TypeOK, StoreTypeOK
<1>7. IDsUsed'
  BY <1>2, <1>5, <1>6 DEF ScanInv, IDsUsed, Used
<1>8. MarksBacked'
  <2>1. HasSignal(r.id, r.last)
    BY <1>1, <1>4 DEF ScanInv
  <2>2. ASSUME NEW id \in RuleIDs, Exists(id)' PROVE Backed(rules[id])'
    BY <1>2, <1>6, <2>1, <2>2 DEF MarksBacked, Exists, Backed, HasSignal
  <2>3. \A q \in Reqs : req'[q] # NoReq => Backed(req[q].copy)'
    BY <1>2 DEF MarksBacked, Backed, HasSignal
  <2> QED
    BY <1>5, <2>2, <2>3 DEF ScanInv, MarksBacked
<1>9. TimesInOrder'
  BY <1>2, <1>5 DEF ScanInv, TimesInOrder
<1>10. ScanShape' /\ CopiesCover'
  BY <1>5 DEF ScanInv, ScanShape, CopiesCover
<1>11. MarkCovers'
  <2>1. Pending = {r.id}
    BY <1>1, <1>3 DEF Pending
  <2>2. Covered(r.id, now[c])
    BY <1>1, <1>4 DEF ScanInv, Covered, Looping, Evaluating
  <2>3. ASSUME NEW id \in RuleIDs, id # r.id
        PROVE  id \in unmarked' \cup Pending' \/ ~Exists(id)' \/ Covered(id, rules[id].last)'
    BY <1>2, <1>6, <2>1, <2>3 DEF MarkCovers, Exists, Covered
  <2>4. r.id \in unmarked' \/ Covered(r.id, rules[r.id].last)'
    <3>1. CASE unmarked' = unmarked \cup {r.id}
      BY <3>1
    <3>2. CASE rules' = [rules EXCEPT ![r.id] = r]
      <4>1. rules'[r.id].last = now[c]
        BY <1>1, <3>2 DEF TypeInv, TypeOK, StoreTypeOK
      <4> QED
        BY <1>1, <1>2, <2>2, <4>1 DEF Covered, r, MarkTriggered
    <3> QED
      BY <1>2, <3>1, <3>2
  <2>5. ASSUME NEW id \in RuleIDs
        PROVE  id \in unmarked' \cup Pending' \/ ~Exists(id)' \/ Covered(id, rules[id].last)'
    <3>1. CASE id = r.id
      BY <1>1, <1>2, <2>4, <3>1 DEF r, MarkTriggered
    <3> QED
      BY <2>3, <3>1
  <2> QED
    BY <2>5 DEF MarkCovers
<1> QED
  BY <1>6, <1>7, <1>8, <1>9, <1>10, <1>11

LEMMA TickSafe ==
  ASSUME TypeInv, Safety, Tick, UNCHANGED <<serviceVars, evalVars>>
  PROVE  Safety'
<1> USE DEF Safety, serviceVars, evalVars, scanVars, Tick
<1>1. RowKeys' /\ IDsUsed' /\ MarksBacked'
  BY DEF RowKeys, IDsUsed, MarksBacked, Exists, Used, Backed, HasSignal
<1>2. TimesInOrder'
  <2>1. \A c \in Callers : now[c] \in Int
    BY DEF TypeInv, TypeOK, EvalTypeOK, Times
  <2> QED
    BY <2>1, SignalsType
    DEF TimesInOrder, TypeInv, TypeOK, StoreTypeOK, Times, Looping, Evaluating
<1>3. ScanShape' /\ MarkCovers' /\ CopiesCover'
  BY DEF ScanShape, MarkCovers, CopiesCover, CopyCovers, Covered, CooldownActive, Exists,
         Pending, HasSignal
<1> QED
  BY <1>1, <1>2, <1>3

\* A restart drops every copy; a signal that waited for its mark is recorded.
LEMMA RestartSafe ==
  ASSUME TypeInv, Safety, Restart
  PROVE  Safety'
<1> USE DEF Safety
<1>1. /\ \A c \in Callers : pc'[c] = "idle" /\ todo'[c] = {} /\ cur'[c] = NoRule
      /\ \A q \in Reqs : req'[q] = NoReq
      /\ clock' = clock
  BY DEF Restart, AllCallers
<1>2. ScanShape' /\ CopiesCover' /\ Pending' = {}
  BY <1>1 DEF ScanShape, CopiesCover, Pending, Looping, Evaluating
<1>3. CASE Durable
  <2>1. UNCHANGED <<rules, signals, command>> /\ unmarked' = unmarked \cup Pending
    BY <1>3 DEF Restart
  <2>2. RowKeys' /\ IDsUsed' /\ MarksBacked' /\ TimesInOrder'
    BY <1>1, <2>1
    DEF RowKeys, IDsUsed, MarksBacked, TimesInOrder, Exists, Used, Backed, HasSignal,
        Looping, Evaluating
  <2>3. MarkCovers'
    BY <1>2, <2>1 DEF MarkCovers, Exists, Covered
  <2> QED
    BY <1>2, <2>2, <2>3
<1>4. CASE ~Durable
  <2>1. rules' = [id \in RuleIDs |-> NoRule] /\ signals' = <<>>
    BY <1>4, Zenon DEF Restart
  <2>2. \A id \in RuleIDs : ~Exists(id)'
    BY <2>1 DEF Exists
  <2>3. RowKeys' /\ IDsUsed' /\ MarksBacked' /\ TimesInOrder' /\ MarkCovers'
    BY <1>1, <2>1, <2>2
    DEF RowKeys, IDsUsed, MarksBacked, TimesInOrder, MarkCovers, Looping, Evaluating
  <2> QED
    BY <1>2, <2>3
<1> QED
  BY <1>3, <1>4

\* Every step keeps the invariant.
LEMMA SafetyStep == TypeInv /\ TypeInv' /\ OneScan /\ Safety /\ [Next]_vars => Safety'
<1> SUFFICES ASSUME TypeInv, OneScan, Safety, [Next]_vars PROVE Safety'
  OBVIOUS
<1>1. ASSUME ServiceStep, UNCHANGED evalVars PROVE Safety'
  <2>1. ASSUME NEW q \in Reqs, NEW o \in Owners, NEW id \in RuleIDs, NEW b \in BOOLEAN,
               GetForPatch(q, o, id, b)
        PROVE  Safety'
    <3>1. Used(id) /\ Backed(rules[id]) /\ rules[id].id = id
      BY <2>1 DEF GetForPatch, Safety, IDsUsed, MarksBacked, RowKeys
    <3> DEFINE x == [op |-> "patch", copy |-> WithEnabled(rules[id], b)]
    <3>2. x.copy.id = id /\ x.copy.last = rules[id].last
      BY <2>1, <3>1 DEF GetForPatch, Exists, TypeInv, TypeOK, StoreTypeOK, Rule, WithEnabled
    <3>3. Used(x.copy.id) /\ Backed(x.copy)
      BY <3>1, <3>2 DEF Used, Backed
    <3> QED
      BY <1>1, <2>1, <3>3, RequestOnly DEF GetForPatch
  <2>2. ASSUME NEW q \in Reqs, NEW o \in Owners, NEW id \in RuleIDs, GetForDelete(q, o, id)
        PROVE  Safety'
    <3>1. Used(id) /\ Backed(rules[id]) /\ rules[id].id = id
      BY <2>2 DEF GetForDelete, Safety, IDsUsed, MarksBacked, RowKeys
    <3> DEFINE x == [op |-> "delete", copy |-> rules[id]]
    <3>2. Used(x.copy.id) /\ Backed(x.copy)
      BY <3>1
    <3> QED
      BY <1>1, <2>2, <3>2, RequestOnly DEF GetForDelete
  <2>3. ASSUME NEW q \in Reqs, RequestFails(q) PROVE Safety'
    BY <1>1, <2>3, RequestOnly DEF RequestFails
  <2> QED
    BY <1>1, <2>1, <2>2, <2>3, CreateRuleSafe, SavePatchSafe, DeleteRowSafe
    DEF ServiceStep
<1>2. ASSUME NEW c \in Callers, TryLock(c) \/ Cancel(c) \/ ScanStep(c), UNCHANGED serviceVars
      PROVE  Safety'
  <2> DEFINE OnlyC == \A d \in Callers \ {c} : /\ pc'[d] = pc[d] /\ todo'[d] = todo[d]
                                               /\ cur'[d] = cur[d] /\ now'[d] = now[d]
  <2>1. ASSUME TryLock(c) \/ Cancel(c) \/ Ingest(c) \/ Abort(c) \/ Finish(c) \/ Return(c)
        PROVE  Safety'
    <3>1. CASE Cancel(c)
      BY <1>2, <3>1
      DEF Cancel, Safety, RowKeys, IDsUsed, MarksBacked, TimesInOrder, ScanShape,
          MarkCovers, CopiesCover, CopyCovers, Covered, CooldownActive, Exists, Used,
          Backed, HasSignal, Pending, storeVars, serviceVars
    <3>2. CASE ~Cancel(c)
      <4>1. OnlyC /\ pc[c] # "mark"
        BY <2>1, <3>2
        DEF TypeInv, TypeOK, EvalTypeOK, TryLock, Ingest, Abort, Finish, Return, Goto
      <4>2. ScanInv(c)' /\ UNCHANGED storeVars
        BY <1>2, <2>1, QuietScanSteps
      <4> QED
        BY <1>2, <4>1, <4>2, ScanOnly
    <3> QED
      BY <3>1, <3>2
  <2>2. CASE ListEnabled(c)
    <3>1. OnlyC /\ pc[c] # "mark"
      BY <2>2 DEF TypeInv, TypeOK, EvalTypeOK, ListEnabled, ListRows, Goto
    <3> QED
      BY <1>2, <2>2, <3>1, ListEnabledSafe, ScanOnly
  <2>3. CASE ReadClock(c)
    <3>1. OnlyC /\ pc[c] # "mark"
      BY <2>3 DEF TypeInv, TypeOK, EvalTypeOK, ReadClock, Goto
    <3> QED
      BY <1>2, <2>3, <3>1, ReadClockSafe, ScanOnly
  <2>4. ASSUME NEW r \in todo[c], NEW market \in Markets, TakeRule(c, r, market)
        PROVE  Safety'
    <3>1. OnlyC /\ pc[c] # "mark"
      BY <2>4 DEF TypeInv, TypeOK, EvalTypeOK, TakeRule, Goto
    <3> QED
      BY <1>2, <2>4, <3>1, TakeRuleSafe, ScanOnly
  <2>5. CASE Quote(c)
    <3>1. OnlyC /\ pc[c] # "mark"
      BY <2>5 DEF TypeInv, TypeOK, EvalTypeOK, Quote, EndIteration, Goto
    <3> QED
      BY <1>2, <2>5, <3>1, QuoteSafe, ScanOnly
  <2>6. CASE Notify(c)
    <3>1. OnlyC /\ pc[c] # "mark"
      BY <2>6 DEF TypeInv, TypeOK, EvalTypeOK, Notify, EndIteration, Goto
    <3> QED
      BY <1>2, <2>6, <3>1, NotifySafe, ScanOnly
  <2> QED
    BY <1>2, <2>1, <2>2, <2>3, <2>4, <2>5, <2>6, SaveSignalSafe, MarkSafe DEF ScanStep
<1>3. CASE UNCHANGED vars
  BY <1>3
  DEF vars, Safety, RowKeys, IDsUsed, MarksBacked, TimesInOrder, ScanShape,
      MarkCovers, CopiesCover, CopyCovers, Covered, CooldownActive, Exists, Used,
      Backed, HasSignal, Pending
<1> QED
  BY <1>1, <1>2, <1>3, TickSafe, RestartSafe DEF Next

\* The invariant everything else follows from.
THEOREM Invariance == Spec => []IInv
  BY SafetyInit, SafetyStep, TypeCorrect, ScanIsExclusive, PTL DEF Spec, IInv

\* Whatever is cancelled, fails or restarts, a row that claims to have
\* triggered has its signal in the log.
THEOREM MarksAreBacked == Spec => []MarkHasSignal
<1>1. IInv => MarkHasSignal
  BY DEF IInv, Safety, RowKeys, MarksBacked, Backed, MarkHasSignal
<1> QED
  BY <1>1, Invariance, PTL

\* The stored LastTriggeredAt covers every signal of its rule, but for the
\* causes the history variable records.
THEOREM MarksCover == Spec => []MarkCovers
<1>1. IInv => MarkCovers
  BY DEF IInv, Safety
<1> QED
  BY <1>1, Invariance, PTL
-----------------------------------------------------------------------------
\* The rule about to trigger may fire in AlertLog: it passed the cooldown check
\* on a copy that covers its signals, or its mark is known lost.
LEMMA MayFireAtSave ==
  ASSUME IInv, NEW c \in Callers, pc[c] = "save"
  PROVE  Alerts!MayFire(cur[c].id, now[c])
<1> DEFINE r == cur[c]
           t == now[c]
<1>1. ScanInv(c) /\ StoreTypeOK
  BY SafetyOfScan DEF IInv, TypeInv, TypeOK
<1>2. /\ r \in Rule /\ r.id \in RuleIDs /\ t \in Nat /\ r.last \in Int
      /\ Cooldown[r.id] \in Nat
  BY CooldownAssumption
  DEF IInv, TypeInv, TypeOK, EvalTypeOK, CurInHand, Evaluating, Rule, Times, Never
<1>3. \A i \in DOMAIN signals : signals[i].at <= t /\ signals[i].at \in Nat
  BY <1>1, SignalsType DEF ScanInv, Looping, Evaluating, Times
<1>4. r.id \in unmarked \/ \A i \in DOMAIN signals :
                             signals[i].rule = r.id => t - signals[i].at >= Cooldown[r.id]
  <2>1. CopyCovers(r) /\ ~CooldownActive(r, t)
    BY <1>1 DEF ScanInv
  <2> QED
    BY <1>2, <1>3, <2>1 DEF CopyCovers, Covered, CooldownActive, Never
<1> QED
  BY <1>3, <1>4 DEF Alerts!MayFire

LEMMA AlertStep == IInv /\ TypeInv' /\ [Next]_vars => [Alerts!AlertNext]_(Alerts!alertVars)
<1> SUFFICES ASSUME IInv, TypeInv', [Next]_vars
             PROVE  Alerts!AlertNext \/ UNCHANGED <<signals, unmarked>>
  BY DEF Alerts!alertVars
<1> USE DEF IInv, TypeInv, TypeOK
<1>1. ASSUME UNCHANGED signals, unmarked \subseteq unmarked' PROVE Alerts!AlertNext
  <2>1. unmarked' \ unmarked \in SUBSET RuleIDs /\ unmarked' = unmarked \cup (unmarked' \ unmarked)
    BY <1>1 DEF StoreTypeOK
  <2>2. Alerts!Loosen(unmarked' \ unmarked)
    BY <1>1, <2>1 DEF Alerts!Loosen
  <2> QED
    BY <2>1, <2>2 DEF Alerts!AlertNext
<1>2. ASSUME ServiceStep PROVE Alerts!AlertNext
  <2>1. UNCHANGED signals /\ unmarked \subseteq unmarked'
    BY <1>2
    DEF ServiceStep, CreateRule, GetForPatch, GetForDelete, SavePatch, DeleteRow,
        RequestFails, storeVars
  <2> QED
    BY <1>1, <2>1
<1>3. ASSUME NEW c \in Callers, NEW outcome \in WriteOutcomes(cancelled[c]),
             SaveSignal(c, outcome)
      PROVE  Alerts!AlertNext
  <2>1. CASE outcome = "failed"
    BY <1>1, <1>3, <2>1 DEF SaveSignal
  <2>2. CASE outcome # "failed"
    <3> DEFINE id == cur[c].id
               t == now[c]
    <3>1. Alerts!MayFire(id, t)
      BY <1>3, MayFireAtSave DEF SaveSignal
    <3>2. id \in RuleIDs /\ t \in Times
      BY <1>3 DEF SaveSignal, EvalTypeOK, CurInHand, Evaluating, Rule
    <3>3. signals' = Append(signals, [rule |-> id, at |-> t, excused |-> id \in unmarked])
      BY <1>3, <2>2, Zenon DEF SaveSignal, WithSignal
    <3>4. unmarked' = IF outcome = "applied" THEN unmarked \cup {id} ELSE unmarked
      BY <1>3 DEF SaveSignal
    <3>5. Alerts!Fire(id, t, outcome = "applied")
      BY <3>1, <3>3, <3>4, Zenon DEF Alerts!Fire
    <3>6. (outcome = "applied") \in BOOLEAN
      BY Zenon
    <3> HIDE DEF id, t
    <3> QED
      BY <3>2, <3>5, <3>6, Zenon DEF Alerts!AlertNext
  <2> QED
    BY <2>1, <2>2
<1>4. ASSUME NEW c \in Callers, NEW outcome \in WriteOutcomes(cancelled[c]),
             Mark(c, outcome)
      PROVE  Alerts!AlertNext
  <2>1. CASE outcome = "failed"
    BY <1>1, <1>4, <2>1 DEF Mark, MarkWithRow
  <2>2. CASE outcome # "failed"
    <3>1. cur[c] \in Rule /\ now[c] \in Times
      BY <1>4 DEF Mark, MarkWithRow, EvalTypeOK, CurInHand, Evaluating
    <3> DEFINE id == MarkTriggered(cur[c], now[c]).id
    <3>2. id \in RuleIDs
      BY <3>1, RowUpdateType DEF Rule
    <3>3. Alerts!Tighten(id)
      BY <1>4, <2>2 DEF Mark, MarkWithRow, Alerts!Tighten
    <3> QED
      BY <3>2, <3>3 DEF Alerts!AlertNext
  <2> QED
    BY <2>1, <2>2
<1>5. ASSUME NEW c \in Callers,
             TryLock(c) \/ Cancel(c) \/ Ingest(c) \/ ListEnabled(c) \/ ReadClock(c)
             \/ (\E r \in todo[c], market \in Markets : TakeRule(c, r, market))
             \/ Abort(c) \/ Quote(c) \/ Notify(c) \/ Finish(c) \/ Return(c)
      PROVE  UNCHANGED <<signals, unmarked>>
  BY <1>5
  DEF TryLock, Cancel, Ingest, ListEnabled, ListRows, ReadClock, TakeRule, Abort, Quote,
      Notify, Finish, Return, storeVars
<1>6. CASE Tick
  BY <1>6 DEF Tick
<1>7. CASE Restart
  <2>1. CASE Durable
    BY <1>1, <1>7, <2>1 DEF Restart
  <2>2. CASE ~Durable
    <3>1. Alerts!Forget
      BY <1>7, <2>2, Zenon DEF Restart, Alerts!Forget
    <3> QED
      BY <3>1 DEF Alerts!AlertNext
  <2> QED
    BY <2>1, <2>2
<1>8. CASE UNCHANGED vars
  BY <1>8 DEF vars
<1> QED
  BY <1>2, <1>3, <1>4, <1>5, <1>6, <1>7, <1>8 DEF Next, ScanStep

\* The service implements AlertLog, for any rules, callers and requests.
THEOREM ImplementsAlertLog == Spec => AlertPromise
<1>1. Init => Alerts!AlertInit
  BY DEF Init, StoreInit, Alerts!AlertInit
<1> QED
  BY <1>1, AlertStep, Invariance, TypeCorrect, PTL DEF Spec, AlertPromise, Alerts!AlertSpec

\* So its signals are in time order, and those of one rule a cooldown apart
\* unless the rule's mark was lost to a cause the history records.
THEOREM CooldownKept == Spec => [](Alerts!Ordered /\ Alerts!Spaced)
<1>1. Alerts!AlertSpec => []Alerts!AlertInv
  BY Alerts!AlertSafety
<1>2. Alerts!AlertInv => Alerts!Ordered /\ Alerts!Spaced
  BY DEF Alerts!AlertInv
<1> QED
  BY <1>1, <1>2, ImplementsAlertLog, PTL DEF AlertPromise
-----------------------------------------------------------------------------
\* Outside the evaluator's loop a scan has no report yet.
Outside == {"idle", "ingest", "list", "clock"}

\* What a report can still become: rules to do are not in it, the rule in hand
\* is in no list, but for a mark that failed, and has its signal stored when it
\* is about to be announced.
ReportShape(c) ==
  /\ pc[c] \in Outside => report[c] = EmptyReport
  /\ \A r \in todo[c] : r.id \notin report[c].evaluated
  /\ cur[c] # NoRule => cur[c].id \notin report[c].skipped \cup CreatedIDs(c)
  /\ pc[c] \in {"quote", "save", "mark"} => cur[c].id \notin report[c].failed
  /\ pc[c] = "notify" =>
       /\ HasSignal(cur[c].id, now[c])
       /\ cur[c].id \in report[c].failed => cur[c].id \in unmarked \/ cancelled[c]

ReportOK(c) == ReportAddsUp(c) /\ ReportShape(c)
ReportInv == \A c \in Callers : ReportOK(c)

\* What a step leaves alone it cannot spoil: the log, the announcements and
\* the marks known lost only grow.
LEMMA ReportKept ==
  ASSUME NEW c \in Callers, ReportOK(c),
         pc'[c] = pc[c], todo'[c] = todo[c], cur'[c] = cur[c], now'[c] = now[c],
         report'[c] = report[c], cancelled[c] => cancelled'[c],
         notified \subseteq notified', unmarked \subseteq unmarked',
         \A id, t : HasSignal(id, t) => HasSignal(id, t)'
  PROVE  ReportOK(c)'
<1>1. CreatedIDs(c)' = CreatedIDs(c) /\ InFlight(c)' = InFlight(c)
  BY DEF CreatedIDs, InFlight
<1>2. ReportAddsUp(c)'
  BY <1>1 DEF ReportOK, ReportAddsUp
<1>3. ReportShape(c)'
  BY <1>1 DEF ReportOK, ReportShape
<1> QED
  BY <1>2, <1>3 DEF ReportOK

\* A step into an empty report with no rule in hand.
LEMMA ReportEmptied ==
  ASSUME NEW c \in Callers, report'[c] = EmptyReport, cur'[c] = NoRule,
         pc'[c] \notin {"quote", "save", "mark", "notify"}
  PROVE  ReportOK(c)'
<1>1. CreatedIDs(c)' = {} /\ InFlight(c)' = {}
  BY DEF CreatedIDs, InFlight, EmptyReport
<1> QED
  BY <1>1 DEF ReportOK, ReportAddsUp, ReportShape, EmptyReport

LEMMA ReportInit == Init => ReportInv
<1> SUFFICES ASSUME Init, NEW c \in Callers PROVE ReportOK(c)
  BY DEF ReportInv
<1>1. report[c] = EmptyReport /\ cur[c] = NoRule /\ pc[c] = "idle"
  BY DEF Init, EvalInit, AllCallers
<1>2. CreatedIDs(c) = {} /\ InFlight(c) = {}
  BY <1>1 DEF CreatedIDs, InFlight, EmptyReport
<1> QED
  BY <1>1, <1>2 DEF ReportOK, ReportAddsUp, ReportShape, EmptyReport

\* A step of the one scan concerns only its own report.
LEMMA ReportOfScan ==
  ASSUME TypeInv, OneScan, Safety, ReportInv, NEW c \in Callers, pc[c] # "idle",
         \A d \in Callers \ {c} : /\ pc'[d] = pc[d] /\ cur'[d] = cur[d]
                                  /\ report'[d] = report[d],
         ReportOK(c)'
  PROVE  ReportInv'
<1>1. ASSUME NEW d \in Callers \ {c} PROVE ReportOK(d)'
  <2>1. pc[d] = "idle" /\ cur[d] = NoRule
    BY OthersIdle DEF TypeInv, CurInHand, Evaluating
  <2>2. report[d] = EmptyReport
    BY <2>1 DEF ReportInv, ReportOK, ReportShape, Outside
  <2>3. report'[d] = EmptyReport /\ cur'[d] = NoRule /\ pc'[d] = "idle"
    BY <1>1, <2>1, <2>2
  <2> QED
    BY <2>3, ReportEmptied
<1> QED
  BY <1>1 DEF ReportInv

\* One more rule is taken, and skipped at once unless its quote is asked for.
LEMMA TakeRuleReports ==
  ASSUME TypeInv, Safety, NEW c \in Callers, ReportOK(c), NEW r \in todo[c],
         NEW market \in Markets, TakeRule(c, r, market)
  PROVE  ReportOK(c)'
<1> USE DEF TypeInv, TypeOK, EvalTypeOK
<1>1. /\ pc[c] = "loop" /\ todo'[c] = todo[c] \ {r} /\ cur[c] = NoRule
      /\ r.id \in RuleIDs /\ r # NoRule /\ UNCHANGED <<storeVars, notified, now, cancelled>>
  BY NoRuleAssumption DEF TakeRule, CurInHand, Evaluating, Rule
<1>2. /\ report'[c].created = report[c].created /\ report'[c].failed = report[c].failed
      /\ report'[c].evaluated = report[c].evaluated \cup {r.id}
      /\ \/ /\ pc'[c] = "quote" /\ cur'[c] = r
            /\ report'[c].skipped = report[c].skipped
         \/ /\ pc'[c] = "loop" /\ cur'[c] = NoRule
            /\ report'[c].skipped = report[c].skipped \cup {r.id}
  BY <1>1 DEF TakeRule, Goto, Report
<1>3. \A s \in todo'[c] : s.id # r.id
  BY <1>1 DEF Safety, ScanShape
<1>4. /\ CreatedIDs(c)' = CreatedIDs(c) /\ InFlight(c) = {}
      /\ InFlight(c)' = IF cur'[c] = NoRule THEN {} ELSE {r.id}
  BY <1>1, <1>2 DEF CreatedIDs, InFlight
<1>5. r.id \notin report[c].skipped \cup report[c].failed \cup CreatedIDs(c)
  BY <1>1, <1>4 DEF ReportOK, ReportShape, ReportAddsUp
<1>6. \A id, t : HasSignal(id, t)' <=> HasSignal(id, t)
  BY <1>1 DEF HasSignal, storeVars
<1>7. ReportAddsUp(c)'
  BY <1>1, <1>2, <1>4, <1>5, <1>6 DEF ReportOK, ReportAddsUp, storeVars
<1>8. ReportShape(c)'
  BY <1>1, <1>2, <1>3, <1>4, <1>5 DEF ReportOK, ReportShape, Outside
<1> QED
  BY <1>7, <1>8 DEF ReportOK

\* The quote fails, is turned down, or the rule stays in hand for its signal.
LEMMA QuoteReports ==
  ASSUME TypeInv, Safety, NEW c \in Callers, ReportOK(c), Quote(c)
  PROVE  ReportOK(c)'
<1> USE DEF TypeInv, TypeOK, EvalTypeOK
<1> DEFINE r == cur[c]
<1>1. /\ pc[c] = "quote" /\ r # NoRule /\ r \in Rule /\ r.id \in RuleIDs
      /\ UNCHANGED <<storeVars, notified, todo, now, cancelled>>
  BY DEF Quote, CurInHand, Evaluating, Rule
<1>2. /\ report'[c].created = report[c].created
      /\ report'[c].evaluated = report[c].evaluated
      /\ \/ /\ pc'[c] = "save" /\ cur'[c] = r /\ report'[c].failed = report[c].failed
            /\ report'[c].skipped = report[c].skipped
         \/ /\ pc'[c] = "loop" /\ cur'[c] = NoRule
            /\ \/ /\ report'[c].failed = report[c].failed \cup {r.id}
                  /\ report'[c].skipped = report[c].skipped
               \/ /\ report'[c].skipped = report[c].skipped \cup {r.id}
                  /\ report'[c].failed = report[c].failed
  BY <1>1 DEF Quote, EndIteration, Goto, Report, Skipped, Failed
<1>3. /\ CreatedIDs(c)' = CreatedIDs(c) /\ InFlight(c) = {r.id}
      /\ InFlight(c)' = IF cur'[c] = NoRule THEN {} ELSE {r.id}
  BY <1>1, <1>2 DEF CreatedIDs, InFlight
<1>4. r.id \notin report[c].skipped \cup report[c].failed \cup CreatedIDs(c)
  BY <1>1 DEF ReportOK, ReportShape
<1>5. \A id, t : HasSignal(id, t)' <=> HasSignal(id, t)
  BY <1>1 DEF HasSignal, storeVars
<1> HIDE DEF r
<1>6. ReportAddsUp(c)'
  BY <1>1, <1>2, <1>3, <1>4, <1>5 DEF ReportOK, ReportAddsUp, storeVars
<1>7. ReportShape(c)'
  BY <1>1, <1>2, <1>3, <1>4, <1>5 DEF ReportOK, ReportShape, Outside, r
<1> QED
  BY <1>6, <1>7 DEF ReportOK

\* A signal that was not saved fails its rule; the log only grows.
LEMMA SaveSignalReports ==
  ASSUME TypeInv, Safety, NEW c \in Callers, ReportOK(c),
         NEW outcome \in WriteOutcomes(cancelled[c]), SaveSignal(c, outcome)
  PROVE  ReportOK(c)'
<1> USE DEF TypeInv, TypeOK, EvalTypeOK
<1> DEFINE r == cur[c]
<1>1. /\ pc[c] = "save" /\ r # NoRule /\ r \in Rule /\ r.id \in RuleIDs /\ now[c] \in Times
      /\ UNCHANGED <<notified, todo, now, cancelled>> /\ unmarked \subseteq unmarked'
  BY DEF SaveSignal, CurInHand, Evaluating, Rule
<1>2. /\ report'[c].created = report[c].created
      /\ report'[c].evaluated = report[c].evaluated
      /\ report'[c].skipped = report[c].skipped
      /\ \/ pc'[c] = "mark" /\ cur'[c] = r /\ report'[c].failed = report[c].failed
         \/ /\ pc'[c] = "loop" /\ cur'[c] = NoRule
            /\ report'[c].failed = report[c].failed \cup {r.id}
  BY <1>1 DEF SaveSignal, EndIteration, Goto, Report, Failed
<1>3. /\ CreatedIDs(c)' = CreatedIDs(c) /\ InFlight(c) = {r.id}
      /\ InFlight(c)' = IF cur'[c] = NoRule THEN {} ELSE {r.id}
  BY <1>1, <1>2 DEF CreatedIDs, InFlight
<1>4. r.id \notin report[c].skipped \cup report[c].failed \cup CreatedIDs(c)
  BY <1>1 DEF ReportOK, ReportShape
<1>5. \A id, t : HasSignal(id, t) => HasSignal(id, t)'
  <2>1. CASE outcome = "failed"
    BY <2>1 DEF SaveSignal, HasSignal
  <2>2. CASE outcome # "failed"
    <3>1. signals' = WithSignal(r.id, now[c])
      BY <2>2 DEF SaveSignal
    <3>2. /\ Len(signals) \in Nat /\ DOMAIN signals = 1 .. Len(signals)
          /\ DOMAIN signals' = 1 .. Len(signals) + 1
          /\ \A i \in DOMAIN signals : signals'[i] = signals[i]
      BY <1>1, <3>1, LogGrows
    <3> QED
      BY <3>2 DEF HasSignal
  <2> QED
    BY <2>1, <2>2
<1> HIDE DEF r
<1>6. ReportAddsUp(c)'
  BY <1>1, <1>2, <1>3, <1>4, <1>5 DEF ReportOK, ReportAddsUp
<1>7. ReportShape(c)'
  BY <1>1, <1>2, <1>3, <1>4, <1>5 DEF ReportOK, ReportShape, Outside, r
<1> QED
  BY <1>6, <1>7 DEF ReportOK

\* A mark that failed is in the report and among the marks known lost, unless
\* it was applied after all, which only happens to a cancelled scan.
LEMMA MarkReports ==
  ASSUME TypeInv, Safety, NEW c \in Callers, ReportOK(c),
         NEW outcome \in WriteOutcomes(cancelled[c]), Mark(c, outcome)
  PROVE  ReportOK(c)'
<1> USE DEF TypeInv, TypeOK, EvalTypeOK
<1> DEFINE r == cur[c]
<1>1. /\ pc[c] = "mark" /\ r # NoRule /\ r \in Rule /\ r.id \in RuleIDs /\ now[c] \in Times
      /\ UNCHANGED <<notified, todo, now, cancelled, cur, signals>> /\ pc'[c] = "notify"
  BY DEF Mark, MarkWithRow, Goto, CurInHand, Evaluating, Rule
<1>2. MarkTriggered(r, now[c]).id = r.id
  BY <1>1 DEF MarkTriggered, Rule
<1>3. /\ report'[c].created = report[c].created
      /\ report'[c].evaluated = report[c].evaluated
      /\ report'[c].skipped = report[c].skipped
      /\ \/ report'[c].failed = report[c].failed /\ unmarked' = unmarked \ {r.id}
         \/ /\ report'[c].failed = report[c].failed \cup {r.id}
            /\ \/ unmarked' = unmarked \cup {r.id}
               \/ unmarked' = unmarked \ {r.id} /\ cancelled[c]
  <2>1. outcome = "ok" \/ outcome = "failed" \/ (outcome = "applied" /\ cancelled[c])
    BY Zenon DEF WriteOutcomes
  <2> QED
    BY <1>1, <1>2, <2>1 DEF Mark, MarkWithRow, Report, Failed
<1>4. /\ CreatedIDs(c)' = CreatedIDs(c) /\ InFlight(c) = {r.id} /\ InFlight(c)' = {r.id}
  BY <1>1, <1>3 DEF CreatedIDs, InFlight
<1>5. r.id \notin report[c].skipped \cup report[c].failed \cup CreatedIDs(c)
  BY <1>1 DEF ReportOK, ReportShape
<1>6. HasSignal(r.id, now[c])' /\ \A id, t : HasSignal(id, t)' <=> HasSignal(id, t)
  BY <1>1 DEF HasSignal, Safety, ScanShape
<1> HIDE DEF r
<1>7. ReportAddsUp(c)'
  BY <1>1, <1>3, <1>4, <1>5, <1>6 DEF ReportOK, ReportAddsUp
<1>8. ReportShape(c)'
  BY <1>1, <1>3, <1>4, <1>5, <1>6 DEF ReportOK, ReportShape, Outside, r
<1> QED
  BY <1>7, <1>8 DEF ReportOK

\* The signal that was stored is announced and reported.
LEMMA NotifyReports ==
  ASSUME TypeInv, Safety, NEW c \in Callers, ReportOK(c), Notify(c)
  PROVE  ReportOK(c)'
<1> USE DEF TypeInv, TypeOK, EvalTypeOK
<1> DEFINE r == cur[c]
           s == [rule |-> r.id, at |-> now[c]]
<1>1. /\ pc[c] = "notify" /\ r # NoRule /\ r.id \in RuleIDs
      /\ UNCHANGED <<storeVars, todo, now, cancelled>>
      /\ notified' = notified \cup {s} /\ s.rule = r.id /\ s.at = now[c]
  BY DEF Notify, CurInHand, Evaluating, Rule
<1>2. /\ report'[c].created = report[c].created \cup {s}
      /\ report'[c].evaluated = report[c].evaluated
      /\ report'[c].skipped = report[c].skipped
      /\ report'[c].failed = report[c].failed
      /\ pc'[c] = "loop" /\ cur'[c] = NoRule
  BY <1>1 DEF Notify, EndIteration, Goto, Report
<1> HIDE DEF s
<1>3. CreatedIDs(c)' = CreatedIDs(c) \cup {r.id} /\ InFlight(c) = {r.id} /\ InFlight(c)' = {}
  BY <1>1, <1>2 DEF CreatedIDs, InFlight
<1>4. /\ r.id \notin report[c].skipped
      /\ HasSignal(r.id, now[c])
      /\ r.id \in report[c].failed => r.id \in unmarked \/ cancelled[c]
  BY <1>1 DEF ReportOK, ReportShape
<1>5. \A id, t : HasSignal(id, t)' <=> HasSignal(id, t)
  BY <1>1 DEF HasSignal, storeVars
<1> HIDE DEF r
<1>6. ReportAddsUp(c)'
  BY <1>1, <1>2, <1>3, <1>4, <1>5 DEF ReportOK, ReportAddsUp, storeVars
<1>7. ReportShape(c)'
  BY <1>1, <1>2, <1>3, <1>4, <1>5 DEF ReportOK, ReportShape, Outside, r
<1> QED
  BY <1>6, <1>7 DEF ReportOK

\* Every step keeps every report.
LEMMA ReportStep == TypeInv /\ OneScan /\ Safety /\ ReportInv /\ [Next]_vars => ReportInv'
<1> SUFFICES ASSUME TypeInv, OneScan, Safety, ReportInv, [Next]_vars PROVE ReportInv'
  OBVIOUS
<1>1. ASSUME UNCHANGED evalVars, UNCHANGED signals, unmarked \subseteq unmarked'
      PROVE  ReportInv'
  <2>1. \A id, t : HasSignal(id, t) => HasSignal(id, t)'
    BY <1>1 DEF HasSignal
  <2> QED
    BY <1>1, <2>1, ReportKept DEF ReportInv, evalVars, scanVars
<1>2. ASSUME ServiceStep, UNCHANGED evalVars PROVE ReportInv'
  <2>1. UNCHANGED signals /\ unmarked \subseteq unmarked'
    BY <1>2
    DEF ServiceStep, CreateRule, GetForPatch, GetForDelete, SavePatch, DeleteRow,
        RequestFails, storeVars
  <2> QED
    BY <1>1, <1>2, <2>1
<1>3. ASSUME NEW c \in Callers, TryLock(c) \/ Cancel(c) \/ ScanStep(c) PROVE ReportInv'
  <2> USE DEF TypeInv, TypeOK, EvalTypeOK
  <2> DEFINE OnlyC == \A d \in Callers \ {c} : /\ pc'[d] = pc[d] /\ cur'[d] = cur[d]
                                               /\ report'[d] = report[d]
  <2>1. ReportOK(c)
    BY DEF ReportInv
  <2>2. CASE TryLock(c)
    <3>1. report'[c] = EmptyReport /\ cur'[c] = NoRule /\ pc'[c] = "ingest"
      BY <2>1, <2>2 DEF TryLock, Goto, CurInHand, Evaluating, ReportOK, ReportShape, Outside
    <3>2. \A id, t : HasSignal(id, t) => HasSignal(id, t)'
      BY <2>2 DEF TryLock, storeVars, HasSignal
    <3>3. ASSUME NEW d \in Callers \ {c} PROVE ReportOK(d)'
      BY <2>2, <3>2, ReportKept DEF TryLock, storeVars, Goto, ReportInv
    <3> QED
      BY <3>1, <3>3, ReportEmptied DEF ReportInv
  <2>3. CASE Cancel(c)
    <3>1. \A id, t : HasSignal(id, t) => HasSignal(id, t)'
      BY <2>3 DEF Cancel, storeVars, HasSignal
    <3>2. \A d \in Callers : cancelled[d] => cancelled'[d]
      BY <2>3 DEF Cancel
    <3> QED
      BY <2>3, <3>1, <3>2, ReportKept DEF Cancel, storeVars, ReportInv
  <2>4. CASE Ingest(c) \/ ListEnabled(c) \/ ReadClock(c)
    <3>1. OnlyC /\ pc[c] # "idle"
      BY <2>4 DEF Ingest, ListEnabled, ListRows, ReadClock, Goto
    <3>2. /\ report'[c] = EmptyReport /\ cur'[c] = NoRule
          /\ pc'[c] \in {"list", "clock", "loop", "done"}
      BY <2>1, <2>4
      DEF Ingest, ListEnabled, ListRows, ReadClock, Goto, CurInHand, Evaluating,
          ReportOK, ReportShape, Outside
    <3>3. ReportOK(c)'
      BY <3>2, ReportEmptied
    <3> QED
      BY <3>1, <3>3, ReportOfScan
  <2>5. CASE Abort(c) \/ Return(c)
    <3>1. OnlyC /\ pc[c] # "idle"
      BY <2>5 DEF Abort, Return, Goto
    <3>2. report'[c] = EmptyReport /\ cur'[c] = NoRule /\ pc'[c] \in {"idle", "done"}
      BY <2>5 DEF Abort, Return, Goto, CurInHand, Evaluating
    <3>3. ReportOK(c)'
      BY <3>2, ReportEmptied
    <3> QED
      BY <3>1, <3>3, ReportOfScan
  <2>6. CASE Finish(c)
    <3>1. OnlyC /\ pc[c] = "loop" /\ pc'[c] = "done"
          /\ UNCHANGED <<storeVars, todo, cur, now, cancelled, report, notified>>
      BY <2>6 DEF Finish, Goto
    <3>2. CreatedIDs(c)' = CreatedIDs(c) /\ InFlight(c)' = InFlight(c)
          /\ \A id, t : HasSignal(id, t) <=> HasSignal(id, t)'
      BY <3>1 DEF CreatedIDs, InFlight, HasSignal, storeVars
    <3>3. ReportOK(c)'
      BY <2>1, <3>1, <3>2 DEF ReportOK, ReportAddsUp, ReportShape, Outside, storeVars
    <3> QED
      BY <3>1, <3>3, ReportOfScan
  <2>7. ASSUME NEW r \in todo[c], NEW market \in Markets, TakeRule(c, r, market)
        PROVE  ReportInv'
    <3>1. OnlyC /\ pc[c] # "idle"
      BY <2>7 DEF TakeRule, Goto
    <3> QED
      BY <2>1, <2>7, <3>1, TakeRuleReports, ReportOfScan
  <2>8. CASE Quote(c)
    <3>1. OnlyC /\ pc[c] # "idle"
      BY <2>8 DEF Quote, EndIteration, Goto, Skipped, Failed
    <3> QED
      BY <2>1, <2>8, <3>1, QuoteReports, ReportOfScan
  <2>9. ASSUME NEW outcome \in WriteOutcomes(cancelled[c]), SaveSignal(c, outcome)
        PROVE  ReportInv'
    <3>1. OnlyC /\ pc[c] # "idle"
      BY <2>9 DEF SaveSignal, EndIteration, Goto, Failed
    <3> QED
      BY <2>1, <2>9, <3>1, SaveSignalReports, ReportOfScan
  <2>10. ASSUME NEW outcome \in WriteOutcomes(cancelled[c]), Mark(c, outcome)
         PROVE  ReportInv'
    <3>1. OnlyC /\ pc[c] # "idle"
      BY <2>10 DEF Mark, MarkWithRow, Goto, Failed
    <3> QED
      BY <2>1, <2>10, <3>1, MarkReports, ReportOfScan
  <2>11. CASE Notify(c)
    <3>1. OnlyC /\ pc[c] # "idle"
      BY <2>11 DEF Notify, EndIteration, Goto
    <3> QED
      BY <2>1, <2>11, <3>1, NotifyReports, ReportOfScan
  <2> QED
    BY <1>3, <2>2, <2>3, <2>4, <2>5, <2>6, <2>7, <2>8, <2>9, <2>10, <2>11, Zenon DEF ScanStep
<1>4. ASSUME Tick, UNCHANGED <<serviceVars, evalVars>> PROVE ReportInv'
  BY <1>1, <1>4 DEF Tick
<1>5. CASE Restart
  <2>1. ASSUME NEW c \in Callers
        PROVE  report'[c] = EmptyReport /\ cur'[c] = NoRule /\ pc'[c] = "idle"
    BY <1>5 DEF Restart, AllCallers
  <2> QED
    BY <2>1, ReportEmptied DEF ReportInv
<1>6. CASE UNCHANGED vars
  BY <1>1, <1>6 DEF vars, evalVars, scanVars
<1> QED
  BY <1>2, <1>3, <1>4, <1>5, <1>6 DEF Next

LEMMA ReportInvariance == Spec => [](IInv /\ ReportInv)
<1>1. Init => ReportInv
  BY ReportInit
<1>2. IInv /\ ReportInv /\ [Next]_vars => ReportInv'
  BY ReportStep DEF IInv
<1> QED
  BY <1>1, <1>2, Invariance, PTL DEF Spec

\* Every report adds up: each rule in one list, every signal in it stored and
\* announced, nothing evaluated left out, whatever fails or is cancelled.
THEOREM ReportsAreSound == Spec => []ReportSound
<1>1. ReportInv => ReportSound
  BY DEF ReportInv, ReportOK, ReportSound
<1> QED
  BY <1>1, ReportInvariance, PTL

\* Nothing is handed to the notifier before its signal is in the log.
THEOREM AnnouncedAfterStored == Spec => AnnouncedIsStored
<1>1. IInv /\ ReportInv /\ [Next]_vars =>
        [\A s \in notified' \ notified : HasSignal(s.rule, s.at)]_vars
  <2> SUFFICES ASSUME IInv, ReportInv, Next, NEW s \in notified' \ notified
               PROVE  HasSignal(s.rule, s.at)
    BY Zenon
  <2>1. ASSUME NEW c \in Callers, Notify(c) PROVE HasSignal(s.rule, s.at)
    <3>1. s.rule = cur[c].id /\ s.at = now[c]
      BY <2>1 DEF Notify
    <3> QED
      BY <2>1, <3>1 DEF Notify, ReportInv, ReportOK, ReportShape
  <2>2. ASSUME NEW c \in Callers, ScanStep(c), ~Notify(c) PROVE notified' = notified
    <3>1. CASE Ingest(c) \/ ListEnabled(c) \/ ReadClock(c)
      BY <3>1 DEF Ingest, ListEnabled, ListRows, ReadClock
    <3>2. CASE Abort(c) \/ Quote(c) \/ Finish(c) \/ Return(c)
      BY <3>2 DEF Abort, Quote, Finish, Return
    <3>3. CASE \E r \in todo[c], market \in Markets : TakeRule(c, r, market)
      BY <3>3 DEF TakeRule
    <3>4. CASE \E outcome \in WriteOutcomes(cancelled[c]) :
                 SaveSignal(c, outcome) \/ Mark(c, outcome)
      BY <3>4 DEF SaveSignal, Mark, MarkWithRow
    <3> QED
      BY <2>2, <3>1, <3>2, <3>3, <3>4, Zenon DEF ScanStep
  <2>3. ASSUME NEW c \in Callers, TryLock(c) \/ Cancel(c) PROVE notified' = notified
    BY <2>3 DEF TryLock, Cancel
  <2>4. ASSUME UNCHANGED evalVars \/ Restart PROVE notified' = notified
    BY <2>4 DEF evalVars, Restart
  <2>5. \/ \E c \in Callers : TryLock(c) \/ Cancel(c) \/ ScanStep(c)
        \/ UNCHANGED evalVars \/ Restart
    BY Zenon DEF Next
  <2> QED
    BY <2>1, <2>2, <2>3, <2>4, <2>5
<1> QED
  BY <1>1, ReportInvariance, PTL DEF Spec, AnnouncedIsStored

\* One bad rule never blocks the others: a step of a scan that is not cancelled
\* leaves the set of rules it has evaluated or still will as it is.
THEOREM ListedStaysListed == Spec => NoRuleLost
<1>1. TypeInv /\ [Next]_vars =>
        [\A c \in Callers :
           Running(c) /\ (Running(c)' \/ pc'[c] = "done") /\ ~cancelled'[c]
           => Listed(c)' = Listed(c)]_vars
  <2> SUFFICES ASSUME TypeInv, Next, NEW c \in Callers,
                      Running(c), Running(c)' \/ pc'[c] = "done", ~cancelled'[c]
               PROVE  Listed(c)' = Listed(c)
    BY Zenon
  <2> USE DEF TypeInv, TypeOK, EvalTypeOK
  <2>1. ASSUME pc'[c] # "done", todo'[c] = todo[c], report'[c].evaluated = report[c].evaluated
        PROVE  Listed(c)' = Listed(c)
    BY <2>1 DEF Listed, Running
  <2>2. CASE UNCHANGED evalVars
    BY <2>1, <2>2 DEF evalVars, scanVars, Running
  <2>3. ASSUME NEW d \in Callers \ {c}, TryLock(d) \/ Cancel(d) \/ ScanStep(d)
        PROVE  Listed(c)' = Listed(c)
    <3>1. pc'[c] = pc[c] /\ todo'[c] = todo[c] /\ report'[c] = report[c]
      BY <2>3
      DEF ScanStep, TryLock, Cancel, Ingest, ListEnabled, ListRows, ReadClock, TakeRule,
          Abort, Quote, SaveSignal, Mark, MarkWithRow, Notify, Finish, Return,
          EndIteration, Goto, Skipped, Failed
    <3> QED
      BY <2>1, <3>1 DEF Running
  <2>4. ASSUME NEW r \in todo[c], NEW market \in Markets, TakeRule(c, r, market)
        PROVE  Listed(c)' = Listed(c)
    <3>1. /\ todo'[c] = todo[c] \ {r} /\ pc[c] # "done" /\ pc'[c] # "done"
          /\ report'[c].evaluated = report[c].evaluated \cup {r.id}
      BY <2>4 DEF TakeRule, Goto, Report
    <3> QED
      BY <3>1 DEF Listed
  <2>5. CASE Finish(c)
    BY <2>5 DEF Finish, Goto, Listed
  <2>6. ASSUME TryLock(c) \/ Cancel(c) \/ Ingest(c) \/ ListEnabled(c) \/ Abort(c) \/ Return(c)
        PROVE  FALSE
    BY <2>6
    DEF TryLock, Cancel, Ingest, ListEnabled, ListRows, Abort, Return, Goto, Running
  <2>7. CASE ReadClock(c) \/ Quote(c) \/ Notify(c)
             \/ \E outcome \in WriteOutcomes(cancelled[c]) :
                  SaveSignal(c, outcome) \/ Mark(c, outcome)
    <3>1. pc'[c] # "done" /\ todo'[c] = todo[c] /\ report'[c].evaluated = report[c].evaluated
      BY <2>7
      DEF ReadClock, Quote, SaveSignal, Mark, MarkWithRow, Notify, EndIteration, Goto,
          Skipped, Failed, Report
    <3> QED
      BY <2>1, <3>1
  <2>8. CASE Restart
    BY <2>8 DEF Restart, AllCallers, Running
  <2> QED
    BY <2>2, <2>3, <2>4, <2>5, <2>6, <2>7, <2>8 DEF Next, ScanStep
<1> QED
  BY <1>1, TypeCorrect, PTL DEF Spec, NoRuleLost
-----------------------------------------------------------------------------
\* A scan gets its copies from the table, where only enabled rows are listed.
LEMMA CopiesComeFromRows ==
  ASSUME TypeInv, [Next]_vars, NEW c \in Callers
  PROVE  ScanCopies(c)' \subseteq ScanCopies(c) \cup EnabledRows
<1> USE DEF TypeInv, TypeOK, EvalTypeOK
<1>1. ASSUME todo'[c] \subseteq todo[c], cur'[c] \in {cur[c], NoRule}
      PROVE  ScanCopies(c)' \subseteq ScanCopies(c)
  BY <1>1 DEF ScanCopies
<1>2. CASE UNCHANGED evalVars
  BY <1>1, <1>2 DEF evalVars, scanVars
<1>3. ASSUME NEW d \in Callers, ListEnabled(d)
      PROVE  ScanCopies(c)' \subseteq ScanCopies(c) \cup EnabledRows
  BY <1>3 DEF ListEnabled, ListRows, ScanCopies
<1>4. ASSUME NEW d \in Callers, NEW r \in todo[d], NEW market \in Markets,
             TakeRule(d, r, market)
      PROVE  ScanCopies(c)' \subseteq ScanCopies(c)
  BY <1>4 DEF TakeRule, ScanCopies
<1>5. ASSUME NEW d \in Callers,
             \/ TryLock(d) \/ Cancel(d) \/ Ingest(d) \/ ReadClock(d) \/ Abort(d) \/ Quote(d)
             \/ \E outcome \in WriteOutcomes(cancelled[d]) :
                  SaveSignal(d, outcome) \/ Mark(d, outcome)
             \/ Notify(d) \/ Finish(d) \/ Return(d)
      PROVE  ScanCopies(c)' \subseteq ScanCopies(c)
  <2>1. todo'[c] \subseteq todo[c] /\ cur'[c] \in {cur[c], NoRule}
    BY <1>5
    DEF TryLock, Cancel, Ingest, ReadClock, Abort, Quote, SaveSignal, Mark, MarkWithRow,
        Notify, Finish, Return, EndIteration
  <2> QED
    BY <1>1, <2>1
<1>6. CASE Restart
  BY <1>1, <1>6 DEF Restart, AllCallers
<1> QED
  BY <1>2, <1>3, <1>4, <1>5, <1>6 DEF Next, ScanStep, vars, evalVars, scanVars

\* A row comes to be what it is from a fresh ID, a PATCH or a scan that held a
\* copy of it.
RowOrigin(id) ==
  \/ rules'[id] \in {rules[id], NoRule}
  \/ command[id] = "none"
  \/ \E q \in Reqs : /\ req[q].op = "patch" /\ req[q].copy = rules'[id]
                     /\ req[q] # NoReq /\ req[q].copy.id = id
  \/ HeldByScan(id)

LEMMA RowsComeFrom ==
  ASSUME TypeInv, [Next]_vars, NEW id \in RuleIDs
  PROVE  RowOrigin(id)
<1> USE DEF TypeInv, TypeOK, StoreTypeOK
<1>1. ASSUME NEW o \in Owners, NEW i \in RuleIDs, NEW outcome \in AppliedOutcomes,
             CreateRule(o, i, outcome)
      PROVE  RowOrigin(id)
  <2>1. rules' = [rules EXCEPT ![i] = NewRule(i, o)] /\ command[i] = "none"
    BY <1>1 DEF CreateRule, Saved, NewRule
  <2> QED
    BY <2>1 DEF RowOrigin
<1>2. ASSUME NEW q \in Reqs, NEW outcome \in AppliedOutcomes, SavePatch(q, outcome)
      PROVE  RowOrigin(id)
  BY <1>2 DEF SavePatch, Saved, NoReq, RowOrigin
<1>3. ASSUME NEW q \in Reqs, NEW outcome \in AppliedOutcomes, DeleteRow(q, outcome)
      PROVE  RowOrigin(id)
  BY <1>3 DEF DeleteRow, Deleted, RowOrigin
<1>4. ASSUME NEW c \in Callers, NEW outcome \in WriteOutcomes(cancelled[c]), Mark(c, outcome)
      PROVE  RowOrigin(id)
  <2>1. cur[c] \in Rule /\ cur[c] # NoRule
    BY <1>4 DEF Mark, MarkWithRow, EvalTypeOK, CurInHand, Evaluating
  <2>2. MarkTriggered(cur[c], now[c]).id = cur[c].id
    BY <2>1 DEF MarkTriggered, Rule
  <2>3. rules'[id] = rules[id] \/ cur[c].id = id
    BY <1>4, <2>2 DEF Mark, MarkWithRow, Saved
  <2>4. cur[c].id = id => HeldByScan(id)
    BY <2>1 DEF HeldByScan, ScanCopies
  <2> QED
    BY <2>3, <2>4 DEF RowOrigin
<1>5. ASSUME Restart PROVE RowOrigin(id)
  <2>1. rules' = rules \/ rules' = [i \in RuleIDs |-> NoRule]
    BY <1>5, Zenon DEF Restart
  <2> QED
    BY <2>1 DEF RowOrigin
<1>6. ASSUME UNCHANGED rules PROVE RowOrigin(id)
  BY <1>6 DEF RowOrigin
<1>7. ASSUME NEW c \in Callers,
             TryLock(c) \/ Cancel(c) \/ Ingest(c) \/ ListEnabled(c) \/ ReadClock(c)
             \/ (\E r \in todo[c], market \in Markets : TakeRule(c, r, market))
             \/ Abort(c) \/ Quote(c)
             \/ (\E outcome \in WriteOutcomes(cancelled[c]) : SaveSignal(c, outcome))
             \/ Notify(c) \/ Finish(c) \/ Return(c)
      PROVE  UNCHANGED rules
  BY <1>7
  DEF TryLock, Cancel, Ingest, ListEnabled, ListRows, ReadClock, TakeRule, Abort,
      Quote, SaveSignal, Notify, Finish, Return, storeVars
<1>8. ASSUME NEW q \in Reqs,
             RequestFails(q) \/ \E o \in Owners, i \in RuleIDs :
                GetForDelete(q, o, i) \/ \E b \in BOOLEAN : GetForPatch(q, o, i, b)
      PROVE  UNCHANGED rules
  BY <1>8 DEF RequestFails, GetForDelete, GetForPatch, storeVars
<1>9. Tick \/ UNCHANGED vars => UNCHANGED rules
  BY DEF Tick, vars
<1> QED
  BY <1>1, <1>2, <1>3, <1>4, <1>5, <1>6, <1>7, <1>8, <1>9 DEF Next, ServiceStep, ScanStep

\* A request holds a copy of a row only if it read that row.
LEMMA RequestsComeFromRows ==
  ASSUME TypeInv, Safety, [Next]_vars, NEW id \in RuleIDs, HeldByRequest(id)'
  PROVE  HeldByRequest(id) \/ Exists(id)
<1> USE DEF TypeInv, TypeOK, ServiceTypeOK
<1> DEFINE Read(q) == req'[q] = NoReq \/ req'[q] = req[q] \/ \E i \in RuleIDs :
                        Exists(i) /\ req'[q].copy.id = i
<1>1. ASSUME NEW q \in Reqs PROVE Read(q)
  <2>1. ASSUME NEW p \in Reqs, NEW o \in Owners, NEW i \in RuleIDs, NEW b \in BOOLEAN,
               GetForPatch(p, o, i, b)
        PROVE  Read(q)
    <3>1. WithEnabled(rules[i], b).id = i /\ Exists(i)
      BY <2>1 DEF GetForPatch, Safety, RowKeys, WithEnabled, Exists, StoreTypeOK, Rule
    <3> QED
      BY <2>1, <3>1 DEF GetForPatch
  <2>2. ASSUME NEW p \in Reqs, NEW o \in Owners, NEW i \in RuleIDs, GetForDelete(p, o, i)
        PROVE  Read(q)
    BY <2>2 DEF GetForDelete, Safety, RowKeys
  <2>3. ASSUME NEW p \in Reqs, RequestFails(p) \/ \E outcome \in AppliedOutcomes :
                                 SavePatch(p, outcome) \/ DeleteRow(p, outcome)
        PROVE  Read(q)
    BY <2>3 DEF RequestFails, SavePatch, DeleteRow
  <2>4. ASSUME NEW o \in Owners, NEW i \in RuleIDs, NEW outcome \in AppliedOutcomes,
               CreateRule(o, i, outcome)
        PROVE  Read(q)
    BY <2>4 DEF CreateRule
  <2>5. CASE Restart
    BY <2>5 DEF Restart
  <2>6. CASE UNCHANGED req
    BY <2>6
  <2>7. UNCHANGED serviceVars => UNCHANGED req
    BY DEF serviceVars
  <2>8. UNCHANGED vars => UNCHANGED req
    BY DEF vars
  <2> HIDE DEF Read
  <2> QED
    BY <2>1, <2>2, <2>3, <2>4, <2>5, <2>6, <2>7, <2>8 DEF Next, ServiceStep
<1> QED
  BY <1>1 DEF HeldByRequest

\* An ID's last confirmed change is that of a request that held its copy.
CommandOrigin(id) ==
  \/ command'[id] \in {command[id], "none"}
  \/ command[id] = "none"
  \/ HeldByRequest(id)

LEMMA CommandsComeFrom ==
  ASSUME TypeInv, [Next]_vars, NEW id \in RuleIDs
  PROVE  CommandOrigin(id)
<1> USE DEF TypeInv, TypeOK, ServiceTypeOK
<1>1. ASSUME NEW o \in Owners, NEW i \in RuleIDs, NEW outcome \in AppliedOutcomes,
             CreateRule(o, i, outcome)
      PROVE  CommandOrigin(id)
  BY <1>1 DEF CreateRule, CommandOrigin
<1>2. ASSUME NEW q \in Reqs, NEW outcome \in AppliedOutcomes,
             SavePatch(q, outcome) \/ DeleteRow(q, outcome)
      PROVE  CommandOrigin(id)
  BY <1>2 DEF SavePatch, DeleteRow, HeldByRequest, NoReq, CommandOrigin
<1>3. ASSUME Restart PROVE CommandOrigin(id)
  <2>1. command' = command \/ command' = [i \in RuleIDs |-> "none"]
    BY <1>3, Zenon DEF Restart
  <2> QED
    BY <2>1 DEF CommandOrigin
<1>4. ASSUME UNCHANGED command PROVE CommandOrigin(id)
  BY <1>4 DEF CommandOrigin
<1>5. ASSUME NEW q \in Reqs,
             RequestFails(q) \/ \E o \in Owners, i \in RuleIDs :
                GetForDelete(q, o, i) \/ \E b \in BOOLEAN : GetForPatch(q, o, i, b)
      PROVE  UNCHANGED command
  BY <1>5 DEF RequestFails, GetForDelete, GetForPatch
<1>6. UNCHANGED serviceVars \/ UNCHANGED vars => UNCHANGED command
  BY DEF serviceVars, vars
<1> QED
  BY <1>1, <1>2, <1>3, <1>4, <1>5, <1>6 DEF Next, ServiceStep

\* A deleted rule that nobody holds a copy of is never written back, so neither
\* a late PATCH nor a scan resurrects it.
THEOREM DeletedStaysDeleted == Spec => GoneIsGone
<1>1. IInv /\ [Next]_vars =>
        [\A id \in RuleIDs : Gone(id) => Gone(id)' \/ command'[id] = "none"]_vars
  <2> SUFFICES ASSUME IInv, [Next]_vars, NEW id \in RuleIDs, Gone(id), command'[id] # "none"
               PROVE  Gone(id)'
    BY Zenon
  <2> USE DEF IInv
  <2>1. ~Exists(id)'
    BY RowsComeFrom DEF RowOrigin, Gone, Exists, HeldByRequest
  <2>2. ~HeldByRequest(id)'
    BY RequestsComeFromRows DEF Gone
  <2>3. \A r \in EnabledRows : r.id # id
    BY DEF EnabledRows, Safety, RowKeys, Gone
  <2>4. ~HeldByScan(id)'
    BY <2>3, CopiesComeFromRows DEF Gone, HeldByScan
  <2>5. command'[id] = "deleted"
    BY CommandsComeFrom DEF CommandOrigin, Gone
  <2> QED
    BY <2>1, <2>2, <2>4, <2>5 DEF Gone
<1> QED
  BY <1>1, Invariance, PTL DEF Spec, GoneIsGone

\* A disabled rule that no scan holds stays out of every scan until a PATCH of
\* its owner writes it or it is deleted.
THEOREM DisabledStaysQuiet == Spec => QuietUntilEnabled
<1>1. IInv /\ [Next]_vars =>
        [\A id \in RuleIDs : Quiet(id) /\ ~Quiet(id)' =>
           \/ rules'[id] = NoRule
           \/ \E q \in Reqs : req[q].op = "patch" /\ req[q].copy = rules'[id]]_vars
  <2> SUFFICES ASSUME IInv, [Next]_vars, NEW id \in RuleIDs, Quiet(id), ~Quiet(id)',
                      rules'[id] # NoRule,
                      ~\E q \in Reqs : req[q].op = "patch" /\ req[q].copy = rules'[id]
               PROVE  FALSE
    BY Zenon
  <2> USE DEF IInv
  <2>1. command[id] # "none"
    BY DEF Quiet, Safety, IDsUsed, Used
  <2>2. rules'[id] = rules[id]
    BY <2>1, RowsComeFrom DEF RowOrigin, Quiet
  <2>3. \A r \in EnabledRows : r.id # id
    BY DEF EnabledRows, Safety, RowKeys, Quiet
  <2>4. ~HeldByScan(id)'
    BY <2>3, CopiesComeFromRows DEF Quiet, HeldByScan
  <2> QED
    BY <2>2, <2>4 DEF Quiet, Exists
<1> QED
  BY <1>1, Invariance, PTL DEF Spec, QuietUntilEnabled
=============================================================================
