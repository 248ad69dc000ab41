------------------------------ MODULE AlertLog ------------------------------
(***************************************************************************)
(* What premark promises its users about alerts, with nothing of how it is *)
(* done: signals are stored in time order, and two signals of one rule are *)
(* at least that rule's cooldown apart.  The code keeps the second promise *)
(* through one field of the rule row, LastTriggeredAt.  A rule whose field *)
(* no longer covers its newest signal (a failed save, a crash, a stale     *)
(* overwrite) is "loose": its next signal may come early, and is recorded  *)
(* as excused.  Module PreMark implements this specification.              *)
(***************************************************************************)
EXTENDS Integers, Sequences, TLAPS

CONSTANTS
  RuleIDs,   \* identifiers a rule may be given
  Cooldown,  \* the cooldown of each of them, in clock units
  Times      \* readings of the clock

VARIABLES
  log,    \* the signals stored, oldest first
  loose   \* rules whose cooldown is not enforced for the next signal

alertVars == <<log, loose>>

Entry == [rule : RuleIDs, at : Times, excused : BOOLEAN]

AlertTypeOK == /\ log \in Seq(Entry)
               /\ loose \in SUBSET RuleIDs

AlertInit == /\ log = <<>>
             /\ loose = {}

\* A signal of `id` may be stored at time t: t is never before a stored signal,
\* and a cooldown after every signal of the same rule unless the rule is loose.
MayFire(id, t) ==
  /\ \A i \in DOMAIN log : log[i].at <= t
  /\ \/ id \in loose
     \/ \A i \in DOMAIN log : log[i].rule = id => t - log[i].at >= Cooldown[id]

\* The signal is stored; `lost` when in the same step the rule turns loose,
\* because its caller was told that the write failed.
Fire(id, t, lost) ==
  /\ MayFire(id, t)
  /\ log' = Append(log, [rule |-> id, at |-> t, excused |-> id \in loose])
  /\ loose' = IF lost THEN loose \cup {id} ELSE loose

Loosen(ids) == /\ loose' = loose \cup ids
               /\ UNCHANGED log

Tighten(id) == /\ loose' = loose \ {id}
               /\ UNCHANGED log

\* The in-memory store starts empty again after a restart.
Forget == /\ log' = <<>>
          /\ loose' = {}

AlertNext ==
  \/ \E id \in RuleIDs, t \in Times, lost \in BOOLEAN : Fire(id, t, lost)
  \/ \E ids \in SUBSET RuleIDs : Loosen(ids)
  \/ \E id \in RuleIDs : Tighten(id)
  \/ Forget

AlertSpec == AlertInit /\ [][AlertNext]_alertVars

-----------------------------------------------------------------------------
\* Signals are stored in the order of their timestamps.
Ordered == \A i, j \in DOMAIN log : i < j => log[i].at <= log[j].at

\* Two signals of one rule are a cooldown apart unless the later is excused.
Spaced == \A i, j \in DOMAIN log :
            /\ i < j
            /\ log[i].rule = log[j].rule
            /\ ~log[j].excused
            => log[j].at - log[i].at >= Cooldown[log[j].rule]

AlertInv == AlertTypeOK /\ Ordered /\ Spaced

\* The promise of AlertLog: in every behaviour the log is in time order and
\* the signals of a rule that is not loose are a cooldown apart.
THEOREM AlertSafety == AlertSpec => []AlertInv
<1>1. AlertInit => AlertInv
  BY DEF AlertInit, AlertInv, AlertTypeOK, Ordered, Spaced
<1>2. AlertInv /\ [AlertNext]_alertVars => AlertInv'
  <2> SUFFICES ASSUME AlertInv, [AlertNext]_alertVars PROVE AlertInv'
    OBVIOUS
  <2>1. ASSUME NEW id \in RuleIDs, NEW t \in Times, NEW lost \in BOOLEAN,
               Fire(id, t, lost)
        PROVE  AlertInv'
    <3> DEFINE e == [rule |-> id, at |-> t, excused |-> id \in loose]
    <3>1. /\ log \in Seq(Entry) /\ e \in Entry
          /\ log' = Append(log, e)
      BY <2>1 DEF AlertInv, AlertTypeOK, Fire, Entry
    <3>2. AlertTypeOK'
      BY <2>1, <3>1 DEF AlertInv, AlertTypeOK, Fire
    <3>3. /\ DOMAIN log = 1 .. Len(log) /\ Len(log) \in Nat
          /\ DOMAIN log' = 1 .. Len(log) + 1
          /\ \A i \in DOMAIN log : log'[i] = log[i] /\ log[i] \in Entry
          /\ log'[Len(log) + 1] = e
      BY <3>1
    <3>4. Ordered'
      BY <2>1, <3>3 DEF AlertInv, Ordered, Fire, MayFire
    <3>5. Spaced'
      <4> SUFFICES ASSUME NEW i \in DOMAIN log', NEW j \in DOMAIN log',
                          i < j, log'[i].rule = log'[j].rule, ~log'[j].excused
                   PROVE  log'[j].at - log'[i].at >= Cooldown[log'[j].rule]
        BY DEF Spaced
      <4>1. CASE j \in DOMAIN log
        <5>1. i \in DOMAIN log
          BY <4>1, <3>3
        <5> QED
          BY <4>1, <5>1, <3>3 DEF AlertInv, Spaced
      <4>2. CASE j = Len(log) + 1
        <5>1. i \in DOMAIN log /\ log'[j] = e
          BY <4>2, <3>3
        <5>2. id \notin loose /\ log[i].rule = id
          <6>1. e.excused <=> id \in loose
            BY Zenon
          <6>2. ~e.excused /\ e.rule = id
            BY <5>1, Zenon
          <6>3. log[i].rule = log'[j].rule
            BY <5>1, <3>3
          <6> QED
            BY <6>1, <6>2, <6>3, <5>1, Zenon
        <5>3. t - log[i].at >= Cooldown[id]
          BY <5>1, <5>2, <2>1 DEF Fire, MayFire
        <5>4. log'[i] = log[i] /\ e.at = t /\ e.rule = id
          BY <5>1, <3>3
        <5> QED
          BY <5>1, <5>3, <5>4
      <4> QED
        BY <4>1, <4>2, <3>3
    <3> QED
      BY <3>2, <3>4, <3>5 DEF AlertInv
  <2>2. ASSUME NEW ids \in SUBSET RuleIDs, Loosen(ids) PROVE AlertInv'
    BY <2>2 DEF AlertInv, AlertTypeOK, Ordered, Spaced, Loosen
  <2>3. ASSUME NEW id \in RuleIDs, Tighten(id) PROVE AlertInv'
    BY <2>3 DEF AlertInv, AlertTypeOK, Ordered, Spaced, Tighten
  <2>4. CASE Forget
    BY <2>4 DEF AlertInv, AlertTypeOK, Ordered, Spaced, Forget
  <2>5. CASE UNCHANGED alertVars
    BY <2>5 DEF AlertInv, AlertTypeOK, Ordered, Spaced, alertVars
  <2> QED
    BY <2>1, <2>2, <2>3, <2>4, <2>5 DEF AlertNext
<1> QED
  BY <1>1, <1>2, PTL DEF AlertSpec
=============================================================================
