----------------------------- MODULE MCPreMark -----------------------------
(* PreMark on small instances. *)
EXTENDS PreMark

CONSTANTS r1, r2, alice, bob, scheduler, http, p1, p2

\* Every rule waits two clock units: long enough for a signal inside the
\* cooldown, at its boundary and after it within MaxTime = 3.
MCCooldown == [id \in RuleIDs |-> 2]

\* A bound of Core: a second rule appears early and while no request is under
\* way, and from then on rules are only created and scanned.  Scans never leave
\* it, so the fairness of their steps is that of PreMark's FairSpec.
Small ==
  /\ command[r1] = "none" => command[r2] = "none"
  /\ (\A id \in RuleIDs : command[id] # "none") =>
       /\ clock <= 1
       /\ \A q \in Reqs : req[q] = NoReq
       /\ \A id \in RuleIDs : command[id] \in {"on", "unsure"}

MCNext == Next /\ Small'

MCFairSpec ==
  /\ Init /\ [][MCNext]_vars
  /\ \A c \in Callers : WF_vars(ScanStep(c) /\ UNCHANGED serviceVars)
=============================================================================
