---------------------------- MODULE RuleService ----------------------------
(***************************************************************************)
(* The rule endpoints (usecase.RuleService under POST, PATCH and DELETE    *)
(* /v1/rules).  Each HTTP request is a goroutine of its own.  PATCH and    *)
(* DELETE read the row in one repository call and write in another; a      *)
(* PATCH writes back the WHOLE row it read, so a request keeps its copy in *)
(* `req` between the two and anything may happen to the row meanwhile.     *)
(***************************************************************************)
EXTENDS RuleStore

CONSTANT Reqs   \* bound: HTTP requests that can be in flight at once

VARIABLES
  req,      \* what each request in flight holds
  command   \* history: the last change of each rule an owner had confirmed

serviceVars == <<req, command>>

NoReq == [op |-> "none", copy |-> NoRule]

\* A PATCH holds the updated row it is about to save.
Request == {NoReq} \cup [op : {"patch", "delete"}, copy : Rule]

\* "none": the ID is not in use; "unsure": the caller was told of an error
\* although the change was applied.
Commands == {"none", "on", "off", "deleted", "unsure"}

ServiceTypeOK ==
  /\ req \in [Reqs -> Request]
  /\ command \in [RuleIDs -> Commands]

ServiceInit ==
  /\ req = [q \in Reqs |-> NoReq]
  /\ command = [id \in RuleIDs |-> "none"]

\* CreateRule: validation and the market lookup change nothing when they fail;
\* a rule that passes them gets a fresh ID and is saved.
CreateRuleReusingID(o, id, outcome) ==
  /\ rules' = Saved(NewRule(id, o))
  /\ command' = [command EXCEPT ![id] = IF outcome = "ok" THEN "on" ELSE "unsure"]
  /\ UNCHANGED <<signals, unmarked, clock, req>>
CreateRule(o, id, outcome) ==
  /\ command[id] = "none"
  /\ rules' = Saved(NewRule(id, o))
  /\ command' = [command EXCEPT ![id] = IF outcome = "ok" THEN "on" ELSE "unsure"]
  /\ UNCHANGED <<signals, unmarked, clock, req>>

\* SetRuleEnabled up to the save: the row is read, checked for its owner and
\* the copy updated.  A missing or foreign row ends the request with an error.
GetForPatch(q, o, id, b) ==
  /\ req[q] = NoReq
  /\ Exists(id)
  /\ OwnedBy(rules[id], o)
  /\ req' = [req EXCEPT ![q] = [op |-> "patch", copy |-> WithEnabled(rules[id], b)]]
  /\ UNCHANGED <<storeVars, command>>

\* The save of SetRuleEnabled.  The copy's `last` is as old as the read: when
\* the row was marked or removed since, the mark it writes may be out of date.
SavePatch(q, outcome) ==
  LET r == req[q].copy IN
  /\ req[q].op = "patch"
  /\ rules' = Saved(r)
  /\ unmarked' = IF Exists(r.id) /\ rules[r.id].last = r.last
                   THEN unmarked
                   ELSE unmarked \cup {r.id}
  /\ command' = [command EXCEPT ![r.id] =
                   CASE outcome = "applied" -> "unsure"
                     [] r.enabled -> "on"
                     [] OTHER -> "off"]
  /\ req' = [req EXCEPT ![q] = NoReq]
  /\ UNCHANGED <<signals, clock>>

\* DeleteRule up to the delete: the row is read and checked for its owner.
GetForDelete(q, o, id) ==
  /\ req[q] = NoReq
  /\ Exists(id)
  /\ OwnedBy(rules[id], o)
  /\ req' = [req EXCEPT ![q] = [op |-> "delete", copy |-> rules[id]]]
  /\ UNCHANGED <<storeVars, command>>

\* The delete of DeleteRule.  A row that is gone by now is an error.
DeleteRow(q, outcome) ==
  LET id == req[q].copy.id IN
  /\ req[q].op = "delete"
  /\ Exists(id)
  /\ rules' = Deleted(id)
  /\ command' = [command EXCEPT ![id] =
                   IF outcome = "ok" THEN "deleted" ELSE "unsure"]
  /\ req' = [req EXCEPT ![q] = NoReq]
  /\ UNCHANGED <<signals, unmarked, clock>>

\* A write that returns an error and changes nothing: the store failed, or the
\* row to delete is no longer there.
RequestFails(q) ==
  /\ req[q] # NoReq
  /\ \/ Durable
     \/ req[q].op = "delete" /\ ~Exists(req[q].copy.id)
  /\ req' = [req EXCEPT ![q] = NoReq]
  /\ UNCHANGED <<storeVars, command>>
=============================================================================
