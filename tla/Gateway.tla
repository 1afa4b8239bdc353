-------------------------------- MODULE Gateway --------------------------------
(***************************************************************************)
(* A request of the dashboard on its way through the API: the bearer and   *)
(* the permission of its route are checked against a snapshot of the       *)
(* actor, some routes read the lead first, the repository does the work in *)
(* one transaction, and the audit record is appended in another one.  The  *)
(* process may die between any two of these steps, and the dashboard may   *)
(* stop listening.                                                         *)
(* Input checks, scopes and whatever else a route refuses for are one      *)
(* choice, Refuse.  Who issues tokens, ends memberships and changes roles  *)
(* is outside the repository: Deny and Demote.                             *)
(* Operators named X_Slip are plausible slips in X.                        *)
(***************************************************************************)
EXTENDS Naturals, FiniteSets

CONSTANTS
  Calls,          \* requests that change something, in the order they are sent
  MaxLead,        \* bound: leads
  Grants,         \* permissions of the actor's role
  MaxUpsets       \* bound: what goes wrong, and changes by other people

ASSUME GatewayBounds == MaxLead \in Nat \ {0} /\ MaxUpsets \in Nat
ASSUME CallsOrdered == Calls \subseteq Nat

VARIABLES
  grants,         \* permissions the role has now
  versions,       \* version of each lead, 0 before it is created
  call,           \* the requests
  taken,          \* api_idempotency_keys: requests whose answer is recorded
  trail,          \* audit_events
  upsets          \* how many there have been

gatewayVars == <<grants, versions, call, taken, trail, upsets>>

Leads == 1..MaxLead

-------------------------------------------------------------------------------
(* The routes: the permission, the effect and when an audit record follows.   *)
(* An effect creates a lead, updates one whose version is expected, touches   *)
(* one unconditionally, adds something else, or happens once per request id.  *)

Route(needs, effect, audited) == [needs |-> needs, effect |-> effect, audited |-> audited]

LeadRoutes ==
  [createLead |-> Route("leads.manage", "creates", "always"),
   updateLead |-> Route("leads.manage", "updates", "always"),
   addNote |-> Route("leads.manage", "adds", "always"),
   createFollowUp |-> Route("leads.manage", "touches", "always"),
   completeFollowUp |-> Route("leads.manage", "touches", "always")]

ImportRoutes ==
  [previewImport |-> Route("leads.assign", "once", "first"),
   commitImport |-> Route("leads.assign", "once", "first")]

RuleRoutes ==
  [createRule |-> Route("leads.assign", "adds", "always"),
   updateRule |-> Route("leads.assign", "adds", "always"),
   applyRules |-> Route("leads.assign", "once", "assigned")]

PeopleRoutes ==
  [createEmployee |-> Route("employees.manage", "adds", "always"),
   suspendEmployee |-> Route("employees.manage", "adds", "always")]

ReportRoutes ==
  [saveView |-> Route("reports.read", "adds", "never"),
   createSchedule |-> Route("reports.read", "adds", "never"),
   createExport |-> Route("reports.export", "adds", "never")]

KeyRoutes ==
  [createApiKey |-> Route("integrations.manage", "adds", "never"),
   beginRecording |-> Route("recordings.manage", "adds", "never")]

\* The union of two tables.
With(f, g) == [r \in DOMAIN f \cup DOMAIN g |-> IF r \in DOMAIN f THEN f[r] ELSE g[r]]
Table ==
  With(LeadRoutes, With(ImportRoutes, With(RuleRoutes, With(PeopleRoutes, With(ReportRoutes, KeyRoutes)))))
Of(c) == Table[call[c].route]

Stages == {"none", "sent", "admitted", "looked", "done", "recorded",
           "refused", "broken", "closed"}
Unsent == [stage |-> "none", route |-> "addNote", target |-> 0, expects |-> 0, key |-> 0,
           before |-> 0, version |-> 0, took |-> FALSE, replayed |-> FALSE, applied |-> FALSE]

GatewayInit ==
  /\ grants = Grants
  /\ versions = [l \in Leads |-> IF l = 1 THEN 1 ELSE 0]
  /\ call = [c \in Calls |-> Unsent]
  /\ taken = {} /\ trail = {}
  /\ upsets = 0

At(c, stage) == call[c].stage = stage
Moves(c, stage) == call' = [call EXCEPT ![c].stage = stage]

Upset == upsets < MaxUpsets /\ upsets' = upsets + 1

\* A browser sends a request, with what it shows of the lead.
Post(c, route, target, expects, key) ==
  /\ At(c, "none") /\ \A d \in Calls : d < c => ~At(d, "none")
  /\ call' = [call EXCEPT ![c] = [Unsent EXCEPT !.stage = "sent", !.route = route, !.target = target,
                                               !.expects = expects, !.key = key]]

-------------------------------------------------------------------------------
(* The pre-handlers.                                                          *)

\* The token does not verify, or names no active membership.
Deny(c) == At(c, "sent") /\ Moves(c, "refused") /\ UNCHANGED <<grants, versions, taken, trail, upsets>>

Admit(c) ==
  /\ At(c, "sent")
  /\ Moves(c, IF Of(c).needs \in grants THEN "admitted" ELSE "refused")
  /\ UNCHANGED <<grants, versions, taken, trail, upsets>>

-------------------------------------------------------------------------------
(* The handler.                                                               *)

\* updateLead reads what the audit record will call the old version.
Look(c) ==
  /\ At(c, "admitted") /\ Of(c).effect = "updates"
  /\ call' = [call EXCEPT ![c].stage = "looked", ![c].before = versions[call[c].target]]
  /\ UNCHANGED <<grants, versions, taken, trail, upsets>>

Ready(c) == IF Of(c).effect = "updates" THEN At(c, "looked") ELSE At(c, "admitted")

Refuse(c) == Ready(c) /\ Moves(c, "refused") /\ UNCHANGED <<grants, versions, taken, trail, upsets>>

\* The transaction has committed; its answer shows the lead at this version.
Does(c, target, version) ==
  /\ versions' = [versions EXCEPT ![target] = version]
  /\ call' = [call EXCEPT ![c].stage = "done", ![c].took = TRUE, ![c].target = target, ![c].version = version]

Create(c) ==
  LET new == {l \in Leads : versions[l] = 0} IN
  /\ Ready(c) /\ Of(c).effect = "creates" /\ new # {}
  /\ Does(c, CHOOSE l \in new : \A m \in new : l <= m, 1)
  /\ UNCHANGED <<grants, taken, trail, upsets>>

\* "The lead changed; refresh and retry."
Expected(c) == versions[call[c].target] = call[c].expects

Update(c) ==
  /\ Ready(c) /\ Of(c).effect = "updates"
  /\ IF Expected(c) THEN Does(c, call[c].target, versions[call[c].target] + 1)
     ELSE Moves(c, "refused") /\ UNCHANGED versions
  /\ UNCHANGED <<grants, taken, trail, upsets>>

Touch(c) ==
  /\ Ready(c) /\ Of(c).effect = "touches"
  /\ Does(c, call[c].target, versions[call[c].target] + 1)
  /\ UNCHANGED <<grants, taken, trail, upsets>>

\* A note, a rule, an export: no lead gets another version.
Add(c) ==
  /\ Ready(c) /\ Of(c).effect = "adds"
  /\ call' = [call EXCEPT ![c].stage = "done", ![c].took = TRUE,
                          ![c].version = IF call[c].target = 0 THEN 0 ELSE versions[call[c].target]]
  /\ UNCHANGED <<grants, versions, taken, trail, upsets>>

\* The ledger is read and written in the transaction of the effect, here on some leads: a run of
\* the rules may find none to assign (appliedLeads), and is recorded all the same.
Named(c) == <<call[c].route, call[c].key>>
Recorded(c) == Named(c) \in taken

ByKey(c, ls) ==
  /\ Ready(c) /\ Of(c).effect = "once"
  /\ taken' = taken \cup {Named(c)}
  /\ versions' = IF Recorded(c) THEN versions
                 ELSE [l \in Leads |-> versions[l] + (IF l \in ls THEN 1 ELSE 0)]
  /\ call' = [call EXCEPT ![c].stage = "done", ![c].took = ~Recorded(c), ![c].replayed = Recorded(c),
                          ![c].applied = ~Recorded(c) /\ ls # {}]
  /\ UNCHANGED <<grants, trail, upsets>>

-------------------------------------------------------------------------------
(* The audit record, and the end.                                             *)

Audited_Slip(c) == Of(c).audited # "never"
Audited_SlipIdle(c) ==
  Of(c).audited = "always" \/ (Of(c).audited \in {"first", "assigned"} /\ ~call[c].replayed)
Audited(c) ==
  \/ Of(c).audited = "always"
  \/ Of(c).audited = "first" /\ ~call[c].replayed
  \/ Of(c).audited = "assigned" /\ ~call[c].replayed /\ call[c].applied

Audit(c) ==
  /\ At(c, "done")
  /\ Moves(c, "recorded")
  /\ trail' = IF Audited(c)
              THEN trail \cup {[of |-> c, old |-> call[c].before, new |-> call[c].version]}
              ELSE trail
  /\ UNCHANGED <<grants, versions, taken, upsets>>

\* The append fails: an internal error is all the dashboard hears of what was done.
AuditFails(c) ==
  /\ Upset /\ At(c, "done") /\ Audited(c)
  /\ Moves(c, "broken")
  /\ UNCHANGED <<grants, versions, taken, trail>>

Underway == {c \in Calls : call[c].stage \in {"sent", "admitted", "looked", "done", "recorded"}}

ServerDies ==
  /\ Upset /\ Underway # {}
  /\ call' = [c \in Calls |-> IF c \in Underway THEN [call[c] EXCEPT !.stage = "broken"] ELSE call[c]]
  /\ UNCHANGED <<grants, versions, taken, trail>>

OthersChange(l) ==
  /\ Upset /\ versions[l] # 0
  /\ versions' = [versions EXCEPT ![l] = @ + 1]
  /\ UNCHANGED <<grants, call, taken, trail>>

Demote ==
  /\ Upset /\ grants # {"leads.read"}
  /\ grants' = {"leads.read"}
  /\ UNCHANGED <<versions, call, taken, trail>>

Handle(c) ==
  \/ Deny(c) \/ Admit(c) \/ Look(c) \/ Refuse(c)
  \/ Create(c) \/ Update(c) \/ Touch(c) \/ Add(c)
  \/ \E ls \in SUBSET {l \in Leads : versions[l] # 0} : ByKey(c, ls)
  \/ Audit(c) \/ AuditFails(c)

GatewayNext ==
  \/ \E c \in Calls : Handle(c)
  \/ ServerDies \/ Demote
  \/ \E l \in Leads : OthersChange(l)

-------------------------------------------------------------------------------
(* What the trail says.                                                       *)

GatewayTypeOK ==
  /\ grants \in {Grants, {"leads.read"}}
  /\ versions \in [Leads -> Nat]
  /\ call \in [Calls -> [stage : Stages, route : DOMAIN Table, target : Leads \cup {0}, expects : Nat,
                         key : Nat, before : Nat, version : Nat, took : BOOLEAN, replayed : BOOLEAN,
                         applied : BOOLEAN]]
  /\ taken \subseteq ((DOMAIN Table) \X Nat)
  /\ trail \subseteq [of : Calls, old : Nat, new : Nat]
  /\ upsets \in 0..MaxUpsets

Entries(c) == {e \in trail : e.of = c}

\* The request did something: a run of the rules, if it assigned a lead.
Effective(c) == call[c].took /\ (call[c].route = "applyRules" => call[c].applied)

\* The audit trail (app.ts 867-869) tells the truth although it is written after the commit, from
\* what was read before it.  A record names an effect, which has no second record: not even
\* when a request is repeated under its id.  The record of an update names the step it made,
\* though other people update the lead between the reading and the update.  An effect whose
\* request was answered has its record; a request that was refused had no effect.  A run of
\* the rules that assigned no lead is in the ledger of requests, and has no record.
AuditTrail ==
  /\ \A e \in trail : Effective(e.of)
  /\ \A e, f \in trail : (Of(e.of).effect = "once" /\ Named(e.of) = Named(f.of)) => e = f
  /\ \A e \in trail : Of(e.of).effect = "updates" => e.new = e.old + 1
  /\ \A c \in Calls : Cardinality(Entries(c)) <= 1
  /\ \A c \in Calls : (At(c, "recorded") /\ Effective(c) /\ Of(c).audited # "never") => Entries(c) # {}
  /\ \A c \in Calls : At(c, "refused") => ~call[c].took
================================================================================
