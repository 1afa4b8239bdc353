------------------------------- MODULE LeadWork -------------------------------
(***************************************************************************)
(* One lead between an employee's phone and the desks of the managers.     *)
(*                                                                         *)
(* The phone keeps at most one active update of the lead in a durable      *)
(* queue and sends it until it is applied, in conflict or rejected; the    *)
(* server compares the version the update was composed on and remembers    *)
(* the request in a ledger.  Managers edit, assign and archive the lead,   *)
(* plan and complete follow-ups; its calls change it too.                  *)
(*                                                                         *)
(* Each Room or server transaction is one action; the lead row's lock and  *)
(* the employee's make the server's atomic.  A request may be executed     *)
(* long after the phone gave up on it, several copies of it one after the  *)
(* other, or its answer lost.  A stale save from a desk is refused and     *)
(* changes nothing, so the version a manager saw is left out, as is what   *)
(* an update says of status and note.  With one lead, a run of the worker  *)
(* has at most one row to send.                                            *)
(* Operators named X_Slip are plausible slips in X.                        *)
(***************************************************************************)
EXTENDS Naturals, FiniteSets, FiniteSetsExt

CONSTANTS
  Updates,          \* request ids of the phone's updates, in the order they are drawn
  Tasks,            \* ids of the follow-ups that managers create
  Dates,            \* due dates of follow-ups, positive; 0 is none
  Members, None,    \* active employees; no employee, no row
  Me,               \* the one with the phone
  Team,             \* the team of each member
  MaxAttempts,      \* RetryPolicy.maxAttempts
  MaxCrashes,       \* bound: deaths of the phone's process
  MaxChanges,       \* bound: steps at the desks and calls linked
  MaxClosings       \* bound: times the phone loses its trust

ASSUME PeopleAndDates ==
  /\ Me \in Members /\ None \notin Members
  /\ DOMAIN Team = Members
  /\ Dates \subseteq Nat \ {0} /\ IsFiniteSet(Dates)
  /\ Updates \subseteq Nat /\ Updates \cap Tasks = {} /\ IsFiniteSet(Updates \cup Tasks)
ASSUME LimitsAreNat ==
  MaxAttempts \in Nat /\ MaxCrashes \in Nat /\ MaxChanges \in Nat /\ MaxClosings \in Nat

VARIABLES
  lead, followUps,                    \* leads and lead_follow_ups
  ledger, written,                    \* api_idempotency_keys, lead_activities
  trusted,                            \* session and consent of the phone are current
  gate, shown,                        \* the phone: gate, version of the lead on the screen
  queue, command,                     \* lead_mutations
  attempts, waiting,                  \* ... of its active row
  pc, current, reply,                 \* the worker, its row, the answer to it
  wire, admitted,                     \* requests that were sent; past their authentication
  spent                               \* what the bounds have allowed so far

serverVars == <<lead, followUps, ledger, written>>
queueVars  == <<queue, command, attempts, waiting>>
workerVars == <<pc, current, reply>>
vars == <<serverVars, trusted, gate, shown, queueVars, workerVars, wire, admitted, spent>>

Teams     == {Team[m] : m \in Members}
FollowUps == Updates \cup Tasks
Statuses  == {"absent", "PENDING", "IN_FLIGHT", "RETRY", "SYNCED", "CONFLICT", "REJECTED"}
Active_Slip == {r \in Updates : queue[r] \in {"PENDING", "IN_FLIGHT"}}
Active    == {r \in Updates : queue[r] \in {"PENDING", "IN_FLIGHT", "RETRY"}}

TypeOK ==
  /\ lead \in [version : Nat \ {0}, owner : Members \cup {None}, team : Teams,
               archived : BOOLEAN, nextDue : Dates \cup {0}]
  /\ followUps \in [FollowUps -> [state : {"absent", "pending", "completed"}, due : Dates \cup {0}]]
  /\ ledger \subseteq Updates
  /\ written \in [Updates -> SUBSET Nat]
  /\ trusted \in BOOLEAN /\ gate \in BOOLEAN
  /\ shown \in Nat
  /\ queue \in [Updates -> Statuses]
  /\ command \in [Updates -> [expects : Nat, due : Dates \cup {0}]]
  /\ attempts \in Nat /\ waiting \in BOOLEAN
  /\ pc \in {"idle", "sending"}
  /\ current \in Updates \cup {None}
  /\ reply \in {"none", "ok", "conflict", "missing", "denied", "closed"}
  /\ wire \subseteq Updates /\ admitted \subseteq Updates
  /\ spent \in [crashes : 0..MaxCrashes, changes : 0..MaxChanges, closings : 0..MaxClosings]

\* A new lead of the employee's, a paired phone that has listed nothing yet.
Init ==
  /\ lead = [version |-> 1, owner |-> Me, team |-> Team[Me], archived |-> FALSE, nextDue |-> 0]
  /\ followUps = [f \in FollowUps |-> [state |-> "absent", due |-> 0]]
  /\ ledger = {} /\ written = [r \in Updates |-> {}]
  /\ trusted = TRUE /\ gate = TRUE
  /\ shown = 0
  /\ queue = [r \in Updates |-> "absent"]
  /\ command = [r \in Updates |-> [expects |-> 0, due |-> 0]]
  /\ attempts = 0 /\ waiting = FALSE
  /\ pc = "idle" /\ current = None /\ reply = "none"
  /\ wire = {} /\ admitted = {}
  /\ spent = [crashes |-> 0, changes |-> 0, closings |-> 0]

Spend(what, bound) == spent[what] < bound /\ spent' = [spent EXCEPT ![what] = @ + 1]

-------------------------------------------------------------------------------
(* The phone's screen.                                                        *)

\* The list of the leads assigned to the employee, with their versions.
LoadLeads ==
  /\ gate /\ trusted
  /\ shown' = IF lead.owner = Me /\ ~lead.archived THEN lead.version ELSE 0
  /\ UNCHANGED <<serverVars, trusted, gate, queueVars, workerVars, wire, admitted, spent>>

Fresh == {r \in Updates : command[r].expects = 0}

\* One command per lead, composed on what the screen shows: a composer that stays
\* open while the list changes is a list that changes later, and one that finds
\* an update queued meanwhile is closed.  Terminal rows of the lead go.
Submit(due) ==
  /\ shown # 0
  /\ gate /\ pc = "idle"
  /\ Active = {}
  /\ \E r \in Fresh :
       /\ \A q \in Fresh : r <= q
       /\ queue' = [q \in Updates |-> IF q = r THEN "PENDING"
                                      ELSE IF queue[q] \in {"CONFLICT", "REJECTED"} THEN "absent"
                                      ELSE queue[q]]
       /\ command' = [command EXCEPT ![r] = [expects |-> shown, due |-> due]]
  /\ UNCHANGED <<serverVars, trusted, gate, shown, attempts, waiting, workerVars, wire,
                 admitted, spent>>

-------------------------------------------------------------------------------
(* The worker: runs one at a time, under the mutex that Submit takes.         *)

Interrupted_Slip == {}
Interrupted == {r \in Updates : queue[r] = "IN_FLIGHT"}

Due(r) == \/ r \in Interrupted
          \/ queue[r] \in {"PENDING", "RETRY"} /\ ~waiting

\* A run takes back what an earlier one left in flight, reads what is due and marks
\* the row: no other step of the phone comes between, and a death there leaves
\* nothing that the next run does not do again.
Send(r) ==
  /\ pc = "idle"
  /\ gate
  /\ Due(r)
  /\ queue' = [queue EXCEPT ![r] = "IN_FLIGHT"]
  /\ attempts' = IF r \in Interrupted THEN attempts + 1 ELSE attempts
  /\ wire' = wire \cup {r}
  /\ pc' = "sending" /\ current' = r /\ reply' = "none"
  /\ UNCHANGED <<serverVars, trusted, gate, shown, command, waiting, admitted, spent>>

\* The last step of a run: synced rows of a day ago go.
Pruned(q) ==
  {[r \in Updates |-> IF r \in old THEN "absent" ELSE q[r]] :
     old \in SUBSET {r \in Updates : q[r] = "SYNCED"}}

NothingDue ==
  /\ pc = "idle"
  /\ gate
  /\ \A r \in Updates : ~Due(r)
  /\ queue' \in Pruned(queue)
  /\ UNCHANGED <<serverVars, trusted, gate, shown, command, attempts, waiting, workerVars,
                 wire, admitted, spent>>

\* The row in flight gets its outcome.
Settle(status) ==
  /\ pc = "sending"
  /\ queue' \in Pruned([queue EXCEPT ![current] = status])
  /\ pc' = "idle" /\ current' = None /\ reply' = "none"
  /\ UNCHANGED <<serverVars, trusted, gate, shown, command, wire, admitted, spent>>

Finish(status) == Settle(status) /\ attempts' = 0 /\ UNCHANGED waiting

Synced     == reply = "ok"       /\ Finish("SYNCED")
Conflicted == reply = "conflict" /\ Finish("CONFLICT")

\* A refusal that is not worth repeating, or a receipt that cannot be read.
Rejected ==
  /\ reply \in {"missing", "denied", "ok"}
  /\ Finish("REJECTED")

\* No answer, or one worth a retry: the row waits its delay, until the tries run out.
RetryAllowed == attempts < MaxAttempts

SendFails ==
  /\ pc = "sending" /\ reply = "none"
  /\ \/ /\ RetryAllowed
        /\ Settle("RETRY")
        /\ attempts' = attempts + 1
        /\ waiting' = TRUE
     \/ ~RetryAllowed /\ Finish("REJECTED")

DelayOver ==
  /\ waiting
  /\ waiting' = FALSE
  /\ UNCHANGED <<serverVars, trusted, gate, shown, queue, command, attempts, workerVars, wire,
                 admitted, spent>>

\* The process dies; between two runs only the screen would be lost.
Die ==
  /\ pc = "sending"
  /\ Spend("crashes", MaxCrashes)
  /\ pc' = "idle" /\ current' = None /\ reply' = "none"
  /\ shown' = 0
  /\ UNCHANGED <<serverVars, trusted, gate, queueVars, wire, admitted>>

\* The server's refusal, or the user, closes the gate: the queue is purged.
CloseGate ==
  /\ gate
  /\ \/ pc = "sending" /\ reply = "closed" /\ UNCHANGED spent
     \/ pc = "idle" /\ Spend("closings", MaxClosings)
  /\ gate' = FALSE /\ trusted' = FALSE
  /\ queue' = [r \in Updates |-> "absent"] /\ waiting' = FALSE
  /\ attempts' = 0
  /\ shown' = 0
  /\ pc' = "idle" /\ current' = None /\ reply' = "none"
  /\ UNCHANGED <<serverVars, command, wire, admitted>>

\* Renewed consent, or the phone is paired again.
OpenGate ==
  /\ ~gate
  /\ gate' = TRUE /\ trusted' = TRUE
  /\ UNCHANGED <<serverVars, shown, queueVars, workerVars, wire, admitted, spent>>

-------------------------------------------------------------------------------
(* The server.                                                                *)

\* The phone is suspended or revoked, or its consent is no longer the current one.
LoseTrust ==
  /\ trusted
  /\ Spend("closings", MaxClosings)
  /\ trusted' = FALSE
  /\ UNCHANGED <<serverVars, gate, shown, queueVars, workerVars, wire, admitted>>

\* The phone gets the answer if it still waits for this request; the answer may be
\* lost, and that to an earlier copy is.
Answer(r, with) ==
  \/ UNCHANGED reply
  \/ pc = "sending" /\ current = r /\ reply = "none" /\ reply' = with

\* min(due_at) of the pending follow-ups.
PendingDue(fs) == {fs[f].due : f \in {g \in FollowUps : fs[g].state = "pending"}}
NextDue(fs)    == IF PendingDue(fs) = {} THEN 0 ELSE Min(PendingDue(fs))

\* least() of what the lead has and what the update brings.
Earlier_Slip(old, new) == IF new = 0 THEN old ELSE new
Earlier(old, new) ==
  IF new = 0 THEN old ELSE IF old = 0 THEN new ELSE Min({old, new})

Replayed_Slip(r)      == FALSE
Replayed_ByLead_Slip(r) == ledger # {}
Replayed(r)   == r \in ledger
Findable(r)   == lead.owner = Me /\ ~lead.archived
Comparable_Slip(r) == TRUE
Comparable(r) == lead.version = command[r].expects

ApplyUpdate(r) ==
  LET due == command[r].due IN
  /\ written' = [written EXCEPT ![r] = @ \cup {lead.version}]
  /\ ledger' = ledger \cup {r}
  /\ lead' = [lead EXCEPT !.version = @ + 1, !.nextDue = Earlier(@, due)]
  /\ followUps' = IF due = 0 THEN followUps
                  ELSE [followUps EXCEPT ![r] = [state |-> "pending", due |-> due]]

\* authenticateMobile, and the consent as its lookup found it: before the transaction.
Arrive(r) ==
  /\ r \in wire
  /\ \/ trusted /\ admitted' = admitted \cup {r} /\ UNCHANGED reply
     \/ ~trusted /\ Answer(r, "closed") /\ UNCHANGED admitted
  /\ UNCHANGED <<serverVars, trusted, gate, shown, queueVars, pc, current, wire, spent>>

\* applyMobileLeadUpdate, in its order: trust, replay, age, assignment, version.  Trust
\* lost since the request was let in is "not found" of an employee, a device or a
\* credential, "consent required" of a consent.
Execute(r) ==
  /\ r \in admitted
  /\ \/ ~trusted /\ (Answer(r, "missing") \/ Answer(r, "closed")) /\ UNCHANGED serverVars
     \/ trusted /\ Replayed(r) /\ Answer(r, "ok") /\ UNCHANGED serverVars
     \/ /\ trusted /\ ~Replayed(r)
        /\ \/ Answer(r, "denied") /\ UNCHANGED serverVars
           \/ ~Findable(r) /\ Answer(r, "missing") /\ UNCHANGED serverVars
           \/ Findable(r) /\ ~Comparable(r) /\ Answer(r, "conflict") /\ UNCHANGED serverVars
           \/ Findable(r) /\ Comparable(r) /\ ApplyUpdate(r) /\ Answer(r, "ok")
  /\ UNCHANGED <<trusted, gate, shown, queueVars, pc, current, wire, admitted, spent>>

Change ==
  /\ Spend("changes", MaxChanges)
  /\ UNCHANGED <<ledger, written, trusted, gate, shown, queueVars, workerVars, wire,
                 admitted>>

\* updateLead on the current version: fields, owner, archive.  The team follows the
\* owner, which the follow-ups' foreign key refuses as soon as there is one.
Save(owner, archived) ==
  LET team == IF owner = None THEN lead.team ELSE Team[owner] IN
  /\ team # lead.team => \A f \in FollowUps : followUps[f].state = "absent"
  /\ lead' = [lead EXCEPT !.version = @ + 1, !.owner = owner, !.team = team,
                          !.archived = archived]
  /\ UNCHANGED followUps
  /\ Change

\* createLeadFollowUp, for some member of the lead's team.
PlanFollowUp(f, due) ==
  /\ followUps[f].state = "absent"
  /\ \E m \in Members : Team[m] = lead.team
  /\ followUps' = [followUps EXCEPT ![f] = [state |-> "pending", due |-> due]]
  /\ lead' = [lead EXCEPT !.version = @ + 1, !.nextDue = NextDue(followUps')]
  /\ Change

\* completeLeadFollowUp: its version moves only here, so "pending" says it all.
Remaining(f) == NextDue([followUps EXCEPT ![f].state = "completed"])

CompleteFollowUp(f) ==
  /\ followUps[f].state = "pending"
  /\ followUps' = [followUps EXCEPT ![f].state = "completed"]
  /\ lead' = [lead EXCEPT !.version = @ + 1, !.nextDue = Remaining(f)]
  /\ Change

\* An answered call is linked to the lead, or a link corrected: the last contact
\* moves, and with it the version.
Contact ==
  /\ lead' = [lead EXCEPT !.version = @ + 1]
  /\ UNCHANGED followUps
  /\ Change

-------------------------------------------------------------------------------
WorkerStep ==
  \/ Synced \/ Conflicted \/ Rejected \/ SendFails \/ NothingDue
  \/ reply = "closed" /\ CloseGate
  \/ \E r \in Updates : Send(r)

Next ==
  \/ WorkerStep \/ LoadLeads \/ Die \/ CloseGate \/ OpenGate
  \/ LoseTrust \/ Contact \/ DelayOver
  \/ \E r \in Updates : Arrive(r) \/ Execute(r)
  \/ \E due \in Dates \cup {0} : Submit(due)
  \/ \E owner \in Members \cup {None}, archived \in BOOLEAN : Save(owner, archived)
  \/ \E f \in Tasks, due \in Dates : PlanFollowUp(f, due)
  \/ \E f \in FollowUps : CompleteFollowUp(f)

Spec == Init /\ [][Next]_vars

\* The quarter-hourly tick keeps starting the worker, a wait ends with an answer
\* or a timeout, a delay ends.
FairSpec == Spec /\ WF_vars(WorkerStep) /\ WF_vars(DelayOver)

-------------------------------------------------------------------------------
(* What makes it correct.                                                     *)

\* At most one row waits or is in flight; the worker's is, under an open gate, and an
\* answer is for it.
OneActiveRow ==
  /\ \A q, r \in Active : q = r
  /\ pc = "sending" => gate /\ current \in Updates /\ queue[current] = "IN_FLIGHT"
  /\ reply # "none" => pc = "sending" /\ current \in wire

\* Nothing is known anywhere of an update that was not composed, and only what was
\* sent is in the ledger, which says what was applied.
LedgerAgrees ==
  \A r \in Updates :
    /\ command[r].expects = 0 => queue[r] = "absent" /\ r \notin wire
    /\ r \in ledger => r \in admitted
    /\ r \in admitted => r \in wire
    /\ r \in ledger <=> written[r] # {}
    /\ followUps[r].state # "absent" => r \in ledger

\* A version on the screen or in a command has been the lead's; while it still is,
\* the lead is the employee's.
SeenVersions ==
  \A v \in {shown} \cup {command[r].expects : r \in Updates} :
    /\ v <= lead.version
    /\ v = lead.version => lead.owner = Me /\ ~lead.archived

\* Done: in the ledger.  Refused: not, and never will be.
Done(r)    == r \in ledger
Refused(r) == r \notin ledger /\ command[r].expects < lead.version

OutcomesAgree ==
  /\ \A r \in ledger : command[r].expects < lead.version
  /\ reply = "ok" => Done(current)
  /\ reply = "conflict" \/ (reply = "missing" /\ trusted) => Refused(current)
  /\ \A r \in Updates :
       /\ queue[r] = "SYNCED" => Done(r)
       /\ queue[r] = "CONFLICT" => Refused(r)

\* The types, and what each part may rely on of the others: inductive.
LeadWorkInv == TypeOK /\ OneActiveRow /\ LedgerAgrees /\ SeenVersions /\ OutcomesAgree

\* An update reaches the lead at most once, and only the very version that the
\* employee had on the screen, whoever changed it meanwhile and however many
\* copies of the request are executed.
AppliedAsSeen == \A r \in Updates : written[r] \subseteq {command[r].expects}

\* Refused means not done: a conflict is never the answer to an update that was or
\* will be applied, nor is "not found" while the phone is trusted, so the "refresh
\* required" of the phone is true however late the copies of the request arrive.
\* Not so the "not found" of a phone whose trust was lost between its authentication
\* and the transaction: applyMobileLeadUpdate looks at the trust before the ledger, and
\* the retry of an applied update is rejected.  ("denied" is not in it either: a phone
\* whose clock runs ahead is denied first and may be served later.)
RefusalIsTrue ==
  /\ reply = "conflict" \/ (reply = "missing" /\ trusted) => written[current] = {}
  /\ \A r \in Updates : queue[r] = "CONFLICT" => written[r] = {}

\* What the phone calls synced is on the server.
SyncedIsApplied == \A r \in Updates : queue[r] = "SYNCED" => written[r] # {}

\* next_follow_up_at is the earliest pending due date: lowered by the phone's
\* update without reading the follow-ups, recomputed by the managers' steps.
NextDueAgrees == lead.nextDue = NextDue(followUps)

\* While the gate is open, a queued update ends synced, in conflict or rejected.
QueuedUpdateSettles == []<>(~gate \/ Active = {})
===============================================================================
