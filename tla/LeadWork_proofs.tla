---------------------------- MODULE LeadWork_proofs ----------------------------
(* Theorems about LeadWork for every set of updates, follow-ups, dates and     *)
(* members and every bound.                                                    *)
EXTENDS LeadWork, WellFoundedInduction, TLAPS

\* The minimum of a nonempty set of naturals is its least member.
LEMMA MinIsLeast ==
  ASSUME NEW S \in SUBSET Nat, S # {}
  PROVE  Min(S) \in S /\ \A y \in S : Min(S) <= y
<1>1. PICK x \in S : \A y \in S : ~(<<y, x>> \in OpToRel(<, Nat))
  BY NatLessThanWellFounded, WFMin
<1>2. \A y \in S : x <= y
  <2> TAKE y \in S
  <2>1. ~(<<y, x>> \in OpToRel(<, Nat))
    BY <1>1
  <2>2. x \in Nat /\ y \in Nat
    OBVIOUS
  <2>3. ~(y < x)
    BY <2>1, <2>2 DEF OpToRel
  <2> QED BY <2>2, <2>3
<1> QED BY <1>1, <1>2 DEF Min

LEMMA InvInit == Init => LeadWorkInv /\ AppliedAsSeen
<1> SUFFICES ASSUME Init PROVE LeadWorkInv /\ AppliedAsSeen
  OBVIOUS
<1>1. TypeOK
  <2>1. Team[Me] \in Teams /\ Me \in Members
    BY PeopleAndDates DEF Teams
  <2>2. lead \in [version : Nat \ {0}, owner : Members \cup {None}, team : Teams,
                  archived : BOOLEAN, nextDue : Dates \cup {0}]
    BY <2>1 DEF Init
  <2>3. spent \in [crashes : 0..MaxCrashes, changes : 0..MaxChanges, closings : 0..MaxClosings]
    BY LimitsAreNat DEF Init
  <2> QED BY <2>2, <2>3 DEF Init, TypeOK, Statuses
<1>2. OneActiveRow /\ LedgerAgrees /\ OutcomesAgree
  BY DEF Init, OneActiveRow, LedgerAgrees, OutcomesAgree, Active, FollowUps
<1>3. SeenVersions
  <2>1. lead.version = 1 /\ lead.owner = Me /\ ~lead.archived
    BY DEF Init
  <2>2. \A v \in {shown} \cup {command[r].expects : r \in Updates} : v = 0
    BY DEF Init
  <2> QED BY <2>1, <2>2 DEF SeenVersions
<1>4. AppliedAsSeen
  BY DEF Init, AppliedAsSeen
<1> QED BY <1>1, <1>2, <1>3, <1>4 DEF LeadWorkInv
-------------------------------------------------------------------------------
(* What the steps have in common.                                             *)

LEMMA PrunedRows ==
  ASSUME NEW q \in [Updates -> Statuses], NEW p \in Pruned(q)
  PROVE  /\ p \in [Updates -> Statuses]
         /\ \A r \in Updates : p[r] = q[r] \/ p[r] = "absent"
         /\ \A r \in Updates : q[r] # "SYNCED" => p[r] = q[r]
BY DEF Pruned, Statuses

Outcomes == {"SYNCED", "CONFLICT", "REJECTED", "RETRY"}

\* The rows after a run settled one.
LEMMA SettledRows ==
  ASSUME TypeOK, OneActiveRow, NEW status \in Outcomes, Settle(status)
  PROVE  /\ queue' \in [Updates -> Statuses]
         /\ queue'[current] \in {status, "absent"}
         /\ \A r \in Updates \ {current} : queue'[r] \in {queue[r], "absent"}
         /\ current \in Updates
<1> DEFINE q == [queue EXCEPT ![current] = status]
<1>1. current \in Updates /\ queue \in [Updates -> Statuses]
  BY DEF Settle, OneActiveRow, TypeOK
<1>2. q \in [Updates -> Statuses] /\ queue' \in Pruned(q)
  BY <1>1 DEF Settle, Statuses, Outcomes
<1>3. queue' \in [Updates -> Statuses] /\ \A r \in Updates : queue'[r] \in {q[r], "absent"}
  <2> HIDE DEF q
  <2> QED BY <1>2, PrunedRows
<1> QED BY <1>1, <1>3

\* Each way a run can end is a Settle whose outcome the answer justifies.
LEMMA RunEnds ==
  ASSUME TypeOK, Synced \/ Conflicted \/ Rejected \/ SendFails
  PROVE  \E status \in Outcomes :
           /\ Settle(status)
           /\ attempts' \in Nat /\ waiting' \in BOOLEAN
           /\ status = "SYNCED" => reply = "ok"
           /\ status = "CONFLICT" => reply = "conflict"
<1>1. CASE Synced
  BY <1>1 DEF Synced, Finish, Outcomes, TypeOK
<1>2. CASE Conflicted
  BY <1>2 DEF Conflicted, Finish, Outcomes, TypeOK
<1>3. CASE Rejected
  BY <1>3 DEF Rejected, Finish, Outcomes, TypeOK
<1>4. CASE SendFails
  <2>1. CASE Settle("RETRY") /\ attempts' = attempts + 1 /\ waiting' = TRUE
    <3>1. attempts' \in Nat /\ waiting' \in BOOLEAN
      BY <2>1 DEF TypeOK
    <3> QED BY <2>1, <3>1 DEF Outcomes
  <2>2. CASE Finish("REJECTED")
    BY <2>2 DEF Finish, Outcomes, TypeOK
  <2> QED BY <1>4, <2>1, <2>2 DEF SendFails
<1> QED BY <1>1, <1>2, <1>3, <1>4

\* A step at a desk moves the version by one and creates no follow-up of an update.
DeskStep ==
  \/ Contact
  \/ \E owner \in Members \cup {None}, archived \in BOOLEAN : Save(owner, archived)
  \/ \E f \in Tasks, due \in Dates : PlanFollowUp(f, due)
  \/ \E f \in FollowUps : CompleteFollowUp(f)

LEMMA DeskMovesVersion ==
  ASSUME TypeOK, DeskStep
  PROVE  /\ Change
         /\ lead'.version = lead.version + 1
         /\ \A r \in Updates : followUps'[r].state = "absent" <=> followUps[r].state = "absent"
<1> USE DEF TypeOK
<1>1. CASE Contact
  BY <1>1 DEF Contact
<1>2. CASE \E owner \in Members \cup {None}, archived \in BOOLEAN : Save(owner, archived)
  BY <1>2 DEF Save
<1>3. ASSUME NEW f \in Tasks, NEW due \in Dates, PlanFollowUp(f, due)
      PROVE  /\ Change
             /\ lead'.version = lead.version + 1
             /\ \A r \in Updates : followUps'[r].state = "absent" <=> followUps[r].state = "absent"
  <2>1. \A r \in Updates : r # f /\ r \in FollowUps
    BY PeopleAndDates DEF FollowUps
  <2> QED BY <1>3, <2>1 DEF PlanFollowUp
<1>4. ASSUME NEW f \in FollowUps, CompleteFollowUp(f)
      PROVE  /\ Change
             /\ lead'.version = lead.version + 1
             /\ \A r \in Updates : followUps'[r].state = "absent" <=> followUps[r].state = "absent"
  <2>1. \A r \in Updates : r \in FollowUps
    BY DEF FollowUps
  <2> QED BY <1>4, <2>1 DEF CompleteFollowUp
<1> QED BY <1>1, <1>2, <1>3, <1>4 DEF DeskStep

LeadType     == [version : Nat \ {0}, owner : Members \cup {None}, team : Teams,
                 archived : BOOLEAN, nextDue : Dates \cup {0}]
FollowUpType == [FollowUps -> [state : {"absent", "pending", "completed"}, due : Dates \cup {0}]]

\* The earliest pending due date is a date, or none.
LEMMA NextDueTyped ==
  ASSUME NEW fs \in FollowUpType
  PROVE  PendingDue(fs) \in SUBSET Nat /\ NextDue(fs) \in Dates \cup {0}
<1>1. PendingDue(fs) \subseteq Dates \cup {0}
  BY DEF PendingDue, FollowUpType
<1>2. PendingDue(fs) \in SUBSET Nat
  <2>1. Dates \subseteq Nat
    BY PeopleAndDates
  <2>2. Dates \cup {0} \subseteq Nat
    BY <2>1
  <2> QED BY <1>1, <2>2
<1>3. CASE PendingDue(fs) = {}
  BY <1>2, <1>3 DEF NextDue
<1>4. CASE PendingDue(fs) # {}
  <2>1. Min(PendingDue(fs)) \in PendingDue(fs)
    BY <1>2, <1>4, MinIsLeast
  <2> QED BY <1>1, <1>2, <1>4, <2>1 DEF NextDue
<1> QED BY <1>3, <1>4

LEMMA DeskTyped ==
  ASSUME TypeOK, DeskStep
  PROVE  lead' \in LeadType /\ followUps' \in FollowUpType
<1>0. lead \in LeadType /\ followUps \in FollowUpType
  BY DEF TypeOK, LeadType, FollowUpType
<1>v. lead.version + 1 \in Nat \ {0}
  BY <1>0 DEF LeadType
<1>1. CASE Contact
  BY <1>0, <1>v, <1>1 DEF Contact, LeadType
<1>2. ASSUME NEW owner \in Members \cup {None}, NEW archived \in BOOLEAN, Save(owner, archived)
      PROVE  lead' \in LeadType /\ followUps' \in FollowUpType
  <2> DEFINE team == IF owner = None THEN lead.team ELSE Team[owner]
  <2>1. team \in Teams
    BY <1>0 DEF LeadType, Teams
  <2>2. lead' = [lead EXCEPT !.version = @ + 1, !.owner = owner, !.team = team, !.archived = archived]
    BY <1>2 DEF Save
  <2>3. lead' \in LeadType
    BY <1>0, <1>v, <2>1, <2>2 DEF LeadType
  <2> QED BY <1>0, <1>2, <2>3 DEF Save
<1>3. ASSUME NEW f \in Tasks, NEW due \in Dates, PlanFollowUp(f, due)
      PROVE  lead' \in LeadType /\ followUps' \in FollowUpType
  <2>1. followUps' \in FollowUpType
    BY <1>0, <1>3 DEF PlanFollowUp, FollowUpType, FollowUps
  <2>2. NextDue(followUps') \in Dates \cup {0}
    BY <2>1, NextDueTyped
  <2> QED BY <1>0, <1>v, <1>3, <2>1, <2>2 DEF PlanFollowUp, LeadType
<1>4. ASSUME NEW f \in FollowUps, CompleteFollowUp(f)
      PROVE  lead' \in LeadType /\ followUps' \in FollowUpType
  <2>1. followUps' \in FollowUpType
    BY <1>0, <1>4 DEF CompleteFollowUp, FollowUpType
  <2>2. followUps' = [followUps EXCEPT ![f].state = "completed"]
    BY <1>4 DEF CompleteFollowUp
  <2>3. Remaining(f) \in Dates \cup {0}
    BY <2>1, <2>2, NextDueTyped DEF Remaining
  <2> QED BY <1>0, <1>v, <1>4, <2>1, <2>3 DEF CompleteFollowUp, LeadType
<1> QED BY <1>1, <1>2, <1>3, <1>4 DEF DeskStep

\* Execution changes nothing on the server or applies the update for the first time.
LEMMA ExecutionApplies ==
  ASSUME TypeOK, NEW r \in Updates, Execute(r)
  PROVE  /\ r \in admitted
         /\ \/ UNCHANGED serverVars
            \/ r \notin ledger /\ Findable(r) /\ Comparable(r) /\ ApplyUpdate(r)
BY DEF Execute, Replayed

-------------------------------------------------------------------------------
(* Each part of the invariant is preserved.                                   *)

LEMMA TypeStep == LeadWorkInv /\ [Next]_vars => TypeOK'
<1> SUFFICES ASSUME LeadWorkInv, [Next]_vars PROVE TypeOK'
  OBVIOUS
<1> USE DEF serverVars, queueVars, workerVars
<1>0. TypeOK /\ OneActiveRow
  BY DEF LeadWorkInv
<1>s. ASSUME NEW what \in {"crashes", "changes", "closings"}, NEW bound, Spend(what, bound),
             bound = IF what = "crashes" THEN MaxCrashes
                     ELSE IF what = "changes" THEN MaxChanges ELSE MaxClosings
      PROVE  spent' \in [crashes : 0..MaxCrashes, changes : 0..MaxChanges, closings : 0..MaxClosings]
  BY <1>0, <1>s, LimitsAreNat DEF Spend, TypeOK
<1>1. CASE Synced \/ Conflicted \/ Rejected \/ SendFails
  <2>1. PICK status \in Outcomes : Settle(status) /\ attempts' \in Nat /\ waiting' \in BOOLEAN
    BY <1>0, <1>1, RunEnds
  <2>2. queue' \in [Updates -> Statuses]
    BY <1>0, <2>1, SettledRows
  <2> QED BY <1>0, <2>1, <2>2 DEF Settle, TypeOK
<1>2. CASE NothingDue
  <2>1. queue' \in [Updates -> Statuses]
    BY <1>0, <1>2, PrunedRows DEF NothingDue, TypeOK
  <2> QED BY <1>0, <1>2, <2>1 DEF NothingDue, TypeOK
<1>3. CASE CloseGate
  <2>1. spent' \in [crashes : 0..MaxCrashes, changes : 0..MaxChanges, closings : 0..MaxClosings]
    BY <1>0, <1>3, <1>s DEF CloseGate, TypeOK
  <2>2. queue' \in [Updates -> Statuses]
    BY <1>3 DEF CloseGate, Statuses
  <2> QED BY <1>0, <1>3, <2>1, <2>2 DEF CloseGate, TypeOK
<1>4. ASSUME NEW r \in Updates, Send(r) PROVE TypeOK'
  <2>1. queue' \in [Updates -> Statuses]
    BY <1>0, <1>4 DEF Send, TypeOK, Statuses
  <2> QED BY <1>0, <1>4, <2>1 DEF Send, TypeOK
<1>5. CASE LoadLeads
  BY <1>0, <1>5 DEF LoadLeads, TypeOK
<1>6. CASE Die
  <2>1. spent' \in [crashes : 0..MaxCrashes, changes : 0..MaxChanges, closings : 0..MaxClosings]
    BY <1>6, <1>s DEF Die
  <2> QED BY <1>0, <1>6, <2>1 DEF Die, TypeOK
<1>7. CASE OpenGate
  BY <1>0, <1>7 DEF OpenGate, TypeOK
<1>8. CASE LoseTrust
  <2>1. spent' \in [crashes : 0..MaxCrashes, changes : 0..MaxChanges, closings : 0..MaxClosings]
    BY <1>8, <1>s DEF LoseTrust
  <2> QED BY <1>0, <1>8, <2>1 DEF LoseTrust, TypeOK
<1>9. CASE DelayOver
  BY <1>0, <1>9 DEF DelayOver, TypeOK
<1>10. ASSUME NEW r \in Updates, Execute(r) PROVE TypeOK'
  <2>1. reply' \in {"none", "ok", "conflict", "missing", "denied", "closed"}
    <3>1. \/ UNCHANGED reply
          \/ \E with \in {"ok", "conflict", "missing", "denied", "closed"} : reply' = with
      BY <1>10 DEF Execute, Answer
    <3> QED BY <1>0, <3>1 DEF TypeOK
  <2>2. CASE UNCHANGED serverVars
    BY <1>0, <1>10, <2>1, <2>2 DEF Execute, TypeOK
  <2>3. CASE ApplyUpdate(r)
    <3>1. Earlier(lead.nextDue, command[r].due) \in Dates \cup {0}
      <4>1. lead.nextDue \in Dates \cup {0} /\ command[r].due \in Dates \cup {0}
        BY <1>0 DEF TypeOK
      <4>2. CASE lead.nextDue = 0 \/ command[r].due = 0
        BY <4>1, <4>2 DEF Earlier
      <4>3. CASE lead.nextDue # 0 /\ command[r].due # 0
        <5>1. {lead.nextDue, command[r].due} \in SUBSET Nat
          BY <4>1, <4>3, PeopleAndDates
        <5>2. Min({lead.nextDue, command[r].due}) \in {lead.nextDue, command[r].due}
          BY <5>1, MinIsLeast
        <5> QED BY <4>1, <4>3, <5>2 DEF Earlier
      <4> QED BY <4>2, <4>3
    <3>2. lead' \in LeadType
      <4>1. lead \in LeadType /\ lead.version + 1 \in Nat \ {0}
        BY <1>0 DEF TypeOK, LeadType
      <4>2. lead' = [lead EXCEPT !.version = @ + 1, !.nextDue = Earlier(@, command[r].due)]
        BY <2>3 DEF ApplyUpdate
      <4> QED BY <3>1, <4>1, <4>2 DEF LeadType
    <3>3. followUps' \in [FollowUps -> [state : {"absent", "pending", "completed"}, due : Dates \cup {0}]]
      BY <1>0, <2>3 DEF ApplyUpdate, TypeOK, FollowUps
    <3>4. written' \in [Updates -> SUBSET Nat] /\ ledger' \subseteq Updates
      BY <1>0, <2>3 DEF ApplyUpdate, TypeOK
    <3> QED BY <1>0, <1>10, <2>1, <3>2, <3>3, <3>4 DEF Execute, TypeOK, LeadType
  <2> QED BY <1>0, <1>10, <2>2, <2>3, ExecutionApplies
<1>11. ASSUME NEW due \in Dates \cup {0}, Submit(due) PROVE TypeOK'
  <2>1. PICK r \in Fresh : /\ queue' = [q \in Updates |-> IF q = r THEN "PENDING"
                                                         ELSE IF queue[q] \in {"CONFLICT", "REJECTED"}
                                                              THEN "absent" ELSE queue[q]]
                           /\ command' = [command EXCEPT ![r] = [expects |-> shown, due |-> due]]
    BY <1>11 DEF Submit
  <2>2. queue' \in [Updates -> Statuses]
    BY <1>0, <2>1 DEF Statuses, TypeOK
  <2>3. command' \in [Updates -> [expects : Nat, due : Dates \cup {0}]]
    BY <1>0, <2>1 DEF TypeOK
  <2> QED BY <1>0, <1>11, <2>2, <2>3 DEF Submit, TypeOK
<1>12. CASE DeskStep
  <2>1. Change
    BY <1>0, <1>12, DeskMovesVersion
  <2>2. spent' \in [crashes : 0..MaxCrashes, changes : 0..MaxChanges, closings : 0..MaxClosings]
    BY <2>1, <1>s DEF Change
  <2>3. lead' \in LeadType /\ followUps' \in FollowUpType
    BY <1>0, <1>12, DeskTyped
  <2> QED BY <1>0, <2>1, <2>2, <2>3 DEF Change, TypeOK, LeadType, FollowUpType
<1>13. CASE UNCHANGED vars
  BY <1>0, <1>13 DEF vars, TypeOK
<1>14. ASSUME NEW r \in Updates, Arrive(r) PROVE TypeOK'
  BY <1>0, <1>14 DEF Arrive, Answer, TypeOK
<1> QED
  BY <1>1, <1>2, <1>3, <1>4, <1>5, <1>6, <1>7, <1>8, <1>9, <1>10, <1>11, <1>12, <1>13, <1>14
  DEF Next, WorkerStep, DeskStep

LEMMA ActiveStep == LeadWorkInv /\ [Next]_vars => OneActiveRow'
<1> SUFFICES ASSUME LeadWorkInv, [Next]_vars PROVE OneActiveRow'
  OBVIOUS
<1> USE DEF serverVars, queueVars, workerVars
<1>0. TypeOK /\ OneActiveRow /\ \A r \in admitted : r \in Updates /\ r \in wire
  BY DEF LeadWorkInv, LedgerAgrees, TypeOK
<1>1. CASE Synced \/ Conflicted \/ Rejected \/ SendFails
  <2>1. PICK status \in Outcomes : Settle(status)
    BY <1>0, <1>1, RunEnds
  <2>2. \A r \in Updates : queue'[r] \in {"PENDING", "IN_FLIGHT", "RETRY"} => r \in Active
    <3>1. current \in Active
      BY <1>0, <2>1 DEF Settle, OneActiveRow, Active
    <3> QED BY <1>0, <2>1, <3>1, SettledRows DEF Active
  <2> QED BY <1>0, <2>1, <2>2 DEF Settle, OneActiveRow, Active
<1>2. CASE NothingDue
  <2>1. \A r \in Updates : queue'[r] \in {queue[r], "absent"}
    BY <1>0, <1>2, PrunedRows DEF NothingDue, TypeOK
  <2> QED BY <1>0, <1>2, <2>1 DEF NothingDue, OneActiveRow, Active
<1>3. CASE CloseGate
  BY <1>0, <1>3 DEF CloseGate, OneActiveRow, Active
<1>4. ASSUME NEW r \in Updates, Send(r) PROVE OneActiveRow'
  BY <1>0, <1>4 DEF Send, Due, Interrupted, OneActiveRow, Active, TypeOK
<1>5. CASE LoadLeads
  BY <1>0, <1>5 DEF LoadLeads, OneActiveRow, Active
<1>6. CASE Die
  BY <1>0, <1>6 DEF Die, OneActiveRow, Active
<1>7. CASE OpenGate
  BY <1>0, <1>7 DEF OpenGate, OneActiveRow, Active
<1>8. CASE LoseTrust
  BY <1>0, <1>8 DEF LoseTrust, OneActiveRow, Active
<1>9. CASE DelayOver
  BY <1>0, <1>9 DEF DelayOver, OneActiveRow, Active
<1>10. ASSUME NEW r \in Updates, Execute(r) PROVE OneActiveRow'
  <2>1. /\ UNCHANGED <<queue, pc, current, gate, wire>> /\ r \in wire
        /\ reply' = reply \/ (pc = "sending" /\ current = r)
    BY <1>0, <1>10 DEF Execute, Answer
  <2> QED BY <1>0, <2>1 DEF OneActiveRow, Active
<1>11. ASSUME NEW due \in Dates \cup {0}, Submit(due) PROVE OneActiveRow'
  BY <1>0, <1>11 DEF Submit, Fresh, OneActiveRow, Active, TypeOK
<1>12. CASE DeskStep
  BY <1>0, <1>12, DeskMovesVersion DEF Change, OneActiveRow, Active
<1>13. CASE UNCHANGED vars
  BY <1>0, <1>13 DEF vars, OneActiveRow, Active
<1>14. ASSUME NEW r \in Updates, Arrive(r) PROVE OneActiveRow'
  BY <1>0, <1>14 DEF Arrive, Answer, OneActiveRow, Active
<1> QED
  BY <1>1, <1>2, <1>3, <1>4, <1>5, <1>6, <1>7, <1>8, <1>9, <1>10, <1>11, <1>12, <1>13, <1>14
  DEF Next, WorkerStep, DeskStep

LEMMA LedgerStep == LeadWorkInv /\ [Next]_vars => LedgerAgrees'
<1> SUFFICES ASSUME LeadWorkInv, [Next]_vars PROVE LedgerAgrees'
  OBVIOUS
<1> USE DEF serverVars, queueVars, workerVars
<1>0. TypeOK /\ OneActiveRow /\ LedgerAgrees
  BY DEF LeadWorkInv
<1>u. \A r \in Updates : r \in FollowUps
  BY DEF FollowUps
<1>1. CASE Synced \/ Conflicted \/ Rejected \/ SendFails
  <2>1. PICK status \in Outcomes : Settle(status)
    BY <1>0, <1>1, RunEnds
  <2>2. command[current].expects # 0
    BY <1>0, <2>1 DEF Settle, OneActiveRow, LedgerAgrees
  <2>3. \A r \in Updates \ {current} : queue'[r] \in {queue[r], "absent"}
    BY <1>0, <2>1, SettledRows
  <2> QED BY <1>0, <2>1, <2>2, <2>3 DEF Settle, LedgerAgrees
<1>2. CASE NothingDue
  <2>1. \A r \in Updates : queue'[r] \in {queue[r], "absent"}
    BY <1>0, <1>2, PrunedRows DEF NothingDue, TypeOK
  <2> QED BY <1>0, <1>2, <2>1 DEF NothingDue, LedgerAgrees
<1>3. CASE CloseGate
  BY <1>0, <1>3 DEF CloseGate, LedgerAgrees
<1>4. ASSUME NEW r \in Updates, Send(r) PROVE LedgerAgrees'
  <2>1. command[r].expects # 0
    BY <1>0, <1>4 DEF Send, Due, Interrupted, LedgerAgrees
  <2>2. \A q \in Updates \ {r} : queue'[q] = queue[q]
    BY <1>0, <1>4 DEF Send, TypeOK
  <2> QED BY <1>0, <1>4, <2>1, <2>2 DEF Send, LedgerAgrees
<1>5. CASE LoadLeads
  BY <1>0, <1>5 DEF LoadLeads, LedgerAgrees
<1>6. CASE Die
  BY <1>0, <1>6 DEF Die, LedgerAgrees
<1>7. CASE OpenGate
  BY <1>0, <1>7 DEF OpenGate, LedgerAgrees
<1>8. CASE LoseTrust
  BY <1>0, <1>8 DEF LoseTrust, LedgerAgrees
<1>9. CASE DelayOver
  BY <1>0, <1>9 DEF DelayOver, LedgerAgrees
<1>10. ASSUME NEW r \in Updates, Execute(r) PROVE LedgerAgrees'
  <2>1. r \in admitted /\ UNCHANGED <<wire, admitted, command, queue>>
    BY <1>0, <1>10, ExecutionApplies DEF Execute
  <2>2. CASE UNCHANGED serverVars
    BY <1>0, <1>10, <2>2 DEF Execute, LedgerAgrees
  <2>3. CASE ApplyUpdate(r)
    <3>1. /\ \A q \in Updates : q # r => written'[q] = written[q]
          /\ written'[r] # {}
          /\ ledger' = ledger \cup {r}
      BY <1>0, <2>3 DEF ApplyUpdate, TypeOK
    <3>2. \A q \in Updates : q # r => followUps'[q] = followUps[q]
      BY <1>0, <1>u, <2>3 DEF ApplyUpdate, TypeOK
    <3> QED BY <1>0, <1>10, <2>1, <3>1, <3>2 DEF Execute, LedgerAgrees
  <2> QED BY <1>0, <1>10, <2>2, <2>3, ExecutionApplies
<1>11. ASSUME NEW due \in Dates \cup {0}, Submit(due) PROVE LedgerAgrees'
  <2>1. PICK r \in Fresh : /\ queue' = [q \in Updates |-> IF q = r THEN "PENDING"
                                                         ELSE IF queue[q] \in {"CONFLICT", "REJECTED"}
                                                              THEN "absent" ELSE queue[q]]
                           /\ command' = [command EXCEPT ![r] = [expects |-> shown, due |-> due]]
    BY <1>11 DEF Submit
  <2>2. command'[r].expects # 0 /\ \A q \in Updates \ {r} : command'[q] = command[q]
    BY <1>0, <1>11, <2>1 DEF Submit, Fresh, TypeOK
  <2>3. \A q \in Updates \ {r} : queue'[q] \in {queue[q], "absent"}
    BY <2>1
  <2> QED BY <1>0, <1>11, <2>1, <2>2, <2>3 DEF Submit, LedgerAgrees
<1>12. CASE DeskStep
  BY <1>0, <1>12, DeskMovesVersion DEF Change, LedgerAgrees
<1>13. CASE UNCHANGED vars
  BY <1>0, <1>13 DEF vars, LedgerAgrees
<1>14. ASSUME NEW r \in Updates, Arrive(r) PROVE LedgerAgrees'
  BY <1>0, <1>14 DEF Arrive, Answer, LedgerAgrees
<1> QED
  BY <1>1, <1>2, <1>3, <1>4, <1>5, <1>6, <1>7, <1>8, <1>9, <1>10, <1>11, <1>12, <1>13, <1>14
  DEF Next, WorkerStep, DeskStep

\* A lead that stays keeps what was seen of it; a higher version leaves it behind.
LEMMA SeenKept ==
  ASSUME TypeOK, SeenVersions, UNCHANGED <<lead, command>>, shown' \in {shown, 0}
  PROVE  SeenVersions'
<1>1. lead.version # 0 /\ lead.version \in Nat
  BY DEF TypeOK
<1> QED BY <1>1 DEF SeenVersions

LEMMA SeenBehind ==
  ASSUME TypeOK, SeenVersions, lead'.version = lead.version + 1, UNCHANGED <<shown, command>>
  PROVE  SeenVersions'
<1>1. lead.version \in Nat
  BY DEF TypeOK
<1>2. ASSUME NEW v \in {shown} \cup {command[r].expects : r \in Updates}
      PROVE  v <= lead'.version /\ v # lead'.version
  <2>1. v \in Nat
    BY DEF TypeOK
  <2>2. v <= lead.version
    BY DEF SeenVersions
  <2> QED BY <1>1, <2>1, <2>2
<1> QED BY <1>2 DEF SeenVersions

LEMMA SeenStep == LeadWorkInv /\ [Next]_vars => SeenVersions'
<1> SUFFICES ASSUME LeadWorkInv, [Next]_vars PROVE SeenVersions'
  OBVIOUS
<1> USE DEF serverVars, queueVars, workerVars
<1>0. TypeOK /\ SeenVersions
  BY DEF LeadWorkInv
<1>1. CASE Synced \/ Conflicted \/ Rejected \/ SendFails
  <2>1. PICK status \in Outcomes : Settle(status)
    BY <1>0, <1>1, RunEnds
  <2> QED BY <1>0, <2>1, SeenKept DEF Settle
<1>2. CASE NothingDue
  BY <1>0, <1>2, SeenKept DEF NothingDue
<1>3. CASE CloseGate
  BY <1>0, <1>3, SeenKept DEF CloseGate
<1>4. ASSUME NEW r \in Updates, Send(r) PROVE SeenVersions'
  BY <1>0, <1>4, SeenKept DEF Send
<1>5. CASE LoadLeads
  <2>1. lead.version \in Nat \ {0}
    BY <1>0 DEF TypeOK
  <2> QED BY <1>0, <1>5, <2>1 DEF LoadLeads, SeenVersions
<1>6. CASE Die
  BY <1>0, <1>6, SeenKept DEF Die
<1>7. CASE OpenGate
  BY <1>0, <1>7, SeenKept DEF OpenGate
<1>8. CASE LoseTrust
  BY <1>0, <1>8, SeenKept DEF LoseTrust
<1>9. CASE DelayOver
  BY <1>0, <1>9, SeenKept DEF DelayOver
<1>10. ASSUME NEW r \in Updates, Execute(r) PROVE SeenVersions'
  <2>1. UNCHANGED <<shown, command>>
    BY <1>10 DEF Execute
  <2>2. CASE UNCHANGED serverVars
    BY <1>0, <2>1, <2>2, SeenKept
  <2>3. CASE ApplyUpdate(r)
    <3>1. lead'.version = lead.version + 1
      BY <1>0, <2>3 DEF ApplyUpdate, TypeOK
    <3> QED BY <1>0, <2>1, <3>1, SeenBehind
  <2> QED BY <1>0, <1>10, <2>2, <2>3, ExecutionApplies
<1>11. ASSUME NEW due \in Dates \cup {0}, Submit(due) PROVE SeenVersions'
  <2>1. PICK r \in Fresh : command' = [command EXCEPT ![r] = [expects |-> shown, due |-> due]]
    BY <1>11 DEF Submit
  <2>2. \A q \in Updates : command'[q].expects \in {shown, command[q].expects}
    BY <1>0, <2>1 DEF TypeOK
  <2> QED BY <1>0, <1>11, <2>2 DEF Submit, SeenVersions
<1>12. CASE DeskStep
  BY <1>0, <1>12, DeskMovesVersion, SeenBehind DEF Change
<1>13. CASE UNCHANGED vars
  BY <1>0, <1>13, SeenKept DEF vars
<1>14. ASSUME NEW r \in Updates, Arrive(r) PROVE SeenVersions'
  BY <1>0, <1>14, SeenKept DEF Arrive
<1> QED
  BY <1>1, <1>2, <1>3, <1>4, <1>5, <1>6, <1>7, <1>8, <1>9, <1>10, <1>11, <1>12, <1>13, <1>14
  DEF Next, WorkerStep, DeskStep

\* The answers that say the update will never be done.
Refusing == reply = "conflict" \/ (reply = "missing" /\ trusted)

\* What is done stays done, and what is refused stays refused.
LEMMA OutcomesKept ==
  ASSUME TypeOK, OneActiveRow, OutcomesAgree, UNCHANGED <<command, ledger>>,
         lead' = lead \/ lead'.version = lead.version + 1,
         reply' # "none" => UNCHANGED <<reply, current>> /\ (trusted' => trusted),
         \A r \in Updates : queue'[r] \in {"SYNCED", "CONFLICT"} => queue'[r] = queue[r]
  PROVE  OutcomesAgree'
<1>1. \A r \in Updates : command[r].expects < lead.version => command[r].expects < lead'.version
  BY DEF TypeOK
<1>2. ledger \subseteq Updates
  BY DEF TypeOK
<1>3. \A r \in Updates : (Refused(r) => Refused(r)') /\ (Done(r) <=> Done(r)')
  BY <1>1 DEF Refused, Done
<1>4. reply # "none" => current \in Updates
  BY DEF OneActiveRow
<1>5. (reply = "ok" => Done(current))' /\ (Refusing => Refused(current))'
  <2>1. CASE reply' = "none"
    BY <2>1 DEF Refusing
  <2>2. CASE reply' # "none"
    <3>1. reply' = reply /\ current' = current /\ current \in Updates
      BY <2>2, <1>4
    <3>2. reply = "ok" => Done(current)
      BY DEF OutcomesAgree
    <3>3. Refusing => Refused(current)
      BY DEF OutcomesAgree, Refusing
    <3>4. Done(current) => Done(current)'
      BY <3>1 DEF Done
    <3>5. Refused(current) => Refused(current)'
      BY <3>1, <1>1 DEF Refused
    <3>6. Refusing' => Refusing
      BY <2>2, <3>1 DEF Refusing
    <3> QED BY <3>1, <3>2, <3>3, <3>4, <3>5, <3>6
  <2> QED BY <2>1, <2>2
<1>6. \A r \in ledger' : command'[r].expects < lead'.version
  BY <1>1, <1>2 DEF OutcomesAgree
<1>7. \A r \in Updates : (queue'[r] = "SYNCED" => Done(r)') /\ (queue'[r] = "CONFLICT" => Refused(r)')
  BY <1>3 DEF OutcomesAgree
<1> QED BY <1>5, <1>6, <1>7 DEF OutcomesAgree, Refusing

LEMMA OutcomesStep == LeadWorkInv /\ [Next]_vars => OutcomesAgree'
<1> SUFFICES ASSUME LeadWorkInv, [Next]_vars PROVE OutcomesAgree'
  OBVIOUS
<1> USE DEF serverVars, queueVars, workerVars
<1>0. TypeOK /\ OneActiveRow /\ LedgerAgrees /\ SeenVersions /\ OutcomesAgree
  BY DEF LeadWorkInv
<1>1. CASE Synced \/ Conflicted \/ Rejected \/ SendFails
  <2>1. PICK status \in Outcomes : /\ Settle(status)
                                   /\ status = "SYNCED" => reply = "ok"
                                   /\ status = "CONFLICT" => reply = "conflict"
    BY <1>0, <1>1, RunEnds
  <2>2. current \in Updates /\ reply' = "none" /\ UNCHANGED <<lead, ledger, command>>
    BY <1>0, <2>1 DEF Settle, OneActiveRow
  <2>3. queue'[current] \in {status, "absent"}
    BY <1>0, <2>1, SettledRows
  <2>4. \A r \in Updates \ {current} : queue'[r] \in {queue[r], "absent"}
    BY <1>0, <2>1, SettledRows
  <2>5. \A r \in Updates : queue'[r] = "SYNCED" => Done(r)
    BY <1>0, <2>1, <2>3, <2>4 DEF OutcomesAgree
  <2>6. \A r \in Updates : queue'[r] = "CONFLICT" => Refused(r)
    BY <1>0, <2>1, <2>3, <2>4 DEF OutcomesAgree
  <2> QED BY <1>0, <2>2, <2>5, <2>6 DEF OutcomesAgree, Done, Refused
<1>2. CASE NothingDue
  <2>1. \A r \in Updates : queue'[r] \in {queue[r], "absent"}
    BY <1>0, <1>2, PrunedRows DEF NothingDue, TypeOK
  <2> QED BY <1>0, <1>2, <2>1, OutcomesKept DEF NothingDue
<1>3. CASE CloseGate
  BY <1>0, <1>3, OutcomesKept DEF CloseGate
<1>4. ASSUME NEW r \in Updates, Send(r) PROVE OutcomesAgree'
  <2>1. \A q \in Updates : queue'[q] \in {queue[q], "IN_FLIGHT"}
    BY <1>0, <1>4 DEF Send, TypeOK
  <2> QED BY <1>0, <1>4, <2>1, OutcomesKept DEF Send
<1>5. CASE LoadLeads
  BY <1>0, <1>5, OutcomesKept DEF LoadLeads
<1>6. CASE Die
  BY <1>0, <1>6, OutcomesKept DEF Die
<1>7. CASE OpenGate
  <2>1. reply = "none" /\ reply' = "none"
    BY <1>0, <1>7 DEF OpenGate, OneActiveRow
  <2> QED BY <1>0, <1>7, <2>1, OutcomesKept DEF OpenGate
<1>8. CASE LoseTrust
  BY <1>0, <1>8, OutcomesKept DEF LoseTrust
<1>9. CASE DelayOver
  BY <1>0, <1>9, OutcomesKept DEF DelayOver
<1>10. ASSUME NEW r \in Updates, Execute(r) PROVE OutcomesAgree'
  <2>1. UNCHANGED <<queue, command, pc, current, trusted>>
    BY <1>10 DEF Execute
  <2>2. command[r].expects <= lead.version /\ command[r].expects \in Nat /\ lead.version \in Nat
    BY <1>0 DEF SeenVersions, TypeOK
  <2>3. CASE UNCHANGED serverVars
    <3>1. CASE UNCHANGED reply
      BY <1>0, <2>1, <2>3, <3>1, OutcomesKept
    <3>2. CASE current = r /\ (reply' \in {"closed", "denied"} \/ (reply' = "missing" /\ ~trusted))
      BY <1>0, <2>1, <2>3, <3>2 DEF OutcomesAgree, Done, Refused
    <3>3. CASE current = r /\ reply' = "ok" /\ r \in ledger
      BY <1>0, <2>1, <2>3, <3>3 DEF OutcomesAgree, Done, Refused
    <3>4. CASE current = r /\ reply' \in {"missing", "conflict"} /\ r \notin ledger
               /\ ~(Findable(r) /\ Comparable(r))
      <4>1. command[r].expects # lead.version
        BY <1>0, <3>4 DEF SeenVersions, Findable, Comparable
      <4>2. Refused(r)
        BY <2>2, <3>4, <4>1 DEF Refused
      <4> QED BY <1>0, <2>1, <2>3, <3>4, <4>2 DEF OutcomesAgree, Done, Refused
    <3>5. CASE ApplyUpdate(r)
      <4>1. lead'.version = lead.version + 1
        BY <1>0, <3>5 DEF ApplyUpdate, TypeOK
      <4> QED BY <2>2, <2>3, <4>1
    <3> QED BY <1>10, <3>1, <3>2, <3>3, <3>4, <3>5 DEF Execute, Answer, Replayed
  <2>4. CASE r \notin ledger /\ Findable(r) /\ Comparable(r) /\ ApplyUpdate(r)
    <3>1. lead'.version = lead.version + 1 /\ ledger' = ledger \cup {r}
      BY <1>0, <2>4 DEF ApplyUpdate, TypeOK
    <3>2. \A q \in Updates : command[q].expects < lead'.version
      BY <1>0, <3>1 DEF SeenVersions, TypeOK
    <3>3. ~Refused(r)
      BY <2>2, <2>4 DEF Refused, Comparable
    <3>4. \A q \in Updates : Refused(q) => Refused(q)'
      BY <2>1, <3>1, <3>2, <3>3 DEF Refused
    <3>5. reply' = reply \/ (reply' = "ok" /\ current = r)
      <4>1. lead' # lead
        BY <2>2, <3>1
      <4> QED BY <1>10, <2>4, <4>1 DEF Execute, Answer, Replayed
    <3>6. (reply = "ok" => Done(current))'
      BY <1>0, <2>1, <3>1, <3>5 DEF OutcomesAgree, Done
    <3>7. (Refusing => Refused(current))'
      <4>1. Refusing' => Refused(current) /\ current \in Updates
        BY <1>0, <2>1, <3>5 DEF OutcomesAgree, OneActiveRow, Refusing
      <4> QED BY <2>1, <3>4, <4>1 DEF Refused
    <3>8. \A q \in Updates : (queue'[q] = "SYNCED" => Done(q)') /\ (queue'[q] = "CONFLICT" => Refused(q)')
      BY <1>0, <2>1, <3>1, <3>4 DEF OutcomesAgree, Done
    <3>9. \A q \in ledger' : command'[q].expects < lead'.version
      BY <1>0, <2>1, <3>1, <3>2 DEF TypeOK
    <3> QED BY <3>6, <3>7, <3>8, <3>9 DEF OutcomesAgree, Refusing
  <2> QED BY <1>0, <1>10, <2>3, <2>4, ExecutionApplies
<1>11. ASSUME NEW due \in Dates \cup {0}, Submit(due) PROVE OutcomesAgree'
  <2>1. PICK r \in Fresh : /\ queue' = [q \in Updates |-> IF q = r THEN "PENDING"
                                                         ELSE IF queue[q] \in {"CONFLICT", "REJECTED"}
                                                              THEN "absent" ELSE queue[q]]
                           /\ command' = [command EXCEPT ![r] = [expects |-> shown, due |-> due]]
    BY <1>11 DEF Submit
  <2>2. r \in Updates /\ r \notin ledger
    BY <1>0, <2>1 DEF Fresh, LedgerAgrees
  <2>3. reply' = "none" /\ UNCHANGED <<lead, ledger>>
    BY <1>0, <1>11 DEF Submit, OneActiveRow
  <2>4. \A q \in ledger : command'[q] = command[q]
    BY <1>0, <2>1, <2>2 DEF TypeOK
  <2>5. \A q \in Updates : queue'[q] # "CONFLICT" /\ (queue'[q] = "SYNCED" => queue[q] = "SYNCED")
    BY <2>1
  <2> QED BY <1>0, <2>3, <2>4, <2>5 DEF OutcomesAgree, Done
<1>12. CASE DeskStep
  BY <1>0, <1>12, DeskMovesVersion, OutcomesKept DEF Change
<1>13. CASE UNCHANGED vars
  BY <1>0, <1>13, OutcomesKept DEF vars
<1>14. ASSUME NEW r \in Updates, Arrive(r) PROVE OutcomesAgree'
  <2>1. reply' = reply \/ reply' = "closed"
    BY <1>14 DEF Arrive, Answer
  <2>2. CASE reply' = reply
    BY <1>0, <1>14, <2>2, OutcomesKept DEF Arrive
  <2>3. CASE reply' = "closed"
    BY <1>0, <1>14, <2>3 DEF Arrive, OutcomesAgree, Done, Refused
  <2> QED BY <2>1, <2>2, <2>3
<1> QED
  BY <1>1, <1>2, <1>3, <1>4, <1>5, <1>6, <1>7, <1>8, <1>9, <1>10, <1>11, <1>12, <1>13, <1>14
  DEF Next, WorkerStep, DeskStep

LEMMA AppliedStep == LeadWorkInv /\ AppliedAsSeen /\ [Next]_vars => AppliedAsSeen'
<1> SUFFICES ASSUME LeadWorkInv, AppliedAsSeen, [Next]_vars PROVE AppliedAsSeen'
  OBVIOUS
<1> USE DEF serverVars, queueVars, workerVars
<1>0. TypeOK /\ OneActiveRow /\ LedgerAgrees
  BY DEF LeadWorkInv
<1>1. ASSUME NEW r \in Updates, Execute(r) PROVE AppliedAsSeen'
  <2>1. CASE UNCHANGED serverVars
    BY <1>1, <2>1 DEF Execute, AppliedAsSeen
  <2>2. CASE Comparable(r) /\ ApplyUpdate(r)
    <3>1. written' = [written EXCEPT ![r] = @ \cup {command[r].expects}]
      BY <2>2 DEF ApplyUpdate, Comparable
    <3>2. \A q \in Updates : written'[q] \subseteq {command[q].expects}
      BY <1>0, <3>1 DEF AppliedAsSeen, TypeOK
    <3> QED BY <1>1, <3>2 DEF Execute, AppliedAsSeen
  <2> QED BY <1>0, <1>1, <2>1, <2>2, ExecutionApplies
<1>2. ASSUME NEW due \in Dates \cup {0}, Submit(due) PROVE AppliedAsSeen'
  <2>1. PICK r \in Fresh : command' = [command EXCEPT ![r] = [expects |-> shown, due |-> due]]
    BY <1>2 DEF Submit
  <2>2. r \in Updates /\ written[r] = {}
    BY <1>0, <2>1 DEF Fresh, LedgerAgrees
  <2>3. \A q \in Updates \ {r} : command'[q] = command[q]
    BY <1>0, <2>1 DEF TypeOK
  <2> QED BY <1>2, <2>2, <2>3 DEF Submit, AppliedAsSeen
<1>3. CASE UNCHANGED <<written, command>>
  BY <1>3 DEF AppliedAsSeen
<1>4. CASE Synced \/ Conflicted \/ Rejected \/ SendFails
  <2>1. PICK status \in Outcomes : Settle(status)
    BY <1>0, <1>4, RunEnds
  <2> QED BY <2>1, <1>3 DEF Settle
<1>5. CASE DeskStep
  BY <1>0, <1>5, <1>3, DeskMovesVersion DEF Change
<1>6. ASSUME NEW r \in Updates, Send(r) PROVE AppliedAsSeen'
  BY <1>6, <1>3 DEF Send
<1>7. CASE \/ NothingDue \/ CloseGate \/ LoadLeads \/ Die \/ OpenGate \/ LoseTrust \/ DelayOver
           \/ (\E r \in Updates : Arrive(r)) \/ UNCHANGED vars
  BY <1>7, <1>3 DEF NothingDue, CloseGate, LoadLeads, Die, OpenGate, LoseTrust, DelayOver, Arrive, vars
<1> QED
  BY <1>1, <1>2, <1>4, <1>5, <1>6, <1>7 DEF Next, WorkerStep, DeskStep

-------------------------------------------------------------------------------
(* The next follow-up.                                                        *)

\* What NextDueAgrees needs to be inductive: 0 is the date of nothing pending.
NextDueInv ==
  /\ NextDueAgrees
  /\ \A f \in FollowUps : followUps[f].state = "pending" => followUps[f].due # 0

\* Lowering the earliest date by one more pending date is recomputing it.
LEMMA EarlierIsNextDue ==
  ASSUME NEW fs \in FollowUpType, NEW gs \in FollowUpType, NEW d \in Dates,
         0 \notin PendingDue(fs), PendingDue(gs) = PendingDue(fs) \cup {d}
  PROVE  NextDue(gs) = Earlier(NextDue(fs), d)
<1>1. d \in Nat /\ d # 0 /\ PendingDue(fs) \in SUBSET Nat /\ PendingDue(gs) \in SUBSET Nat
  <2>1. d \in Nat /\ d # 0
    BY PeopleAndDates
  <2> QED BY <2>1, NextDueTyped
<1>2. NextDue(gs) = Min(PendingDue(gs))
  BY DEF NextDue
<1>3. NextDue(gs) \in PendingDue(gs) /\ \A y \in PendingDue(gs) : NextDue(gs) <= y
  BY <1>1, <1>2, MinIsLeast
<1>4. CASE PendingDue(fs) = {}
  <2>1. Earlier(NextDue(fs), d) = d
    BY <1>1, <1>4 DEF Earlier, NextDue
  <2> QED BY <1>3, <1>4, <2>1
<1>5. CASE PendingDue(fs) # {}
  <2> DEFINE m == NextDue(fs)
  <2>1. m \in PendingDue(fs) /\ \A y \in PendingDue(fs) : m <= y
    BY <1>1, <1>5, MinIsLeast DEF NextDue
  <2>2. m \in Nat /\ m # 0 /\ Earlier(m, d) = Min({m, d})
    BY <1>1, <2>1 DEF Earlier
  <2>3. {m, d} \in SUBSET Nat
    BY <1>1, <2>2
  <2>4. Min({m, d}) \in {m, d} /\ Min({m, d}) <= m /\ Min({m, d}) <= d
    BY <2>3, MinIsLeast
  <2>5. Min({m, d}) \in PendingDue(gs)
    BY <2>1, <2>4
  <2>6. \A y \in PendingDue(gs) : Min({m, d}) <= y
    <3> TAKE y \in PendingDue(gs)
    <3>1. CASE y = d
      BY <2>4, <3>1
    <3>2. CASE y \in PendingDue(fs)
      <4>1. m <= y /\ y \in Nat
        BY <1>1, <2>1, <3>2
      <4> QED BY <1>1, <2>2, <2>4, <4>1
    <3> QED BY <3>1, <3>2
  <2>7. NextDue(gs) <= Min({m, d}) /\ Min({m, d}) <= NextDue(gs)
    BY <1>3, <2>5, <2>6
  <2>8. NextDue(gs) \in Nat /\ Min({m, d}) \in Nat
    BY <1>1, <1>3, <2>5
  <2> QED BY <2>2, <2>7, <2>8
<1> QED BY <1>4, <1>5

LEMMA NextDueStep == LeadWorkInv /\ NextDueInv /\ [Next]_vars => NextDueInv'
<1> SUFFICES ASSUME LeadWorkInv, NextDueInv, [Next]_vars PROVE NextDueInv'
  OBVIOUS
<1> USE DEF serverVars, queueVars, workerVars
<1>0. TypeOK /\ OneActiveRow /\ LedgerAgrees
  BY DEF LeadWorkInv
<1>t. lead \in LeadType /\ followUps \in FollowUpType
  BY <1>0 DEF TypeOK, LeadType, FollowUpType
<1>k. CASE lead'.nextDue = lead.nextDue /\ followUps' = followUps
  BY <1>k DEF NextDueInv, NextDueAgrees, NextDue, PendingDue
<1>1. ASSUME NEW r \in Updates, Execute(r) PROVE NextDueInv'
  <2>1. CASE UNCHANGED serverVars
    BY <1>k, <2>1
  <2>2. CASE r \notin ledger /\ ApplyUpdate(r)
    <3> DEFINE due == command[r].due
    <3>1. lead'.nextDue = Earlier(lead.nextDue, due) /\ due \in Dates \cup {0}
      BY <1>0, <2>2 DEF ApplyUpdate, TypeOK
    <3>2. CASE due = 0
      BY <1>k, <2>2, <3>1, <3>2 DEF ApplyUpdate, Earlier
    <3>3. CASE due # 0
      <4>1. r \in FollowUps /\ followUps[r].state = "absent"
        BY <1>0, <2>2 DEF LedgerAgrees, FollowUps
      <4>2. followUps' = [followUps EXCEPT ![r] = [state |-> "pending", due |-> due]]
        BY <2>2, <3>3 DEF ApplyUpdate
      <4>3. followUps' \in FollowUpType
        BY <1>t, <3>1, <4>2 DEF FollowUpType
      <4>4. /\ followUps'[r].state = "pending" /\ followUps'[r].due = due
            /\ \A f \in FollowUps : f # r => followUps'[f] = followUps[f]
        BY <1>t, <4>1, <4>2 DEF FollowUpType
      <4>5. PendingDue(followUps') = PendingDue(followUps) \cup {due}
        BY <4>1, <4>4 DEF PendingDue
      <4>6. 0 \notin PendingDue(followUps)
        BY DEF NextDueInv, PendingDue
      <4>7. NextDue(followUps') = Earlier(NextDue(followUps), due)
        BY <1>t, <3>1, <3>3, <4>3, <4>5, <4>6, EarlierIsNextDue
      <4>8. NextDueAgrees'
        BY <3>1, <4>7 DEF NextDueInv, NextDueAgrees, NextDue, PendingDue
      <4> QED BY <3>3, <4>4, <4>8 DEF NextDueInv
    <3> QED BY <3>2, <3>3
  <2> QED BY <1>0, <1>1, <2>1, <2>2, ExecutionApplies
<1>2. CASE Contact
  BY <1>k, <1>t, <1>2 DEF Contact, LeadType
<1>3. ASSUME NEW owner \in Members \cup {None}, NEW archived \in BOOLEAN, Save(owner, archived)
      PROVE  NextDueInv'
  BY <1>k, <1>t, <1>3 DEF Save, LeadType
<1>4. ASSUME NEW f \in Tasks, NEW due \in Dates, PlanFollowUp(f, due) PROVE NextDueInv'
  <2>1. lead'.nextDue = NextDue(followUps')
    BY <1>t, <1>4 DEF PlanFollowUp, LeadType
  <2>2. due # 0
    BY PeopleAndDates
  <2>3. \A g \in FollowUps : followUps'[g].due \in {followUps[g].due, due} /\
                             (g # f => followUps'[g] = followUps[g])
    BY <1>t, <1>4 DEF PlanFollowUp, FollowUpType
  <2> QED BY <1>4, <2>1, <2>2, <2>3 DEF NextDueInv, NextDueAgrees, PlanFollowUp, NextDue, PendingDue
<1>5. ASSUME NEW f \in FollowUps, CompleteFollowUp(f) PROVE NextDueInv'
  <2>1. followUps' = [followUps EXCEPT ![f].state = "completed"] /\ lead'.nextDue = NextDue(followUps')
    BY <1>t, <1>5 DEF CompleteFollowUp, Remaining, LeadType
  <2>2. \A g \in FollowUps : followUps'[g].state = "pending" => followUps'[g] = followUps[g]
    BY <1>t, <2>1 DEF FollowUpType
  <2> QED BY <2>1, <2>2 DEF NextDueInv, NextDueAgrees, NextDue, PendingDue
<1>6. CASE Synced \/ Conflicted \/ Rejected \/ SendFails
  <2>1. PICK status \in Outcomes : Settle(status)
    BY <1>0, <1>6, RunEnds
  <2> QED BY <2>1, <1>k DEF Settle
<1>7. CASE \E r \in Updates : Send(r)
  BY <1>7, <1>k DEF Send
<1>8. CASE \E due \in Dates \cup {0} : Submit(due)
  BY <1>8, <1>k DEF Submit
<1>9. CASE \/ NothingDue \/ CloseGate \/ LoadLeads \/ Die \/ OpenGate \/ LoseTrust \/ DelayOver
           \/ (\E r \in Updates : Arrive(r)) \/ UNCHANGED vars
  BY <1>9, <1>k DEF NothingDue, CloseGate, LoadLeads, Die, OpenGate, LoseTrust, DelayOver, Arrive, vars
<1> QED
  BY <1>1, <1>2, <1>3, <1>4, <1>5, <1>6, <1>7, <1>8, <1>9 DEF Next, WorkerStep

-------------------------------------------------------------------------------
(* The theorems.                                                              *)

\* Types, one active row, a ledger that says what was applied, versions that were
\* really seen and answers that are true, at every step.
THEOREM LeadWorkInvariant == Spec => []LeadWorkInv
<1>1. Init => LeadWorkInv
  BY InvInit
<1>2. LeadWorkInv /\ [Next]_vars => LeadWorkInv'
  BY TypeStep, ActiveStep, LedgerStep, SeenStep, OutcomesStep DEF LeadWorkInv
<1> QED BY <1>1, <1>2, PTL DEF Spec

\* applyMobileLeadUpdate applies a request at most once, to the version the employee
\* saw, whatever the number of copies and of steps at the desks.
THEOREM AppliedOnlyAsSeen == Spec => []AppliedAsSeen
<1>1. Init => AppliedAsSeen
  BY InvInit
<1>2. LeadWorkInv /\ AppliedAsSeen /\ [Next]_vars => AppliedAsSeen'
  BY AppliedStep
<1> QED BY <1>1, <1>2, LeadWorkInvariant, PTL DEF Spec

\* An update the phone shows in conflict was not applied, nor one answered "not found"
\* to a phone that is still trusted.
THEOREM RefusalsAreTrue == Spec => []RefusalIsTrue
<1>1. LeadWorkInv => RefusalIsTrue
  <2> SUFFICES ASSUME LeadWorkInv PROVE RefusalIsTrue
    OBVIOUS
  <2>1. \A r \in Updates : Refused(r) => written[r] = {}
    BY DEF LeadWorkInv, LedgerAgrees, Refused
  <2> QED BY <2>1 DEF LeadWorkInv, OneActiveRow, OutcomesAgree, RefusalIsTrue
<1> QED BY <1>1, LeadWorkInvariant, PTL

\* An update the phone calls synced was applied.
THEOREM SyncedWasApplied == Spec => []SyncedIsApplied
<1>1. LeadWorkInv => SyncedIsApplied
  BY DEF LeadWorkInv, LedgerAgrees, OutcomesAgree, Done, SyncedIsApplied
<1> QED BY <1>1, LeadWorkInvariant, PTL

\* The least() of the phone's update and the min() of the managers' steps agree: the
\* lead always shows the earliest pending follow-up.
THEOREM NextDueIsEarliest == Spec => []NextDueAgrees
<1>1. Init => NextDueInv
  BY DEF Init, NextDueInv, NextDueAgrees, NextDue, PendingDue
<1>2. LeadWorkInv /\ NextDueInv /\ [Next]_vars => NextDueInv'
  BY NextDueStep
<1>3. NextDueInv => NextDueAgrees
  BY DEF NextDueInv
<1> QED BY <1>1, <1>2, <1>3, LeadWorkInvariant, PTL DEF Spec
===============================================================================
