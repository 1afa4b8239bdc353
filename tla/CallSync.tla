------------------------------- MODULE CallSync -------------------------------
(***************************************************************************)
(* The call pipeline: the phone reads its call log into a durable queue    *)
(* and uploads it in batches; the server stores each call once, links it   *)
(* to a lead and lets a manager correct the link.                          *)
(*                                                                         *)
(* Each Room transaction, server transaction or request is one action.     *)
(* The preferences (checkpoint, cursor, gate) are written behind: a step   *)
(* changes memory, disk follows, and a process that dies loses what had    *)
(* not reached disk.  A request may be executed long after the phone gave  *)
(* up on it, or never be answered.                                         *)
(*                                                                         *)
(* Calls are numbered by start time.  The log may list a call after one    *)
(* that started later: a row is written when a call ends.  A call whose    *)
(* number is not E.164 never enters the queue and is left out.  One phone, *)
(* one employee; what opens and closes the gate is MobileProtocol's.       *)
(* Operators named X_Slip are plausible slips in X; nothing uses them but  *)
(* the runs that ask whether a property would notice the slip.             *)
(***************************************************************************)
EXTENDS Naturals, Sequences, FiniteSets, FiniteSetsExt

CONSTANTS
  Calls,            \* the calls of the history, 1..n by start time
  Answered,         \* those that were answered
  Leads, NoLead,
  MaxRead,          \* MAX_SOURCE_READ: rows read from the log in one run
  MaxBatch,         \* MAX_BATCH_ITEMS
  MaxAttempts,      \* RetryPolicy.maxAttempts
  MaxFailures,      \* bound: requests that fail or are refused
  MaxCrashes,       \* bound: deaths of the phone's process
  MaxCorrections,   \* bound: corrections that managers ask for
  MaxRematches,     \* bound: changes of which lead a call's number matches
  MaxClosings       \* bound: times the collection gate closes

ASSUME CallsAreNumbered ==
  /\ IsFiniteSet(Calls) /\ Calls \subseteq Nat \ {0} /\ Answered \subseteq Calls
  /\ NoLead \notin Leads
ASSUME LimitsAreNat ==
  /\ MaxRead \in Nat \ {0} /\ MaxBatch \in Nat \ {0} /\ MaxAttempts \in Nat
  /\ MaxFailures \in Nat /\ MaxCrashes \in Nat /\ MaxCorrections \in Nat
  /\ MaxRematches \in Nat /\ MaxClosings \in Nat

VARIABLES
  logged,                                  \* the platform's call log
  queue, stamp, waiting,                   \* queued_calls
  prefs, disk,                             \* preferences: in memory, on disk
  pc, attempts, sending,                   \* the sync worker
  wire, reply,                             \* requests under way; the answer
  batches, stored, ingested,               \* the server's batches and calls
  matching, link, manual, lastContact,     \* leads and call_lead_links
  asked, done,                             \* corrections and their ledger
  spent                                    \* what the bounds have allowed so far

phoneVars  == <<queue, stamp, waiting, prefs, disk>>
workerVars == <<pc, attempts, sending>>
callVars   == <<batches, stored, ingested>>
leadVars   == <<matching, link, manual, lastContact>>
deskVars   == <<asked, done>>
vars == <<logged, phoneVars, workerVars, wire, reply, callVars, leadVars, deskVars, spent>>

Statuses == {"absent", "PENDING", "IN_FLIGHT", "RETRY", "SYNCED", "REJECTED"}
Steps    == {"idle", "scan", "build", "waiting", "post"}
Requests == [nr : Nat, prev : Nat, items : SUBSET Calls, sentAt : Nat]
Prefs    == [scan : Nat, cursor : Nat, open : BOOLEAN]
Bounds   == [failures : 0..MaxFailures, crashes : 0..MaxCrashes,
             rematches : 0..MaxRematches, closings : 0..MaxClosings]

TypeOK ==
  /\ logged \subseteq Calls
  /\ queue \in [Calls -> Statuses]
  /\ stamp \in [Calls -> Nat]
  /\ waiting \subseteq Calls
  /\ prefs \in Prefs /\ disk \in Prefs
  /\ pc \in Steps
  /\ attempts \in 0..MaxAttempts
  /\ sending \in Requests
  /\ wire \subseteq Requests
  /\ reply \in {"none", "ok", "conflict", "denied", "closed"}
  /\ batches \in Seq([prev : Nat, items : SUBSET Calls, sentAt : Nat])
  /\ stored \in [Calls -> Nat]
  /\ ingested \in [Calls -> Nat]
  /\ matching \in [Calls -> Leads \cup {NoLead}]
  /\ link \in [Calls -> Leads \cup {NoLead}]
  /\ manual \subseteq Calls
  /\ lastContact \in [Leads -> Nat]
  /\ asked \subseteq [id : 1..MaxCorrections, call : Calls,
                      expected : Leads \cup {NoLead}, replacement : Leads \cup {NoLead}]
  /\ done \subseteq 1..MaxCorrections
  /\ spent \in Bounds

\* A paired phone just after consent: nothing before it is ever read.
Init ==
  /\ logged = {}
  /\ queue = [c \in Calls |-> "absent"]
  /\ stamp = [c \in Calls |-> 0]
  /\ waiting = {}
  /\ prefs = [scan |-> 0, cursor |-> 0, open |-> TRUE] /\ disk = prefs
  /\ pc = "idle" /\ attempts = 0
  /\ sending = [nr |-> 0, prev |-> 0, items |-> {}, sentAt |-> 0]
  /\ wire = {} /\ reply = "none"
  /\ batches = <<>>
  /\ stored = [c \in Calls |-> 0]
  /\ ingested = [c \in Calls |-> 0]
  /\ matching \in [Calls -> Leads \cup {NoLead}]
  /\ link = [c \in Calls |-> NoLead] /\ manual = {}
  /\ lastContact = [l \in Leads |-> 0]
  /\ asked = {} /\ done = {}
  /\ spent = [failures |-> 0, crashes |-> 0, rematches |-> 0, closings |-> 0]

\* The first n calls of S, and the latest call of S (0 if there is none).
Earliest(S, n) == {c \in S : Cardinality({d \in S : d < c}) < n}
Latest(S)      == Max(S \cup {0})
Spend(what)    == spent' = [spent EXCEPT ![what] = @ + 1]

-------------------------------------------------------------------------------
(* The phone: a run of the worker, one at a time.                             *)

\* A call ends and the platform writes its row, in any order of start times.
LogCall(c) ==
  /\ c \notin logged
  /\ logged' = logged \cup {c}
  /\ UNCHANGED <<phoneVars, workerVars, wire, reply, callVars, leadVars, deskVars, spent>>

\* Rows that an earlier run left in flight are pending again.
Recovered_Slip == queue
Recovered == [c \in Calls |-> IF queue[c] = "IN_FLIGHT" THEN "PENDING" ELSE queue[c]]

\* A run opens with a heartbeat.  Runs are at least seconds apart: what the last
\* one had written behind is on disk.
Start ==
  /\ pc = "idle"
  /\ prefs.open
  /\ disk = prefs
  /\ queue' = Recovered
  /\ pc' = "scan"
  /\ UNCHANGED <<logged, stamp, waiting, prefs, disk, attempts, sending, wire, reply,
                 callVars, leadVars, deskVars, spent>>

Unread == {c \in logged : c > prefs.scan}
Observed_Slip == {c \in Unread : Cardinality({d \in Unread : d > c}) < MaxRead}
Observed == Earliest(Unread, MaxRead)

\* OnConflict.IGNORE: a call that is in the queue keeps its row.
Inserted_Slip == Observed
Inserted == {c \in Observed : queue[c] = "absent"}
NextStamp == Max({stamp[c] : c \in Calls} \cup {0}) + 1

\* The rows are inserted in one transaction, then the checkpoint moves.
Scan ==
  /\ pc = "scan"
  /\ queue' = [c \in Calls |-> IF c \in Inserted THEN "PENDING" ELSE queue[c]]
  /\ stamp' = [c \in Calls |-> IF c \in Inserted THEN NextStamp ELSE stamp[c]]
  /\ waiting' = waiting \ Inserted
  /\ prefs' = [prefs EXCEPT !.scan = Max({@, Latest(Observed)})]
  /\ pc' = "build"
  /\ UNCHANGED <<logged, disk, attempts, sending, wire, reply, callVars, leadVars, deskVars,
                 spent>>

DueCalls == {c \in Calls : queue[c] \in {"PENDING", "RETRY"} /\ c \notin waiting}
Chosen   == Earliest(DueCalls, MaxBatch)

\* The batch id is a digest of the cursor and the chosen ids; sentAt is the
\* latest creation time among the rows, so that a retry sends the same bytes.
Upload ==
  /\ pc = "build"
  /\ DueCalls # {}
  /\ queue' = [c \in Calls |-> IF c \in Chosen THEN "IN_FLIGHT" ELSE queue[c]]
  /\ sending' = [nr |-> sending.nr + 1, prev |-> prefs.cursor, items |-> Chosen,
                 sentAt |-> Max({stamp[c] : c \in Chosen})]
  /\ wire' = wire \cup {sending'}
  /\ reply' = "none"
  /\ pc' = "waiting"
  /\ UNCHANGED <<logged, stamp, waiting, prefs, disk, attempts, callVars, leadVars, deskVars,
                 spent>>

NothingDue ==
  /\ pc = "build"
  /\ DueCalls = {}
  /\ pc' = "post"
  /\ UNCHANGED <<logged, phoneVars, attempts, sending, wire, reply, callVars, leadVars,
                 deskVars, spent>>

\* Every item was created, updated or a duplicate: the batch is acknowledged.
Acknowledge ==
  /\ pc = "waiting"
  /\ reply = "ok"
  /\ queue' = [c \in Calls |-> IF c \in sending.items THEN "SYNCED" ELSE queue[c]]
  /\ \E i \in DOMAIN batches :
       /\ batches[i].prev = sending.prev /\ batches[i].items = sending.items
       /\ prefs' = [prefs EXCEPT !.cursor = i]
  /\ pc' = "post"
  /\ UNCHANGED <<logged, stamp, waiting, disk, attempts, sending, wire, reply, callVars,
                 leadVars, deskVars, spent>>

\* Any refusal but the closing ones, and any answer that cannot be read, is final
\* for the rows of the batch.
Rejected ==
  /\ pc = "waiting"
  /\ \/ reply \in {"conflict", "denied"} /\ UNCHANGED spent
     \/ reply = "ok" /\ spent.failures < MaxFailures /\ Spend("failures")
  /\ queue' = [c \in Calls |-> IF c \in sending.items THEN "REJECTED" ELSE queue[c]]
  /\ pc' = "idle" /\ attempts' = 0
  /\ UNCHANGED <<logged, stamp, waiting, prefs, disk, sending, wire, reply, callVars, leadVars,
                 deskVars>>

\* The scheduler runs a worker again, counting, until the policy gives up; the
\* next trigger then starts from zero.
RunFails ==
  /\ pc' = "idle"
  /\ attempts' = IF attempts < MaxAttempts THEN attempts + 1 ELSE 0

\* No answer: the rows wait for their next try, or stay in flight if the policy
\* gives up.
UploadFails ==
  /\ pc = "waiting"
  /\ spent.failures < MaxFailures
  /\ Spend("failures")
  /\ \/ /\ attempts < MaxAttempts
        /\ queue' = [c \in Calls |-> IF c \in sending.items THEN "RETRY" ELSE queue[c]]
        /\ waiting' = waiting \cup sending.items
     \/ /\ attempts = MaxAttempts
        /\ UNCHANGED <<queue, waiting>>
  /\ RunFails
  /\ UNCHANGED <<logged, stamp, prefs, disk, sending, wire, reply, callVars, leadVars, deskVars>>

\* The first heartbeat fails before the log is read, the second after the upload;
\* a refusal that is not worth repeating ends the run for good.
HeartbeatFails ==
  /\ pc \in {"scan", "post"}
  /\ spent.failures < MaxFailures
  /\ Spend("failures")
  /\ RunFails \/ (pc' = "idle" /\ attempts' = 0)
  /\ UNCHANGED <<logged, phoneVars, sending, wire, reply, callVars, leadVars, deskVars>>

\* The closing heartbeat, then pruning: synced rows a day old go.  A day holds some
\* ninety runs: the checkpoint on disk is past such a row.
Finish ==
  /\ pc = "post"
  /\ \E old \in 0..NextStamp :
       LET gone == {c \in Calls : queue[c] = "SYNCED" /\ stamp[c] < old}
       IN  /\ \A c \in gone : c <= disk.scan
           /\ queue' = [c \in Calls |-> IF c \in gone THEN "absent" ELSE queue[c]]
  /\ pc' = "idle" /\ attempts' = 0
  /\ UNCHANGED <<logged, stamp, waiting, prefs, disk, sending, wire, reply, callVars, leadVars,
                 deskVars, spent>>

DelayOver(c) ==
  /\ c \in waiting
  /\ waiting' = waiting \ {c}
  /\ UNCHANGED <<logged, queue, stamp, prefs, disk, workerVars, wire, reply, callVars, leadVars,
                 deskVars, spent>>

Flush ==
  /\ disk # prefs
  /\ disk' = prefs
  /\ UNCHANGED <<logged, queue, stamp, waiting, prefs, workerVars, wire, reply, callVars,
                 leadVars, deskVars, spent>>

Die ==
  /\ spent.crashes < MaxCrashes
  /\ Spend("crashes")
  /\ prefs' = disk
  /\ \/ pc = "idle" /\ UNCHANGED <<pc, attempts>>
     \/ pc # "idle" /\ RunFails
  /\ UNCHANGED <<logged, queue, stamp, waiting, disk, sending, wire, reply, callVars, leadVars,
                 deskVars>>

\* The gate: the server's answer or the user closes it.  The closed gate is
\* committed first, then the queue is purged; checkpoint and cursor go last.
CloseGate ==
  /\ prefs.open
  /\ pc \in {"idle", "scan", "post"} \/ (pc = "waiting" /\ reply = "closed")
  /\ spent.closings < MaxClosings
  /\ Spend("closings")
  /\ disk' = [prefs EXCEPT !.open = FALSE]
  /\ prefs' = [scan |-> 0, cursor |-> 0, open |-> FALSE]
  /\ queue' = [c \in Calls |-> "absent"]
  /\ waiting' = {}
  /\ pc' = "idle" /\ attempts' = 0
  /\ UNCHANGED <<logged, stamp, sending, wire, reply, callVars, leadVars, deskVars>>

\* Renewed consent: calls that started before it, ended or not, stay unread.
Checkpoints == {t \in Calls \cup {0} : \A c \in logged : c <= t}

OpenGate ==
  /\ ~prefs.open
  /\ pc = "idle"
  /\ \E t \in Checkpoints :
       prefs' = [scan |-> t, cursor |-> prefs.cursor, open |-> TRUE]
  /\ disk' = prefs'
  /\ UNCHANGED <<logged, queue, stamp, waiting, workerVars, wire, reply, callVars, leadVars,
                 deskVars, spent>>

-------------------------------------------------------------------------------
(* The server.                                                                *)

Registered(r) == {i \in DOMAIN batches : batches[i].prev = r.prev /\ batches[i].items = r.items}
SamePayload(i, r) == batches[i].sentAt = r.sentAt

\* The phone gets the answer if it still waits for this very request.
Answers(r, with) ==
  /\ wire' = wire \ {r}
  /\ reply' = IF pc = "waiting" /\ sending = r THEN with ELSE reply

\* upsert_mobile_call_encrypted: the batch a row came with is one of the columns
\* compared, so a known call in a new batch counts as updated.  The phone never
\* changes the rest of a row.
Outcome_Slip(c, batch) == "created"
Outcome(c, batch) ==
  CASE stored[c] = 0     -> "created"
    [] stored[c] = batch -> "duplicate"
    [] OTHER             -> "updated"

\* linkCallToUniqueLead: on conflict with the active link, nothing.
Linkable_Slip(c) == TRUE
Linkable(c)      == matching[c] # NoLead /\ link[c] = NoLead

Items_Slip(r) == Earliest(r.items, 1)
Items(r) == r.items

IngestNew(r) ==
  LET batch   == Len(batches) + 1
      touched == {c \in Items(r) : Outcome(c, batch) # "duplicate"}
      fresh   == {c \in touched : Linkable(c)}
      contact(l) == {c \in touched \cap Answered :
                       matching[c] = l /\ (c \in fresh \/ link[c] = l)}
  IN  /\ batches' = Append(batches, [prev |-> r.prev, items |-> r.items, sentAt |-> r.sentAt])
      /\ stored' = [c \in Calls |-> IF c \in touched THEN batch ELSE stored[c]]
      /\ ingested' = [c \in Calls |->
           IF c \in touched /\ Outcome(c, batch) = "created" THEN ingested[c] + 1 ELSE ingested[c]]
      /\ link' = [c \in Calls |-> IF c \in fresh THEN matching[c] ELSE link[c]]
      /\ manual' = manual \ fresh
      /\ lastContact' = [l \in Leads |-> Max({lastContact[l]} \cup contact(l))]

\* One transaction: the batch is registered, replayed or in conflict.
Ingest(r) ==
  /\ r \in wire
  /\ \/ /\ Registered(r) = {}
        /\ IngestNew(r)
        /\ Answers(r, "ok")
     \/ /\ Registered(r) # {}
        /\ \/ (\A i \in Registered(r) : SamePayload(i, r)) /\ Answers(r, "ok")
           \/ (\E i \in Registered(r) : ~SamePayload(i, r)) /\ Answers(r, "conflict")
        /\ UNCHANGED <<callVars, link, manual, lastContact>>
  /\ UNCHANGED <<logged, phoneVars, workerVars, matching, deskVars, spent>>

\* Refused before the transaction, or by its first check: too old to be accepted
\* (denied); session or consent no longer current (closed).
Refuse(r) ==
  /\ r \in wire
  /\ spent.failures < MaxFailures
  /\ Spend("failures")
  /\ \/ Answers(r, "denied")
     \/ Answers(r, "closed") /\ spent.closings < MaxClosings
  /\ UNCHANGED <<logged, phoneVars, workerVars, callVars, leadVars, deskVars>>

\* Leads come, go and change number: a call matches another lead, or none.
Rematch(c, l) ==
  /\ matching[c] # l
  /\ spent.rematches < MaxRematches
  /\ Spend("rematches")
  /\ matching' = [matching EXCEPT ![c] = l]
  /\ UNCHANGED <<logged, phoneVars, workerVars, wire, reply, callVars, link, manual, lastContact,
                 deskVars>>

\* A manager sees the call's link and asks for another, or for none.
Ask(k, c, l) ==
  /\ \A q \in asked : q.id < k
  /\ stored[c] # 0 /\ l # link[c]
  /\ asked' = asked \cup {[id |-> k, call |-> c, expected |-> link[c], replacement |-> l]}
  /\ UNCHANGED <<logged, phoneVars, workerVars, wire, reply, callVars, leadVars, done, spent>>

\* The same request may arrive again: the ledger answers for it.
NotDone(q) == q.id \notin done

\* Answered calls linked to l once call c is moved to lead `to`.
Contacts_Slip(l, c, to) == {d \in Answered : link[d] = l \/ (d = c /\ to = l)}
Contacts(l, c, to) == {d \in Answered : IF d = c THEN to = l ELSE link[d] = l}

\* One transaction: compare the link with what was seen, move it, recompute.
Correct(q) ==
  /\ q \in asked
  /\ NotDone(q)
  /\ link[q.call] = q.expected
  /\ done' = done \cup {q.id}
  /\ link' = [link EXCEPT ![q.call] = q.replacement]
  /\ manual' = manual \cup {q.call}
  /\ lastContact' = [l \in Leads |->
       IF l \in {q.expected, q.replacement} THEN Latest(Contacts(l, q.call, q.replacement))
                                            ELSE lastContact[l]]
  /\ UNCHANGED <<logged, phoneVars, workerVars, wire, reply, callVars, matching, asked, spent>>

-------------------------------------------------------------------------------
WorkerStep ==
  \/ Start \/ Scan \/ Upload \/ NothingDue
  \/ Acknowledge \/ Rejected \/ Finish

Next ==
  \/ WorkerStep \/ UploadFails \/ HeartbeatFails \/ Flush \/ Die \/ CloseGate \/ OpenGate
  \/ \E c \in Calls : LogCall(c) \/ DelayOver(c)
  \/ \E r \in wire : Ingest(r) \/ Refuse(r)
  \/ \E c \in Calls, l \in Leads \cup {NoLead} : Rematch(c, l)
  \/ \E k \in 1..MaxCorrections, c \in Calls, l \in Leads \cup {NoLead} : Ask(k, c, l)
  \/ \E q \in asked : Correct(q)

Spec == Init /\ [][Next]_vars

\* The scheduler keeps starting the worker and a running one takes its steps, a
\* delay ends, a request reaches the server in the end.
FairSpec ==
  /\ Spec
  /\ WF_vars(WorkerStep \/ (reply = "closed" /\ CloseGate)) /\ WF_vars(Flush)
  /\ WF_vars(\E c \in waiting : DelayOver(c))
  /\ WF_vars(\E r \in wire : Ingest(r))

-------------------------------------------------------------------------------
(* What makes it correct.                                                     *)

\* The types; and while the worker waits, the rows in flight are exactly those of
\* its batch, whatever earlier runs left behind ("Queue batch state changed
\* concurrently").
CallSyncInv ==
  /\ TypeOK
  /\ pc = "waiting" => {c \in Calls : queue[c] = "IN_FLIGHT"} = sending.items

\* A row is called synced, and later pruned, only when the server has the call:
\* across lost answers, replays of a stored batch answer and late executions.
SyncedIsStored == \A c \in Calls : queue[c] = "SYNCED" => stored[c] # 0

\* Each call enters the server's history with one call.ingested event, however
\* often and in whatever batches it was sent.
IngestedOnce == \A c \in Calls : ingested[c] = IF stored[c] # 0 THEN 1 ELSE 0

\* A batch id names one payload: no retry, crash, re-read of the log or renewed
\* consent makes the phone send the same cursor and calls with other bytes,
\* which the server would refuse and the phone then reject for good.
NoBatchConflict == reply # "conflict"

\* The checkpoint passes only calls that have a row: in order of start time and
\* after the insert. What a crash takes back is read again.
CheckpointCoversQueue ==
  [][\A c \in logged : prefs.open /\ prefs.scan < c /\ c <= prefs'.scan
                        => queue'[c] # "absent"]_vars

\* A manager's choice of a lead is never overruled by automatic matching, and
\* a repeated request changes nothing twice.
ManualLinkStands ==
  [][\A c \in manual : link[c] # NoLead /\ link'[c] # link[c] => done' # done]_vars

\* last_contacted_at is the start of the latest answered call linked to the
\* lead: kept up by ingestion in any order and recomputed by corrections.
LastContactAgrees ==
  \A l \in Leads : lastContact[l] = Latest({c \in Answered : link[c] = l})

\* While the gate is open every queued call ends synced or rejected: rows left in
\* flight by a crash or an exhausted policy are taken up again.
QueuedCallSettles ==
  []<>(\/ ~prefs.open
       \/ \A c \in Calls : queue[c] \notin {"PENDING", "IN_FLIGHT", "RETRY"})

\* 0005_atomic_call_ingest.sql: An unchanged or stale retry returns "duplicate"
\* without a write: a call that is stored keeps its events, and its link until
\* a correction moves it.
UnchangedRetryWritesNothing ==
  [][\A c \in Calls : stored[c] # 0 /\ done' = done =>
       stored'[c] = stored[c] /\ link'[c] = link[c]]_vars
===============================================================================
