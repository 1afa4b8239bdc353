------------------------------ MODULE ReportJobs ------------------------------
(***************************************************************************)
(* Background reports: the schedules that come due, the export jobs a set  *)
(* of worker processes claims and renders, the notifications a finished    *)
(* job queues, the e-mails the same workers send, and the one-time links   *)
(* with which the requester downloads the artifact.                        *)
(*                                                                         *)
(* Every database statement or transaction is one action, but for the two  *)
(* of a download, which may wait for their row after their snapshot.  A    *)
(* worker is a sequential process (report-worker-server.ts): a tick        *)
(* enqueues the due schedules, drains the jobs, then drains the e-mails;   *)
(* pc says where it is, holding which job or e-mail it works on.  A        *)
(* process may die at any step; its local state is lost and a supervisor   *)
(* starts it again.                                                        *)
(*                                                                         *)
(* An e-mail is named by the job it announces: its deduplication key is    *)
(* export-ready:<job>.  Time advances in slots, DayLength of them to one   *)
(* local day.  A backoff delay (30 s .. 1 h) is a flag that some later     *)
(* step clears.  One requester, who owns every job.                        *)
(* Operators named X_Slip are plausible slips in X; nothing uses them but  *)
(* the runs that ask whether a property would notice the slip.             *)
(***************************************************************************)
EXTENDS Naturals, FiniteSets, Sequences

CONSTANTS Workers, NoWorker, Schedules, NoSchedule,
          MaxAttempts,    \* report_export_jobs.attempts between 0 and 5
          DayLength,      \* slots in a local day
          MaxTime,        \* bound: slots that pass
          MaxJobs,        \* bound: jobs, scheduled or asked for
          MaxLinks,       \* bound: download links minted
          MaxMails,       \* bound: e-mails queued
          MaxCrashes      \* bound: worker processes that die

Day(t) == t \div DayLength
Jobs   == 1..MaxJobs

ASSUME NullsAreDistinct == NoWorker \notin Workers /\ NoSchedule \notin Schedules
ASSUME SchedulesFinite == IsFiniteSet(Schedules)
ASSUME ParametersAreNat ==
  /\ MaxAttempts \in Nat \ {0} /\ DayLength \in Nat \ {0}
  /\ MaxTime \in Nat /\ MaxJobs \in Nat /\ MaxLinks \in Nat
  /\ MaxMails \in Nat /\ MaxCrashes \in Nat

VARIABLES
  now, crashes,
  made, status, attempts, owner,                  \* report_export_jobs
  source, period, backoff, artifact,
  minted, link, expired,         \* tokens drawn; the job's latest; past its expiry
  redeemed,                      \* the tokens of the job's redemption rows
  minting, redeeming,            \* statements begun: their snapshots are taken
  superseded,                    \* history: tokens replaced before any opened the job
  nextRun, paused,                                \* report_schedules
  inApp, mail, tries, mailBackoff,                \* notification_deliveries
  pc, holding                                     \* the worker processes

clockVars  == <<now, crashes>>
jobVars    == <<made, status, attempts, owner, source, period,
                backoff, artifact>>
linkVars   == <<minted, link, expired, redeemed, minting, redeeming, superseded>>
schedVars  == <<nextRun, paused>>
mailVars   == <<inApp, mail, tries, mailBackoff>>
workerVars == <<pc, holding>>
vars == <<clockVars, jobVars, linkVars, schedVars, mailVars, workerVars>>

JobStates  == {"none", "queued", "processing", "ready", "failed"}
MailStates == {"none", "queued", "processing", "delivered", "suppressed"}
Steps == {"idle", "jobs", "render", "stored", "failing",
          "mail", "sending", "sent", "mailFailing", "down"}

TypeOK ==
  /\ now \in 0..MaxTime
  /\ crashes \in 0..MaxCrashes
  /\ made \in 0..MaxJobs
  /\ status \in [Jobs -> JobStates]
  /\ attempts \in [Jobs -> 0..MaxAttempts]
  /\ owner \in [Jobs -> Workers \cup {NoWorker}]
  /\ source \in [Jobs -> Schedules \cup {NoSchedule}]
  /\ period \in [Jobs -> Nat]
  /\ backoff \in [Jobs -> BOOLEAN]
  /\ artifact \in [Jobs -> BOOLEAN]
  /\ minted \in 0..MaxLinks
  /\ link \in [Jobs -> 0..MaxLinks]
  /\ expired \in [Jobs -> BOOLEAN]
  /\ redeemed \in [Jobs -> Seq(1..MaxLinks)]
  /\ minting \subseteq Jobs
  /\ redeeming \subseteq Jobs \X (1..MaxLinks)
  /\ superseded \in [Jobs -> SUBSET (0..MaxLinks)]
  /\ nextRun \in [Schedules -> Nat]
  /\ paused \in [Schedules -> BOOLEAN]
  /\ inApp \in [Jobs -> BOOLEAN]
  /\ mail \in [Jobs -> MailStates]
  /\ tries \in [Jobs -> 0..MaxAttempts]
  /\ mailBackoff \in [Jobs -> BOOLEAN]
  /\ pc \in [Workers -> Steps]
  /\ holding \in [Workers -> 0..MaxJobs]

\* The schedules exist; their first run is some slot of the first day.
Init ==
  /\ now = 0 /\ crashes = 0 /\ made = 0
  /\ status = [j \in Jobs |-> "none"]
  /\ attempts = [j \in Jobs |-> 0]
  /\ owner = [j \in Jobs |-> NoWorker]
  /\ source = [j \in Jobs |-> NoSchedule]
  /\ period = [j \in Jobs |-> 0]
  /\ backoff = [j \in Jobs |-> FALSE]
  /\ artifact = [j \in Jobs |-> FALSE]
  /\ minted = 0
  /\ link = [j \in Jobs |-> 0]
  /\ expired = [j \in Jobs |-> FALSE]
  /\ redeemed = [j \in Jobs |-> <<>>]
  /\ minting = {} /\ redeeming = {}
  /\ superseded = [j \in Jobs |-> {}]
  /\ nextRun \in [Schedules -> 0..(DayLength - 1)]
  /\ paused = [s \in Schedules |-> FALSE]
  /\ inApp = [j \in Jobs |-> FALSE]
  /\ mail = [j \in Jobs |-> "none"]
  /\ tries = [j \in Jobs |-> 0]
  /\ mailBackoff = [j \in Jobs |-> FALSE]
  /\ pc = [w \in Workers |-> "idle"]
  /\ holding = [w \in Workers |-> 0]

-------------------------------------------------------------------------------
(* The users: report requests, schedules, preferences, downloads.             *)

RequestReport ==
  /\ made < MaxJobs
  /\ made' = made + 1
  /\ status' = [status EXCEPT ![made + 1] = "queued"]
  /\ UNCHANGED <<clockVars, attempts, owner, source, period, backoff,
                 artifact, linkVars, schedVars, mailVars, workerVars>>

\* Pausing or resuming touches the status only; nextRun stays where it was.
TogglePause(s) ==
  /\ paused' = [paused EXCEPT ![s] = ~@]
  /\ UNCHANGED <<clockVars, jobVars, linkVars, nextRun, mailVars,
                 workerVars>>

\* Tokens are numbered as they are drawn; 0 is one that nobody holds, as the one
\* the worker drew at completion and threw away.  The two statements run under
\* READ COMMITTED: each looks for a redemption in its own snapshot, then waits
\* for the job's row.  A row that was only locked meanwhile, as a redemption
\* does, is taken as it was; of a row that was changed meanwhile only its own
\* columns are read again.  Any number of statements may be under way.
Unopened(j) == status[j] = "ready" /\ redeemed[j] = <<>>

MintBegins(j) ==
  /\ Unopened(j) /\ minted < MaxLinks
  /\ minting' = minting \cup {j}
  /\ UNCHANGED <<clockVars, jobVars, minted, link, expired, redeemed, redeeming, superseded,
                 schedVars, mailVars, workerVars>>

\* The row is updated, whatever was redeemed since the snapshot.
MintLink(j) ==
  /\ j \in minting /\ status[j] = "ready"
  /\ minted < MaxLinks
  /\ minted' = minted + 1
  /\ link' = [link EXCEPT ![j] = minted + 1]
  /\ expired' = [expired EXCEPT ![j] = FALSE]
  /\ superseded' = [superseded EXCEPT ![j] = IF redeemed[j] = <<>> THEN @ \cup {link[j]} ELSE @]
  /\ UNCHANGED <<clockVars, jobVars, redeemed, minting, redeeming, schedVars, mailVars, workerVars>>

\* A client redeems the token it was given, before its expiry, which is compared
\* with the time the request was made.
RedeemBegins(j, k) ==
  /\ Unopened(j)
  /\ k = link[j] /\ ~expired[j]
  /\ redeeming' = redeeming \cup {<<j, k>>}
  /\ UNCHANGED <<clockVars, jobVars, minted, link, expired, redeemed, minting, superseded,
                 schedVars, mailVars, workerVars>>

\* The columns of the row read again once it is locked.
StillLinked_Slip(j, k) == status[j] = "ready"
StillLinked(j, k) == status[j] = "ready" /\ link[j] = k

\* report_download_redemptions_job_once_key: a second row is refused, and its
\* transaction rolled back.
KeyFree_Slip(j) == TRUE
KeyFree(j) == redeemed[j] = <<>>

RedeemLink(j, k) ==
  /\ <<j, k>> \in redeeming
  /\ StillLinked(j, k) /\ KeyFree(j)
  /\ redeemed' = [redeemed EXCEPT ![j] = Append(@, k)]
  /\ UNCHANGED <<clockVars, jobVars, minted, link, expired, minting, redeeming, superseded,
                 schedVars, mailVars, workerVars>>

\* download_expires_at passes.
LinkExpires(j) ==
  /\ link[j] # 0 /\ ~expired[j]
  /\ expired' = [expired EXCEPT ![j] = TRUE]
  /\ UNCHANGED <<clockVars, jobVars, minted, link, redeemed, minting, redeeming, superseded,
                 schedVars, mailVars, workerVars>>

-------------------------------------------------------------------------------
(* One tick of a worker: schedules.                                           *)

Due == {s \in Schedules : ~paused[s] /\ nextRun[s] <= now}

\* on conflict do nothing, against unique (schedule_id, schedulePeriodKey)
NotReported_Slip(s) == TRUE
NotReported(s) == ~ \E j \in 1..made : source[j] = s /\ period[j] = Day(now)

\* One statement: a job for each due schedule, keyed by the day of NOW, not by
\* the day of the run that came due; every due schedule moves one day on.
Inserted == {s \in Due : NotReported(s)}
NewJobs  == (made + 1)..(made + Cardinality(Inserted))

Goes(w, step)     == pc' = [pc EXCEPT ![w] = step] /\ UNCHANGED holding
Takes(w, step, j) == /\ pc' = [pc EXCEPT ![w] = step]
                     /\ holding' = [holding EXCEPT ![w] = j]
Drops(w, step)    == Takes(w, step, 0)

EnqueueDue(w) ==
  /\ pc[w] = "idle"
  /\ made + Cardinality(Inserted) <= MaxJobs
  /\ \E row \in [NewJobs -> Inserted] :
       /\ \A i, j \in NewJobs : row[i] = row[j] => i = j
       /\ source' = [j \in Jobs |-> IF j \in NewJobs THEN row[j] ELSE source[j]]
  /\ made' = made + Cardinality(Inserted)
  /\ status' = [j \in Jobs |-> IF j \in NewJobs THEN "queued" ELSE status[j]]
  /\ period' = [j \in Jobs |-> IF j \in NewJobs THEN Day(now) ELSE period[j]]
  /\ nextRun' = [s \in Schedules |-> IF s \in Due THEN nextRun[s] + DayLength
                                                  ELSE nextRun[s]]
  /\ Goes(w, "jobs")
  /\ UNCHANGED <<clockVars, attempts, owner, backoff, artifact, linkVars, paused,
                 mailVars>>

-------------------------------------------------------------------------------
(* The export jobs of the tick.                                               *)

\* An expired lease makes no job claimable again.
Claimable_Slip(j) == status[j] \in {"queued", "processing"} /\ attempts[j] < MaxAttempts
Claimable(j) == status[j] = "queued" /\ ~backoff[j] /\ attempts[j] < MaxAttempts

Claim(w, j) ==
  /\ pc[w] = "jobs"
  /\ Claimable(j)
  /\ status' = [status EXCEPT ![j] = "processing"]
  /\ attempts' = [attempts EXCEPT ![j] = @ + 1]
  /\ owner' = [owner EXCEPT ![j] = w]
  /\ Takes(w, "render", j)
  /\ UNCHANGED <<clockVars, made, source, period, backoff, artifact, linkVars,
                 schedVars, mailVars>>

NoJob(w) ==
  /\ pc[w] = "jobs"
  /\ \A j \in Jobs : ~Claimable(j)
  /\ Goes(w, "mail")
  /\ UNCHANGED <<clockVars, jobVars, linkVars, schedVars, mailVars>>

\* Loading, rendering and storing: the artifact replaces any earlier one.
Render(w) ==
  /\ pc[w] = "render"
  /\ artifact' = [artifact EXCEPT ![holding[w]] = TRUE]
  /\ Goes(w, "stored")
  /\ UNCHANGED <<clockVars, made, status, attempts, owner, source,
                 period, backoff, linkVars, schedVars, mailVars>>

RenderFails(w) ==
  /\ pc[w] = "render"
  /\ Goes(w, "failing")
  /\ UNCHANGED <<clockVars, jobVars, linkVars, schedVars, mailVars>>

\* The lease expiry is compared with completedAt, the time the TICK began, before
\* the lease was granted: it is never past, and a row never changes hands.
HoldsLease(w, j) == status[j] = "processing" /\ owner[j] = w

Mails == Cardinality({j \in Jobs : mail[j] # "none"})

\* Status, link and both notifications commit together.  The transaction reads
\* the requester's e-mail preference, which may change at any time; the in-app
\* channel is on, as it is by default.
CompleteTx(w, j, wantsMail) ==
  /\ status' = [status EXCEPT ![j] = "ready"]
  /\ owner' = [owner EXCEPT ![j] = NoWorker]
  /\ link' = [link EXCEPT ![j] = 0]
  /\ expired' = [expired EXCEPT ![j] = FALSE]
  /\ inApp' = [inApp EXCEPT ![j] = TRUE]
  /\ wantsMail => Mails < MaxMails
  /\ mail' = [mail EXCEPT ![j] = IF wantsMail /\ @ = "none" THEN "queued" ELSE @]
  /\ UNCHANGED <<clockVars, made, attempts, source, period, backoff, artifact,
                 minted, redeemed, minting, redeeming, superseded, schedVars, tries,
                 mailBackoff>>

\* The transaction commits; its acknowledgement may be lost, which the worker
\* takes for a failure.
Complete(w) ==
  /\ pc[w] = "stored"
  /\ HoldsLease(w, holding[w])
  /\ \E wantsMail \in BOOLEAN : CompleteTx(w, holding[w], wantsMail)
  /\ Drops(w, "jobs") \/ Goes(w, "failing")

\* No row matched ("lease was lost"), or the transaction rolled back.
CompleteFails(w) ==
  /\ pc[w] = "stored"
  /\ Goes(w, "failing")
  /\ UNCHANGED <<clockVars, jobVars, linkVars, schedVars, mailVars>>

\* fail() matches only a row still processing for this worker.
Matches_Slip(w, j) == TRUE
Matches_SlipLast(w, j) == status[j] = "processing" /\ attempts[j] < MaxAttempts
Matches(w, j) == status[j] = "processing" /\ owner[j] = w

Released(j) ==
  \/ /\ attempts[j] >= MaxAttempts
     /\ status' = [status EXCEPT ![j] = "failed"]
     /\ UNCHANGED backoff
  \/ /\ attempts[j] < MaxAttempts
     /\ status' = [status EXCEPT ![j] = "queued"]
     /\ backoff' = [backoff EXCEPT ![j] = TRUE]

Fail(w) ==
  /\ pc[w] = "failing"
  /\ LET j == holding[w]
     IN  IF Matches(w, j)
         THEN /\ Released(j)
              /\ owner' = [owner EXCEPT ![j] = NoWorker]
         ELSE UNCHANGED <<status, backoff, owner>>
  /\ Drops(w, "jobs")
  /\ UNCHANGED <<clockVars, made, attempts, source, period, artifact, linkVars,
                 schedVars, mailVars>>

BackoffOver(j) ==
  /\ backoff[j]
  /\ backoff' = [backoff EXCEPT ![j] = FALSE]
  /\ UNCHANGED <<clockVars, made, status, attempts, owner, source,
                 period, artifact, linkVars, schedVars, mailVars, workerVars>>

-------------------------------------------------------------------------------
(* The e-mails of the tick.                                                   *)

MailClaimable(j) == mail[j] = "queued" /\ ~mailBackoff[j] /\ tries[j] < MaxAttempts

MailClaim(w, j) ==
  /\ pc[w] = "mail"
  /\ MailClaimable(j)
  /\ mail' = [mail EXCEPT ![j] = "processing"]
  /\ tries' = [tries EXCEPT ![j] = @ + 1]
  /\ Takes(w, "sending", j)
  /\ UNCHANGED <<clockVars, jobVars, linkVars, schedVars, inApp, mailBackoff>>

\* No e-mail left: the tick is over.
NoMail(w) ==
  /\ pc[w] = "mail"
  /\ \A j \in Jobs : ~MailClaimable(j)
  /\ Drops(w, "idle")
  /\ UNCHANGED <<clockVars, jobVars, linkVars, schedVars, mailVars>>

Send(w) ==
  /\ pc[w] = "sending"
  /\ Goes(w, "sent")
  /\ UNCHANGED <<clockVars, jobVars, linkVars, schedVars, mailVars>>

\* The provider refuses, or its answer is lost after it accepted the message.
SendFails(w) ==
  /\ pc[w] = "sending"
  /\ Goes(w, "mailFailing")
  /\ UNCHANGED <<clockVars, jobVars, linkVars, schedVars, mailVars>>

\* delivered() binds the provider's message id to delivered_at=$4::timestamptz:
\* the statement raises an error and the row is left as it was.
RecordDelivered(w) ==
  /\ pc[w] = "sent"
  /\ Goes(w, "mailFailing")
  /\ UNCHANGED <<clockVars, jobVars, linkVars, schedVars, mailVars>>

\* The row is still processing and locked by this worker: no claim takes it.
RetryMail(w) ==
  /\ pc[w] = "mailFailing"
  /\ tries[holding[w]] < MaxAttempts
  /\ mail' = [mail EXCEPT ![holding[w]] = "queued"]
  /\ mailBackoff' = [mailBackoff EXCEPT ![holding[w]] = TRUE]
  /\ Drops(w, "mail")
  /\ UNCHANGED <<clockVars, jobVars, linkVars, schedVars, inApp, tries>>

\* suppress() leaves the parameter $5 without a type: the statement raises an
\* error, nothing catches it, and the worker process exits.
SuppressMail(w) ==
  /\ pc[w] = "mailFailing"
  /\ tries[holding[w]] >= MaxAttempts
  /\ Drops(w, "down")
  /\ UNCHANGED <<clockVars, jobVars, linkVars, schedVars, mailVars>>

MailBackoffOver(j) ==
  /\ mailBackoff[j]
  /\ mailBackoff' = [mailBackoff EXCEPT ![j] = FALSE]
  /\ UNCHANGED <<clockVars, jobVars, linkVars, schedVars, inApp, mail, tries, workerVars>>

-------------------------------------------------------------------------------
(* The clock, crashes and restarts.                                           *)

PassTime ==
  /\ now < MaxTime
  /\ now' = now + 1
  /\ UNCHANGED <<crashes, jobVars, linkVars, schedVars, mailVars, workerVars>>

Crash(w) ==
  /\ pc[w] # "down"
  /\ crashes < MaxCrashes
  /\ crashes' = crashes + 1
  /\ Drops(w, "down")
  /\ UNCHANGED <<now, jobVars, linkVars, schedVars, mailVars>>

Restart(w) ==
  /\ pc[w] = "down"
  /\ Goes(w, "idle")
  /\ UNCHANGED <<clockVars, jobVars, linkVars, schedVars, mailVars>>

-------------------------------------------------------------------------------
WorkerStep(w) ==
  \/ EnqueueDue(w) \/ NoJob(w) \/ Render(w) \/ RenderFails(w)
  \/ Complete(w) \/ CompleteFails(w) \/ Fail(w)
  \/ NoMail(w) \/ Send(w) \/ SendFails(w) \/ RecordDelivered(w)
  \/ RetryMail(w) \/ SuppressMail(w) \/ Restart(w)
  \/ \E j \in Jobs : Claim(w, j) \/ MailClaim(w, j)

Next ==
  \/ RequestReport \/ PassTime
  \/ \E s \in Schedules : TogglePause(s)
  \/ \E j \in Jobs : \/ MintBegins(j) \/ MintLink(j) \/ LinkExpires(j)
                    \/ BackoffOver(j) \/ MailBackoffOver(j)
  \/ \E j \in Jobs, k \in 1..minted : RedeemBegins(j, k) \/ RedeemLink(j, k)
  \/ \E w \in Workers : WorkerStep(w) \/ Crash(w)

Spec == Init /\ [][Next]_vars

\* A worker that runs takes its next step, a supervisor restarts one that is
\* down, a delay ends.  Users and crashes owe nothing.
FairSpec ==
  /\ Spec
  /\ \A w \in Workers : WF_vars(WorkerStep(w))
  /\ \A j \in Jobs : WF_vars(BackoffOver(j)) /\ WF_vars(MailBackoffOver(j))

-------------------------------------------------------------------------------
(* What makes it correct.                                                     *)

Working(w) == pc[w] \in {"render", "stored"}
Mailing(w) == pc[w] \in {"sending", "sent", "mailFailing"}

\* What each worker believes of the job it holds, which no other worker's step
\* and no user's may change under it: the row is processing for this worker,
\* and a worker about to complete has stored the artifact.  After a failure
\* the job may instead be ready, its completion's answer having been lost.
WorkersHoldTheirJobs ==
  /\ \A w \in Workers : Working(w) \/ pc[w] = "failing" =>
       /\ holding[w] \in Jobs
       /\ \/ status[holding[w]] = "processing" /\ owner[holding[w]] = w
          \/ status[holding[w]] = "ready" /\ pc[w] = "failing"
  /\ \A w \in Workers : pc[w] = "stored" => artifact[holding[w]]
  /\ \A w \in Workers : Mailing(w) => holding[w] \in Jobs /\ mail[holding[w]] # "none"
  /\ \A j \in Jobs : owner[j] # NoWorker <=> status[j] = "processing"

\* The rows by themselves.
RowsConsistent ==
  /\ \A j \in Jobs : j > made => status[j] = "none" /\ source[j] = NoSchedule
  /\ \A j \in Jobs : status[j] = "ready" => artifact[j]

\* The one type invariant of the module, with the workers' view of the rows:
\* SKIP LOCKED claims and the lease owner keep two processes apart.
ReportInv == TypeOK /\ WorkersHoldTheirJobs /\ RowsConsistent

\* Whoever was told that a report is ready finds it ready: a notification or
\* an e-mail implies the ready row and its artifact, whatever failure
\* the worker saw after its transaction (complete(), then fail()).
AnnouncedIsReady ==
  \A j \in Jobs : inApp[j] \/ mail[j] # "none" \/ redeemed[j] # <<>> =>
    status[j] = "ready" /\ artifact[j]

\* A report is downloaded once, and not through a link that a later one had
\* replaced, whatever mints and redemptions wait for its row
\* (issueReportDownloadToken, redeemReportDownload).
OpenedByLastLink ==
  \A j \in Jobs : /\ Len(redeemed[j]) <= 1
                  /\ \A i \in DOMAIN redeemed[j] : redeemed[j][i] \notin superseded[j]

\* A schedule yields one report per local day however many workers tick and
\* however far it lags after a pause (unique schedule_id, schedulePeriodKey).
OneReportPerPeriod ==
  \A i, j \in 1..made : source[i] = source[j] /\ source[i] # NoSchedule
                        /\ period[i] = period[j] => i = j

\* No lost job without a lost worker: a row processing that no live worker is
\* busy with was left by a crash, and each crash leaves one row at most.
StrandedByCrashOnly ==
  Cardinality({j \in Jobs : /\ status[j] = "processing"
                            /\ \A w \in Workers : Working(w) \/ pc[w] = "failing"
                                                    => holding[w] # j}) <= crashes

\* PHASE_5D_HANDOFF.md: "bounded exponential retries, terminal suppression, and
\* provider-message audit IDs": a queued e-mail ends delivered or suppressed.
EmailSettles ==
  \A j \in Jobs : mail[j] = "queued" ~> mail[j] \in {"delivered", "suppressed"}

\* PROJECT_PLAN.md: "Scheduled reports are generated once per intended
\* organization-local period": when a run is done, its day has its report.
EveryPeriodReported ==
  [][\A s \in Schedules : nextRun'[s] # nextRun[s] =>
       \E j \in 1..made' : source'[j] = s /\ period'[j] = Day(nextRun[s])]_vars
===============================================================================
