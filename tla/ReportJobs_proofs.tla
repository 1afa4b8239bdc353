-------------------------- MODULE ReportJobs_proofs ---------------------------
(* Theorems about ReportJobs for every set of workers and schedules, every     *)
(* number of attempts and every bound.                                         *)
EXTENDS ReportJobs, FiniteSetTheorems, TLAPS

LEMMA DayTyped == ASSUME NEW t \in Nat PROVE Day(t) \in Nat
BY ParametersAreNat DEF Day

\* The inserted rows are numbered within the bound, after the existing ones.
LEMMA InsertedTyped ==
  ASSUME TypeOK, made + Cardinality(Inserted) <= MaxJobs
  PROVE  /\ made \in Nat /\ Cardinality(Inserted) \in Nat
         /\ made + Cardinality(Inserted) \in 0..MaxJobs
         /\ NewJobs \subseteq Jobs
         /\ \A j \in NewJobs : j > made
         /\ Inserted \subseteq Schedules
<1>1. Inserted \subseteq Schedules
  BY DEF Inserted, Due
<1>2. Cardinality(Inserted) \in Nat
  BY <1>1, SchedulesFinite, FS_Subset, FS_CardinalityType
<1>3. made \in Nat /\ MaxJobs \in Nat
  BY ParametersAreNat DEF TypeOK
<1> QED BY <1>1, <1>2, <1>3 DEF NewJobs, Jobs

LEMMA InvInit == Init => ReportInv /\ AnnouncedIsReady /\ OpenedByLastLink /\ OneReportPerPeriod
<1> SUFFICES ASSUME Init PROVE ReportInv /\ AnnouncedIsReady /\ OpenedByLastLink /\ OneReportPerPeriod
  OBVIOUS
<1>1. TypeOK
  BY ParametersAreNat DEF Init, TypeOK, JobStates, MailStates, Steps
<1>2. WorkersHoldTheirJobs /\ RowsConsistent
  BY DEF Init, WorkersHoldTheirJobs, RowsConsistent, Working, Mailing
<1>3. AnnouncedIsReady /\ OpenedByLastLink
  BY DEF Init, AnnouncedIsReady, OpenedByLastLink
<1>4. OneReportPerPeriod
  BY DEF Init, OneReportPerPeriod
<1> QED BY <1>1, <1>2, <1>3, <1>4 DEF ReportInv
LEMMA TypeStep == ReportInv /\ [Next]_vars => TypeOK'
<1> SUFFICES ASSUME ReportInv, [Next]_vars PROVE TypeOK'
  OBVIOUS
<1> USE DEF clockVars, jobVars, linkVars, schedVars, mailVars, workerVars, Goes, Takes, Drops
<1>0. TypeOK /\ WorkersHoldTheirJobs
  BY DEF ReportInv
<1>b. /\ MaxJobs \in Nat /\ MaxAttempts \in Nat /\ MaxTime \in Nat
      /\ MaxCrashes \in Nat /\ MaxLinks \in Nat
  BY ParametersAreNat
<1>c. /\ \A j \in Jobs : j \in 0..MaxJobs
      /\ 0 \in 0..MaxJobs
  BY <1>b DEF Jobs
<1>1. CASE RequestReport
  <2>1. made' \in 0..MaxJobs
    BY <1>0, <1>1, <1>b DEF RequestReport, TypeOK
  <2>2. status' \in [Jobs -> JobStates]
    BY <1>0, <1>1 DEF RequestReport, TypeOK, JobStates
  <2> QED BY <1>0, <1>1, <2>1, <2>2 DEF RequestReport, TypeOK
<1>2. CASE PassTime
  <2>1. now' \in 0..MaxTime
    BY <1>0, <1>2, <1>b DEF PassTime, TypeOK
  <2> QED BY <1>0, <1>2, <2>1 DEF PassTime, TypeOK
<1>3. ASSUME NEW s \in Schedules, TogglePause(s) PROVE TypeOK'
  BY <1>0, <1>3 DEF TogglePause, TypeOK
<1>4. ASSUME NEW j \in Jobs, MintBegins(j) \/ MintLink(j) PROVE TypeOK'
  <2>1. CASE MintBegins(j)
    BY <1>0, <2>1 DEF MintBegins, TypeOK
  <2>2. CASE MintLink(j)
    <3>1. minted' \in 0..MaxLinks /\ minted + 1 \in 0..MaxLinks
      BY <1>0, <1>b, <2>2 DEF MintLink, TypeOK
    <3>2. link' \in [Jobs -> 0..MaxLinks] /\ expired' \in [Jobs -> BOOLEAN]
      BY <1>0, <2>2, <3>1 DEF MintLink, TypeOK
    <3>3. superseded' \in [Jobs -> SUBSET (0..MaxLinks)]
      <4>1. superseded[j] \cup {link[j]} \in SUBSET (0..MaxLinks)
        BY <1>0 DEF TypeOK
      <4> QED BY <1>0, <2>2, <4>1 DEF MintLink, TypeOK
    <3> QED BY <1>0, <2>2, <3>1, <3>2, <3>3 DEF MintLink, TypeOK
  <2> QED BY <1>4, <2>1, <2>2
<1>5. ASSUME NEW j \in Jobs, LinkExpires(j) \/ BackoffOver(j) \/ MailBackoffOver(j) PROVE TypeOK'
  <2>1. /\ expired' \in [Jobs -> BOOLEAN]
        /\ backoff' \in [Jobs -> BOOLEAN] /\ mailBackoff' \in [Jobs -> BOOLEAN]
    BY <1>0, <1>5 DEF LinkExpires, BackoffOver, MailBackoffOver, TypeOK
  <2> QED BY <1>0, <1>5, <2>1 DEF LinkExpires, BackoffOver, MailBackoffOver, TypeOK
<1>6. ASSUME NEW j \in Jobs, NEW k \in 1..minted, RedeemBegins(j, k) \/ RedeemLink(j, k)
      PROVE TypeOK'
  <2>1. k \in 1..MaxLinks
    BY <1>0, <1>b DEF TypeOK
  <2>2. CASE RedeemBegins(j, k)
    <3>1. redeeming' \subseteq Jobs \X (1..MaxLinks)
      BY <1>0, <2>1, <2>2 DEF RedeemBegins, TypeOK
    <3> QED BY <1>0, <2>2, <3>1 DEF RedeemBegins, TypeOK
  <2>3. CASE RedeemLink(j, k)
    <3>1. Append(redeemed[j], k) \in Seq(1..MaxLinks)
      BY <1>0, <2>1 DEF TypeOK
    <3>2. redeemed' \in [Jobs -> Seq(1..MaxLinks)]
      BY <1>0, <2>3, <3>1 DEF RedeemLink, TypeOK
    <3> QED BY <1>0, <2>3, <3>2 DEF RedeemLink, TypeOK
  <2> QED BY <1>6, <2>2, <2>3
<1>7. ASSUME NEW w \in Workers, EnqueueDue(w) PROVE TypeOK'
  <2>1. made' \in 0..MaxJobs /\ NewJobs \subseteq Jobs /\ Inserted \subseteq Schedules
    BY <1>0, <1>7, InsertedTyped DEF EnqueueDue
  <2>2. now \in Nat /\ Day(now) \in Nat
    BY <1>0, <1>b, DayTyped DEF TypeOK
  <2>3. source' \in [Jobs -> Schedules \cup {NoSchedule}]
    <3>1. PICK row \in [NewJobs -> Inserted] :
            source' = [j \in Jobs |-> IF j \in NewJobs THEN row[j] ELSE source[j]]
      BY <1>7 DEF EnqueueDue
    <3>2. \A j \in NewJobs : row[j] \in Schedules
      BY <2>1
    <3> QED BY <1>0, <3>1, <3>2 DEF TypeOK
  <2>4. status' \in [Jobs -> JobStates]
    BY <1>0, <1>7 DEF EnqueueDue, JobStates, TypeOK
  <2>5. period' \in [Jobs -> Nat]
    BY <1>0, <1>7, <2>2 DEF EnqueueDue, TypeOK
  <2>6. nextRun' \in [Schedules -> Nat]
    BY <1>0, <1>7, ParametersAreNat DEF EnqueueDue, TypeOK
  <2>7. pc' \in [Workers -> Steps]
    BY <1>0, <1>7 DEF EnqueueDue, Steps, TypeOK
  <2> QED BY <1>0, <1>7, <2>1, <2>3, <2>4, <2>5, <2>6, <2>7 DEF EnqueueDue, TypeOK
<1>8. ASSUME NEW w \in Workers, NEW j \in Jobs, Claim(w, j) PROVE TypeOK'
  <2>1. attempts' \in [Jobs -> 0..MaxAttempts]
    BY <1>0, <1>8, <1>b DEF Claim, Claimable, TypeOK
  <2>2. status' \in [Jobs -> JobStates] /\ owner' \in [Jobs -> Workers \cup {NoWorker}]
    BY <1>0, <1>8 DEF Claim, JobStates, TypeOK
  <2>3. pc' \in [Workers -> Steps] /\ holding' \in [Workers -> 0..MaxJobs]
    BY <1>0, <1>8, <1>c DEF Claim, Steps, TypeOK
  <2> QED BY <1>0, <1>8, <2>1, <2>2, <2>3 DEF Claim, TypeOK
<1>9. ASSUME NEW w \in Workers, NEW j \in Jobs, MailClaim(w, j) PROVE TypeOK'
  <2>1. tries' \in [Jobs -> 0..MaxAttempts]
    BY <1>0, <1>9, <1>b DEF MailClaim, MailClaimable, TypeOK
  <2>2. mail' \in [Jobs -> MailStates]
    BY <1>0, <1>9 DEF MailClaim, MailStates, TypeOK
  <2>3. pc' \in [Workers -> Steps] /\ holding' \in [Workers -> 0..MaxJobs]
    BY <1>0, <1>9, <1>c DEF MailClaim, Steps, TypeOK
  <2> QED BY <1>0, <1>9, <2>1, <2>2, <2>3 DEF MailClaim, TypeOK
<1>10. ASSUME NEW w \in Workers,
              NoJob(w) \/ RenderFails(w) \/ CompleteFails(w) \/ RecordDelivered(w) \/ Restart(w)
       PROVE TypeOK'
  <2>1. pc' \in [Workers -> Steps]
    BY <1>0, <1>10 DEF NoJob, RenderFails, CompleteFails, RecordDelivered, Restart, Steps, TypeOK
  <2> QED BY <1>0, <1>10, <2>1 DEF NoJob, RenderFails, CompleteFails, RecordDelivered, Restart, TypeOK
<1>11. ASSUME NEW w \in Workers, Render(w) PROVE TypeOK'
  <2>1. pc' \in [Workers -> Steps] /\ artifact' \in [Jobs -> BOOLEAN]
    BY <1>0, <1>11 DEF Render, Steps, TypeOK
  <2> QED BY <1>0, <1>11, <2>1 DEF Render, TypeOK
<1>12. ASSUME NEW w \in Workers, Complete(w) PROVE TypeOK'
  <2>1. PICK wantsMail \in BOOLEAN : CompleteTx(w, holding[w], wantsMail)
    BY <1>12 DEF Complete
  <2>2. status' \in [Jobs -> JobStates] /\ owner' \in [Jobs -> Workers \cup {NoWorker}]
    BY <1>0, <2>1 DEF CompleteTx, JobStates, TypeOK
  <2>3. /\ link' \in [Jobs -> 0..MaxLinks] /\ expired' \in [Jobs -> BOOLEAN]
        /\ inApp' \in [Jobs -> BOOLEAN]
    <3>1. 0 \in 0..MaxLinks
      BY <1>b
    <3>2. link' \in [Jobs -> 0..MaxLinks]
      BY <1>0, <2>1, <3>1 DEF CompleteTx, TypeOK
    <3>3. expired' \in [Jobs -> BOOLEAN] /\ inApp' \in [Jobs -> BOOLEAN]
      BY <1>0, <2>1 DEF CompleteTx, TypeOK
    <3> QED BY <3>2, <3>3
  <2>4. mail' \in [Jobs -> MailStates]
    BY <1>0, <2>1 DEF CompleteTx, MailStates, TypeOK
  <2>5. pc' \in [Workers -> Steps] /\ holding' \in [Workers -> 0..MaxJobs]
    BY <1>0, <1>12, <1>c DEF Complete, Steps, TypeOK
  <2> QED BY <1>0, <2>1, <2>2, <2>3, <2>4, <2>5 DEF CompleteTx, TypeOK
<1>13. ASSUME NEW w \in Workers, Fail(w) PROVE TypeOK'
  <2>1. pc' \in [Workers -> Steps] /\ holding' \in [Workers -> 0..MaxJobs]
    BY <1>0, <1>13, <1>c DEF Fail, Steps, TypeOK
  <2>2. CASE Matches(w, holding[w])
    <3>1. status' \in [Jobs -> JobStates]
      BY <1>0, <1>13, <2>2 DEF Fail, Released, JobStates, TypeOK
    <3>2. owner' \in [Jobs -> Workers \cup {NoWorker}]
      BY <1>0, <1>13, <2>2 DEF Fail, TypeOK
    <3>3. backoff' \in [Jobs -> BOOLEAN]
      BY <1>0, <1>13, <2>2 DEF Fail, Released, TypeOK
    <3> QED BY <1>0, <1>13, <2>1, <3>1, <3>2, <3>3 DEF Fail, TypeOK
  <2>3. CASE ~Matches(w, holding[w])
    BY <1>0, <1>13, <2>1, <2>3 DEF Fail, TypeOK
  <2> QED BY <2>2, <2>3
<1>14. ASSUME NEW w \in Workers, NoMail(w) \/ SuppressMail(w) \/ Crash(w) PROVE TypeOK'
  <2>1. pc' \in [Workers -> Steps] /\ holding' \in [Workers -> 0..MaxJobs]
    BY <1>0, <1>14, <1>c DEF NoMail, SuppressMail, Crash, Steps, TypeOK
  <2>2. crashes' \in 0..MaxCrashes
    BY <1>0, <1>14, <1>b DEF NoMail, SuppressMail, Crash, TypeOK
  <2> QED BY <1>0, <1>14, <2>1, <2>2 DEF NoMail, SuppressMail, Crash, TypeOK
<1>15. ASSUME NEW w \in Workers, Send(w) \/ SendFails(w) PROVE TypeOK'
  <2>1. pc' \in [Workers -> Steps]
    BY <1>0, <1>15 DEF Send, SendFails, Steps, TypeOK
  <2> QED BY <1>0, <1>15, <2>1 DEF Send, SendFails, mailVars, TypeOK
<1>16. ASSUME NEW w \in Workers, RetryMail(w) PROVE TypeOK'
  <2>1. pc' \in [Workers -> Steps] /\ holding' \in [Workers -> 0..MaxJobs]
    BY <1>0, <1>16, <1>c DEF RetryMail, Steps, TypeOK
  <2>2. mail' \in [Jobs -> MailStates] /\ mailBackoff' \in [Jobs -> BOOLEAN]
    BY <1>0, <1>16 DEF RetryMail, MailStates, TypeOK
  <2> QED BY <1>0, <1>16, <2>1, <2>2 DEF RetryMail, TypeOK
<1>17. CASE UNCHANGED vars
  BY <1>0, <1>17 DEF vars, TypeOK
<1> QED BY <1>1, <1>2, <1>3, <1>4, <1>5, <1>6, <1>7, <1>8, <1>9, <1>10, <1>11, <1>12,
           <1>13, <1>14, <1>15, <1>16, <1>17 DEF Next, WorkerStep

\* The rows by themselves: a job that is not ready becomes so only with its
\* artifact stored, and none comes into being twice.
LEMMA RowsStep == ReportInv /\ [Next]_vars => RowsConsistent'
<1> SUFFICES ASSUME ReportInv, [Next]_vars PROVE RowsConsistent'
  OBVIOUS
<1> USE DEF RowsConsistent, TypeOK, clockVars, jobVars, linkVars, schedVars, mailVars, workerVars
<1>0. TypeOK /\ WorkersHoldTheirJobs /\ RowsConsistent
  BY DEF ReportInv
<1>b. MaxJobs \in Nat /\ Jobs = 1..MaxJobs
  BY ParametersAreNat DEF Jobs
<1>1. CASE RequestReport
  <2>1. made \in Nat /\ made' = made + 1 /\ \A j \in Jobs : j \in Nat
    BY <1>0, <1>1, <1>b DEF RequestReport
  <2>2. \A j \in Jobs : j > made' => j > made /\ status'[j] = status[j]
    BY <1>0, <1>1, <2>1 DEF RequestReport
  <2>3. \A j \in Jobs : status'[j] = "ready" => status[j] = "ready"
    BY <1>0, <1>1 DEF RequestReport
  <2>4. source' = source
    BY <1>1 DEF RequestReport
  <2> QED BY <1>0, <1>1, <2>2, <2>3, <2>4 DEF RequestReport
<1>2. ASSUME NEW w \in Workers, EnqueueDue(w) PROVE RowsConsistent'
  <2>1. made \in Nat /\ Cardinality(Inserted) \in Nat
    BY <1>0, <1>2, InsertedTyped DEF EnqueueDue
  <2>2. \A j \in Jobs : j > made' => j \notin NewJobs /\ j > made
    BY <1>b, <1>2, <2>1 DEF EnqueueDue, NewJobs
  <2>3. /\ \A j \in Jobs : j \notin NewJobs =>
             source'[j] = source[j] /\ status'[j] = status[j] /\ period'[j] = period[j]
        /\ \A j \in Jobs : j \in NewJobs => status'[j] = "queued"
        /\ UNCHANGED <<attempts, owner, artifact, linkVars, mailVars>>
    BY <1>2 DEF EnqueueDue
  <2> QED BY <1>0, <2>2, <2>3
<1>3. ASSUME NEW w \in Workers, NEW j \in Jobs, Claim(w, j) PROVE RowsConsistent'
  BY <1>0, <1>3 DEF Claim, Claimable
<1>4. ASSUME NEW w \in Workers, Render(w) PROVE RowsConsistent'
  BY <1>0, <1>4 DEF Render
<1>5. ASSUME NEW w \in Workers, Complete(w) PROVE RowsConsistent'
  BY <1>0, <1>5 DEF Complete, CompleteTx, HoldsLease, WorkersHoldTheirJobs
<1>6. ASSUME NEW w \in Workers, Fail(w) PROVE RowsConsistent'
  <2>1. UNCHANGED <<made, source, artifact>>
    BY <1>6 DEF Fail
  <2>2. CASE Matches(w, holding[w])
    <3>1. status' \in [Jobs -> {"queued", "failed"} \cup JobStates]
          /\ \A j \in Jobs : j # holding[w] => status'[j] = status[j]
      BY <1>0, <1>6, <2>2 DEF Fail, Released
    <3>2. holding[w] \in Jobs => status'[holding[w]] # "ready"
      BY <1>0, <1>6, <2>2 DEF Fail, Released
    <3>3. holding[w] \in Jobs => ~(holding[w] > made)
      BY <1>0, <2>2 DEF Matches
    <3> QED BY <1>0, <2>1, <3>1, <3>2, <3>3
  <2>3. CASE ~Matches(w, holding[w])
    BY <1>0, <1>6, <2>1, <2>3 DEF Fail
  <2> QED BY <2>2, <2>3
<1>7. ASSUME UNCHANGED <<made, status, source, artifact>> PROVE RowsConsistent'
  BY <1>0, <1>7
<1> QED
  BY <1>1, <1>2, <1>3, <1>4, <1>5, <1>6, <1>7
  DEF Next, WorkerStep, vars, PassTime, TogglePause, MintBegins, MintLink, LinkExpires, BackoffOver,
      MailBackoffOver, RedeemBegins, RedeemLink, NoJob, RenderFails, CompleteFails, NoMail, Send, SendFails,
      RecordDelivered, RetryMail, SuppressMail, Restart, MailClaim, Crash
\* What a worker holds stays as it left it: another worker claims only queued
\* rows, and completes or releases only rows that are its own.
LEMMA HoldStep == ReportInv /\ [Next]_vars => WorkersHoldTheirJobs'
<1> SUFFICES ASSUME ReportInv, [Next]_vars PROVE WorkersHoldTheirJobs'
  OBVIOUS
<1> USE DEF clockVars, jobVars, linkVars, schedVars, mailVars, workerVars, Goes, Takes, Drops
<1>0. TypeOK /\ WorkersHoldTheirJobs /\ RowsConsistent
  BY DEF ReportInv
<1>b. NoWorker \notin Workers
  BY NullsAreDistinct
<1> DEFINE Held(w) == /\ holding[w] \in Jobs
                      /\ \/ status[holding[w]] = "processing" /\ owner[holding[w]] = w
                         \/ status[holding[w]] = "ready" /\ pc[w] = "failing"
<1>c. /\ \A w \in Workers : Working(w) \/ pc[w] = "failing" => Held(w)
      /\ \A w \in Workers : pc[w] = "stored" => artifact[holding[w]]
      /\ \A w \in Workers : Mailing(w) => holding[w] \in Jobs /\ mail[holding[w]] # "none"
      /\ \A j \in Jobs : owner[j] # NoWorker <=> status[j] = "processing"
  BY <1>0 DEF WorkersHoldTheirJobs
<1> HIDE DEF Held
<1> USE DEF Held
<1>1. CASE RequestReport
  <2>1. made \in Nat /\ MaxJobs \in Nat /\ \A j \in Jobs : j \in Nat
    BY <1>0, ParametersAreNat DEF TypeOK, Jobs
  <2>2. made + 1 \in Jobs /\ status[made + 1] = "none"
    BY <1>0, <1>1, <2>1 DEF RequestReport, Jobs, RowsConsistent
  <2>3. \A j \in Jobs : /\ status'[j] = "processing" <=> status[j] = "processing"
                        /\ status'[j] = "ready" <=> status[j] = "ready"
    BY <1>0, <1>1, <2>2 DEF RequestReport, TypeOK
  <2> QED BY <1>c, <1>1, <2>3 DEF RequestReport, WorkersHoldTheirJobs, Working, Mailing
<1>2. ASSUME NEW w \in Workers, EnqueueDue(w) PROVE WorkersHoldTheirJobs'
  <2>1. \A j \in NewJobs : j > made
    BY <1>0, <1>2, InsertedTyped DEF EnqueueDue
  <2>2. \A j \in Jobs : /\ status'[j] = "processing" <=> status[j] = "processing"
                        /\ status'[j] = "ready" <=> status[j] = "ready"
    BY <1>0, <1>2, <2>1 DEF EnqueueDue, RowsConsistent
  <2>3. \A v \in Workers : pc'[v] = pc[v] \/ pc'[v] = "jobs"
    BY <1>0, <1>2 DEF EnqueueDue, TypeOK
  <2> QED BY <1>c, <1>2, <2>2, <2>3 DEF EnqueueDue, WorkersHoldTheirJobs, Working, Mailing
<1>3. ASSUME NEW w \in Workers, NEW j \in Jobs, Claim(w, j) PROVE WorkersHoldTheirJobs'
  <2>1. status[j] = "queued" /\ owner[j] = NoWorker
    BY <1>c, <1>3 DEF Claim, Claimable
  <2>2. pc'[w] = "render" /\ holding'[w] = j /\ status'[j] = "processing" /\ owner'[j] = w
    BY <1>0, <1>3 DEF Claim, TypeOK
  <2>3. \A v \in Workers \ {w} : pc'[v] = pc[v] /\ holding'[v] = holding[v]
    BY <1>0, <1>3 DEF Claim, TypeOK
  <2>4. \A i \in Jobs \ {j} : status'[i] = status[i] /\ owner'[i] = owner[i]
    BY <1>0, <1>3 DEF Claim, TypeOK
  <2>5. artifact' = artifact /\ mail' = mail
    BY <1>3 DEF Claim
  <2> QED BY <1>b, <1>c, <2>1, <2>2, <2>3, <2>4, <2>5 DEF WorkersHoldTheirJobs, Working, Mailing
<1>4. ASSUME NEW w \in Workers, NEW j \in Jobs, MailClaim(w, j) PROVE WorkersHoldTheirJobs'
  <2>1. pc'[w] = "sending" /\ holding'[w] = j /\ mail'[j] = "processing"
    BY <1>0, <1>4 DEF MailClaim, TypeOK
  <2>2. \A v \in Workers \ {w} : pc'[v] = pc[v] /\ holding'[v] = holding[v]
    BY <1>0, <1>4 DEF MailClaim, TypeOK
  <2>3. \A i \in Jobs \ {j} : mail'[i] = mail[i]
    BY <1>0, <1>4 DEF MailClaim, TypeOK
  <2>4. artifact' = artifact /\ status' = status /\ owner' = owner
    BY <1>4 DEF MailClaim
  <2> QED BY <1>c, <2>1, <2>2, <2>3, <2>4 DEF WorkersHoldTheirJobs, Working, Mailing
<1>5. ASSUME NEW w \in Workers,
             \/ NoJob(w) \/ NoMail(w) \/ SuppressMail(w) \/ Crash(w) \/ Restart(w)
             \/ RenderFails(w) \/ CompleteFails(w) \/ RecordDelivered(w) \/ Send(w) \/ SendFails(w)
      PROVE WorkersHoldTheirJobs'
  <2>1. UNCHANGED <<status, owner, artifact, mail>>
    BY <1>5 DEF NoJob, NoMail, SuppressMail, Crash, Restart, RenderFails, CompleteFails,
                RecordDelivered, Send, SendFails
  <2>2. \A v \in Workers \ {w} : pc'[v] = pc[v] /\ holding'[v] = holding[v]
    BY <1>0, <1>5 DEF NoJob, NoMail, SuppressMail, Crash, Restart, RenderFails, CompleteFails,
                RecordDelivered, Send, SendFails, TypeOK
  <2>3. \/ pc'[w] \in {"jobs", "mail", "idle", "down"}
        \/ pc'[w] = "failing" /\ pc[w] \in {"render", "stored"} /\ holding' = holding
        \/ pc'[w] \in {"sent", "mailFailing"} /\ pc[w] \in {"sending", "sent"} /\ holding' = holding
    BY <1>0, <1>5 DEF NoJob, NoMail, SuppressMail, Crash, Restart, RenderFails, CompleteFails,
                RecordDelivered, Send, SendFails, TypeOK
  <2> QED BY <1>c, <2>1, <2>2, <2>3 DEF WorkersHoldTheirJobs, Working, Mailing
<1>6. ASSUME NEW w \in Workers, Render(w) PROVE WorkersHoldTheirJobs'
  <2>1. holding[w] \in Jobs /\ pc[w] = "render"
    BY <1>c, <1>6 DEF Render, Working
  <2>2. artifact'[holding[w]] /\ \A i \in Jobs : artifact[i] => artifact'[i]
    BY <1>0, <1>6, <2>1 DEF Render, TypeOK
  <2>3. pc'[w] = "stored" /\ \A v \in Workers \ {w} : pc'[v] = pc[v]
    BY <1>0, <1>6 DEF Render, TypeOK
  <2>4. UNCHANGED <<status, owner, mail, holding>>
    BY <1>6 DEF Render
  <2> QED BY <1>c, <2>1, <2>2, <2>3, <2>4 DEF WorkersHoldTheirJobs, Working, Mailing
<1>7. ASSUME NEW w \in Workers, Complete(w) PROVE WorkersHoldTheirJobs'
  <2> DEFINE j == holding[w]
  <2>1. PICK wantsMail \in BOOLEAN : CompleteTx(w, j, wantsMail)
    BY <1>7 DEF Complete
  <2>2. j \in Jobs /\ status[j] = "processing" /\ owner[j] = w
    BY <1>c, <1>7 DEF Complete, HoldsLease, Working
  <2>3. status'[j] = "ready" /\ owner'[j] = NoWorker
    BY <1>0, <2>1, <2>2 DEF CompleteTx, TypeOK
  <2>4. \A i \in Jobs \ {j} : status'[i] = status[i] /\ owner'[i] = owner[i]
    BY <1>0, <2>1, <2>2 DEF CompleteTx, TypeOK
  <2>5. artifact' = artifact /\ \A i \in Jobs : mail[i] # "none" => mail'[i] # "none"
    BY <1>0, <2>1, <2>2 DEF CompleteTx, TypeOK
  <2>6. \A v \in Workers \ {w} : pc'[v] = pc[v] /\ holding'[v] = holding[v]
    BY <1>0, <1>7 DEF Complete, TypeOK
  <2>7. pc'[w] = "jobs" \/ (pc'[w] = "failing" /\ holding'[w] = j)
    BY <1>0, <1>7 DEF Complete, TypeOK
  <2> QED BY <1>b, <1>c, <2>2, <2>3, <2>4, <2>5, <2>6, <2>7
       DEF WorkersHoldTheirJobs, Working, Mailing
<1>8. ASSUME NEW w \in Workers, Fail(w) PROVE WorkersHoldTheirJobs'
  <2> DEFINE j == holding[w]
  <2>1. j \in Jobs
    BY <1>c, <1>8 DEF Fail
  <2>2. /\ pc'[w] = "jobs"
        /\ \A v \in Workers \ {w} : pc'[v] = pc[v] /\ holding'[v] = holding[v]
        /\ artifact' = artifact /\ mail' = mail
    BY <1>0, <1>8 DEF Fail, TypeOK
  <2>3. CASE Matches(w, j)
    <3>1. owner[j] = w /\ owner'[j] = NoWorker /\ status'[j] \in {"queued", "failed"}
      BY <1>0, <1>8, <2>1, <2>3 DEF Fail, Matches, Released, TypeOK
    <3>2. \A i \in Jobs \ {j} : status'[i] = status[i] /\ owner'[i] = owner[i]
      BY <1>0, <1>8, <2>1, <2>3 DEF Fail, Released, TypeOK
    <3>3. status[j] = "processing"
      BY <2>3 DEF Matches
    <3> QED BY <1>b, <1>c, <2>1, <2>2, <3>1, <3>2, <3>3
         DEF WorkersHoldTheirJobs, Working, Mailing
  <2>4. CASE ~Matches(w, j)
    <3>1. status' = status /\ owner' = owner
      BY <1>8, <2>4 DEF Fail
    <3> QED BY <1>c, <2>2, <3>1 DEF WorkersHoldTheirJobs, Working, Mailing
  <2> QED BY <2>3, <2>4
<1>9. ASSUME NEW w \in Workers, RetryMail(w) PROVE WorkersHoldTheirJobs'
  <2>1. /\ pc'[w] = "mail"
        /\ \A v \in Workers \ {w} : pc'[v] = pc[v] /\ holding'[v] = holding[v]
        /\ \A i \in Jobs : mail[i] # "none" => mail'[i] # "none"
    BY <1>0, <1>9 DEF RetryMail, TypeOK
  <2>2. UNCHANGED <<status, owner, artifact>>
    BY <1>9 DEF RetryMail
  <2> QED BY <1>c, <2>1, <2>2 DEF WorkersHoldTheirJobs, Working, Mailing
<1>10. ASSUME \/ UNCHANGED vars \/ PassTime \/ \E s \in Schedules : TogglePause(s)
              \/ \E j \in Jobs : \/ MintBegins(j) \/ MintLink(j) \/ LinkExpires(j)
                                \/ BackoffOver(j) \/ MailBackoffOver(j)
              \/ \E j \in Jobs, k \in 1..minted : RedeemBegins(j, k) \/ RedeemLink(j, k)
       PROVE WorkersHoldTheirJobs'
  <2>1. UNCHANGED <<status, owner, artifact, mail, pc, holding>>
    BY <1>10 DEF vars, PassTime, TogglePause, MintBegins, MintLink, LinkExpires, BackoffOver,
                 MailBackoffOver, RedeemBegins, RedeemLink
  <2> QED BY <1>c, <2>1 DEF WorkersHoldTheirJobs, Working, Mailing
<1> QED BY <1>1, <1>2, <1>3, <1>4, <1>5, <1>6, <1>7, <1>8, <1>9, <1>10 DEF Next, WorkerStep

\* The rows, the artifacts and what each worker believes of them stay consistent
\* whatever fails, and whichever worker dies.
THEOREM ReportInvariant == Spec => []ReportInv
<1>1. Init => ReportInv
  BY InvInit
<1>2. ReportInv /\ [Next]_vars => ReportInv'
  BY TypeStep, HoldStep, RowsStep DEF ReportInv
<1> QED BY <1>1, <1>2, PTL DEF Spec
\* What was announced or downloaded is ready, for good: fail() after a lost
\* acknowledgement finds no processing row.
THEOREM AnnouncedStaysReady == Spec => []AnnouncedIsReady
<1> USE DEF clockVars, jobVars, linkVars, schedVars, mailVars, workerVars, Goes, Takes, Drops
<1>1. ASSUME ReportInv, AnnouncedIsReady, [Next]_vars PROVE AnnouncedIsReady'
  <2>0. TypeOK /\ WorkersHoldTheirJobs /\ RowsConsistent
    BY <1>1 DEF ReportInv
  <2> DEFINE Told(j) == inApp[j] \/ mail[j] # "none" \/ redeemed[j] # <<>>
  <2>1. SUFFICES ASSUME NEW j \in Jobs, Told(j)' PROVE (status[j] = "ready" /\ artifact[j])'
    BY DEF AnnouncedIsReady
  \* A ready row stays ready, with its artifact.
  <2>2. status[j] = "ready" => status'[j] = "ready" /\ artifact[j] /\ artifact'[j]
    <3> SUFFICES ASSUME status[j] = "ready" PROVE status'[j] = "ready" /\ artifact'[j]
      BY <2>0 DEF RowsConsistent
    <3>0. artifact[j] /\ j \in Nat /\ made \in Nat /\ ~(j > made)
      BY <2>0, ParametersAreNat DEF RowsConsistent, TypeOK, Jobs
    <3>1. CASE RequestReport
      BY <2>0, <3>0, <3>1 DEF RequestReport, TypeOK
    <3>2. ASSUME NEW w \in Workers, EnqueueDue(w) PROVE status'[j] = "ready" /\ artifact'[j]
      BY <2>0, <3>0, <3>2, InsertedTyped DEF EnqueueDue
    <3>3. ASSUME NEW w \in Workers, NEW i \in Jobs, Claim(w, i) PROVE status'[j] = "ready" /\ artifact'[j]
      BY <2>0, <3>0, <3>3 DEF Claim, Claimable, TypeOK
    <3>4. ASSUME NEW w \in Workers, Render(w) PROVE status'[j] = "ready" /\ artifact'[j]
      BY <2>0, <3>0, <3>4 DEF Render, TypeOK
    <3>5. ASSUME NEW w \in Workers, Complete(w) PROVE status'[j] = "ready" /\ artifact'[j]
      BY <2>0, <3>0, <3>5 DEF Complete, CompleteTx, TypeOK
    <3>6. ASSUME NEW w \in Workers, Fail(w) PROVE status'[j] = "ready" /\ artifact'[j]
      BY <2>0, <3>0, <3>6 DEF Fail, Matches, Released, TypeOK
    <3>7. ASSUME UNCHANGED <<status, artifact>> PROVE status'[j] = "ready" /\ artifact'[j]
      BY <3>0, <3>7
    <3> QED BY <1>1, <3>1, <3>2, <3>3, <3>4, <3>5, <3>6, <3>7
      DEF Next, WorkerStep, vars, PassTime, TogglePause, MintBegins, MintLink, LinkExpires, RedeemBegins, RedeemLink,
          BackoffOver, MailBackoffOver, NoJob, RenderFails, CompleteFails, MailClaim, NoMail,
          Send, SendFails, RecordDelivered, RetryMail, SuppressMail, Crash, Restart
  \* Only completion announces, only a ready report is downloaded.
  <2>3. Told(j) \/ status[j] = "ready" \/ (status'[j] = "ready" /\ artifact'[j])
    <3> DEFINE Fine == Told(j) \/ status[j] = "ready" \/ (status'[j] = "ready" /\ artifact'[j])
    <3>1. ASSUME NEW w \in Workers, Complete(w) PROVE Fine
      <4>1. artifact[holding[w]] /\ holding[w] \in Jobs
        BY <2>0, <3>1 DEF Complete, WorkersHoldTheirJobs, Working
      <4>2. CASE j = holding[w]
        BY <2>0, <3>1, <4>1, <4>2 DEF Complete, CompleteTx, TypeOK
      <4>3. CASE j # holding[w]
        BY <2>0, <2>1, <3>1, <4>1, <4>3 DEF Complete, CompleteTx, TypeOK
      <4> QED BY <4>2, <4>3
    <3>2. ASSUME NEW i \in Jobs, NEW k \in 1..minted, RedeemLink(i, k) PROVE Fine
      <4>1. CASE i = j
        BY <3>2, <4>1 DEF RedeemLink, StillLinked
      <4>2. CASE i # j
        <5>1. redeemed'[j] = redeemed[j] /\ UNCHANGED <<inApp, mail>>
          BY <2>0, <3>2, <4>2 DEF RedeemLink, TypeOK
        <5> QED BY <2>1, <5>1
      <4> QED BY <4>1, <4>2
    <3>3. ASSUME NEW w \in Workers, NEW i \in Jobs, MailClaim(w, i) PROVE Fine
      BY <2>0, <2>1, <3>3 DEF MailClaim, MailClaimable, TypeOK
    <3>4. ASSUME NEW w \in Workers, RetryMail(w) PROVE Fine
      BY <2>0, <2>1, <3>4 DEF RetryMail, WorkersHoldTheirJobs, Mailing, TypeOK
    <3>5. ASSUME UNCHANGED <<inApp, mail, redeemed>> PROVE Fine
      BY <2>1, <3>5
    <3> QED BY <1>1, <3>1, <3>2, <3>3, <3>4, <3>5
      DEF Next, WorkerStep, vars, RequestReport, PassTime, TogglePause, MintBegins, MintLink,
          LinkExpires, RedeemBegins, BackoffOver, MailBackoffOver, EnqueueDue, Claim, NoJob, Render, RenderFails,
          CompleteFails, Fail, NoMail, Send, SendFails, RecordDelivered, SuppressMail, Crash,
          Restart
  <2> QED BY <1>1, <2>2, <2>3 DEF AnnouncedIsReady
<1> QED BY <1>1, InvInit, ReportInvariant, PTL DEF Spec
\* Why OpenedByLastLink holds: a token is drawn anew, so the job's latest one was
\* replaced by none; nothing replaces a link before the report is opened but a
\* mint, and the key of the redemptions admits one row.
LatestIsLive ==
  /\ \A j \in Jobs : link[j] <= minted /\ (link[j] # 0 => link[j] \notin superseded[j])
  /\ \A j \in Jobs : \A k \in superseded[j] : k <= minted
LinkIInv == OpenedByLastLink /\ LatestIsLive

\* A report is opened once, and never through a link replaced before it was opened.
THEOREM LastLinkOpens == Spec => []OpenedByLastLink
<1> USE DEF clockVars, jobVars, linkVars, schedVars, mailVars, workerVars
<1>0. Init => LinkIInv
  <2> SUFFICES ASSUME Init PROVE LinkIInv
    OBVIOUS
  <2>1. \A j \in Jobs : link[j] = 0 /\ superseded[j] = {} /\ minted = 0
    BY DEF Init
  <2>2. LatestIsLive
    BY <2>1 DEF LatestIsLive
  <2> QED BY <2>2, InvInit DEF LinkIInv
<1>1. ASSUME ReportInv, LinkIInv, [Next]_vars PROVE LinkIInv'
  <2>0. TypeOK /\ WorkersHoldTheirJobs /\ OpenedByLastLink /\ LatestIsLive
    BY <1>1 DEF ReportInv, LinkIInv
  <2>1. ASSUME NEW j \in Jobs, MintLink(j) PROVE LinkIInv'
    <3>1. minted \in Nat /\ minted' = minted + 1 /\ redeemed' = redeemed
      BY <2>0, <2>1, ParametersAreNat DEF MintLink, TypeOK
    <3>2. /\ link'[j] = minted + 1
          /\ superseded'[j] = IF redeemed[j] = <<>> THEN superseded[j] \cup {link[j]} ELSE superseded[j]
      BY <2>0, <2>1 DEF MintLink, TypeOK
    <3>3. \A i \in Jobs \ {j} : link'[i] = link[i] /\ superseded'[i] = superseded[i]
      BY <2>0, <2>1 DEF MintLink, TypeOK
    <3>4. \A i \in Jobs : link[i] \in Nat /\ superseded[i] \subseteq Nat
      BY <2>0, ParametersAreNat DEF TypeOK
    <3>5. \A i \in Jobs : \A k \in superseded'[i] : k \in Nat /\ k <= minted
      BY <2>0, <3>2, <3>3, <3>4 DEF LatestIsLive
    <3>6. \A i \in Jobs : link'[i] <= minted + 1 /\ (link'[i] # 0 => link'[i] \notin superseded'[i])
      <4>1. link'[j] \notin superseded'[j]
        BY <3>1, <3>2, <3>5
      <4> QED BY <2>0, <3>1, <3>2, <3>3, <3>4, <4>1 DEF LatestIsLive
    <3>7. LatestIsLive'
      BY <3>1, <3>5, <3>6 DEF LatestIsLive
    <3>8. \A i \in Jobs : redeemed'[i] = <<>> \/ superseded'[i] = superseded[i]
      BY <3>1, <3>2, <3>3
    <3>9. OpenedByLastLink'
      <4> SUFFICES ASSUME NEW i \in Jobs
                   PROVE  /\ Len(redeemed'[i]) <= 1
                          /\ \A n \in DOMAIN redeemed'[i] : redeemed'[i][n] \notin superseded'[i]
        BY DEF OpenedByLastLink
      <4>1. CASE redeemed'[i] = <<>>
        BY <4>1
      <4>2. CASE superseded'[i] = superseded[i]
        BY <2>0, <3>1, <4>2 DEF OpenedByLastLink
      <4> QED BY <3>8, <4>1, <4>2
    <3> QED BY <3>7, <3>9 DEF LinkIInv
  <2>2. ASSUME NEW j \in Jobs, NEW k \in 1..minted, RedeemLink(j, k) PROVE LinkIInv'
    <3>1. /\ k # 0 /\ k = link[j] /\ redeemed[j] = <<>>
          /\ UNCHANGED <<minted, link, superseded>>
      BY <2>0, <2>2, ParametersAreNat DEF RedeemLink, StillLinked, KeyFree, TypeOK
    <3>2. redeemed'[j] = <<k>> /\ \A i \in Jobs \ {j} : redeemed'[i] = redeemed[i]
      <4>1. Append(<<>>, k) = <<k>>
        OBVIOUS
      <4> QED BY <2>0, <2>2, <3>1, <4>1 DEF RedeemLink, TypeOK
    <3>3. OpenedByLastLink'
      <4> SUFFICES ASSUME NEW i \in Jobs
                   PROVE  /\ Len(redeemed'[i]) <= 1
                          /\ \A n \in DOMAIN redeemed'[i] : redeemed'[i][n] \notin superseded[i]
        BY <3>1 DEF OpenedByLastLink
      <4>1. CASE i = j
        <5>1. k \notin superseded[j]
          BY <2>0, <3>1 DEF LatestIsLive
        <5>2. Len(<<k>>) = 1 /\ \A n \in DOMAIN <<k>> : <<k>>[n] = k
          OBVIOUS
        <5>3. redeemed'[i] = <<k>> /\ superseded[i] = superseded[j]
          BY <3>2, <4>1
        <5> QED BY <5>1, <5>2, <5>3
      <4>2. CASE i # j
        BY <2>0, <3>2, <4>2 DEF OpenedByLastLink
      <4> QED BY <4>1, <4>2
    <3> QED BY <2>0, <3>1, <3>3 DEF LinkIInv, LatestIsLive
  <2>3. ASSUME NEW w \in Workers, Complete(w) PROVE LinkIInv'
    <3>1. UNCHANGED <<minted, redeemed, superseded>> /\ minted \in Nat
      BY <2>0, <2>3, ParametersAreNat DEF Complete, CompleteTx, TypeOK
    <3>2. \A i \in Jobs : link'[i] = link[i] \/ link'[i] = 0
      BY <2>0, <2>3 DEF Complete, CompleteTx, TypeOK
    <3>3. LatestIsLive'
      BY <2>0, <3>1, <3>2 DEF LatestIsLive
    <3> QED BY <2>0, <3>1, <3>3 DEF LinkIInv, OpenedByLastLink
  <2>4. ASSUME UNCHANGED <<minted, link, redeemed, superseded>> PROVE LinkIInv'
    BY <2>0, <2>4 DEF LinkIInv, OpenedByLastLink, LatestIsLive
  <2> QED BY <1>1, <2>1, <2>2, <2>3, <2>4
    DEF Next, WorkerStep, vars, RequestReport, PassTime, TogglePause, MintBegins, LinkExpires,
        RedeemBegins, BackoffOver, MailBackoffOver, EnqueueDue, Claim, NoJob, Render,
        RenderFails, CompleteFails, Fail, MailClaim, NoMail, Send, SendFails, RecordDelivered,
        RetryMail, SuppressMail, Crash, Restart
<1>2. LinkIInv => OpenedByLastLink
  BY DEF LinkIInv
<1> QED BY <1>0, <1>1, <1>2, ReportInvariant, PTL DEF Spec

\* No schedule reports twice on one local day, however many workers tick.
THEOREM PeriodReportedOnce == Spec => []OneReportPerPeriod
<1> USE DEF clockVars, jobVars, linkVars, schedVars, mailVars, workerVars
<1>1. ASSUME ReportInv, OneReportPerPeriod, [Next]_vars PROVE OneReportPerPeriod'
  <2>0. TypeOK
    BY <1>1 DEF ReportInv
  <2>1. CASE RequestReport
    <3>1. /\ made \in Nat /\ made' = made + 1 /\ made + 1 \in Jobs
          /\ source' = source /\ period' = period
      BY <2>0, <2>1, ParametersAreNat DEF RequestReport, TypeOK, Jobs
    <3>2. source[made + 1] = NoSchedule
      BY <1>1, <3>1 DEF ReportInv, RowsConsistent
    <3>3. \A j \in 1..made' : j \in 1..made \/ source[j] = NoSchedule
      BY <3>1, <3>2
    <3> QED BY <1>1, <3>1, <3>3 DEF OneReportPerPeriod
  <2>2. ASSUME NEW w \in Workers, EnqueueDue(w) PROVE OneReportPerPeriod'
    <3>1. made \in Nat /\ Cardinality(Inserted) \in Nat /\ made' = made + Cardinality(Inserted)
          /\ NewJobs \subseteq Jobs /\ Inserted \subseteq Schedules
      BY <2>0, <2>2, InsertedTyped DEF EnqueueDue
    <3>2. PICK row \in [NewJobs -> Inserted] :
            /\ \A i, j \in NewJobs : row[i] = row[j] => i = j
            /\ source' = [j \in Jobs |-> IF j \in NewJobs THEN row[j] ELSE source[j]]
      BY <2>2 DEF EnqueueDue
    <3>3. \A j \in 1..made' : j \in Jobs /\ (j \in NewJobs \/ (j \in 1..made /\ j \notin NewJobs))
      BY <2>0, <2>2, <3>1, ParametersAreNat DEF EnqueueDue, NewJobs, Jobs, TypeOK
    <3>4. \A j \in NewJobs : source'[j] = row[j] /\ period'[j] = Day(now) /\ row[j] \in Inserted
      BY <2>2, <3>1, <3>2 DEF EnqueueDue
    <3>5. \A j \in Jobs \ NewJobs : source'[j] = source[j] /\ period'[j] = period[j]
      BY <2>2, <3>2 DEF EnqueueDue
    <3>6. \A j \in 1..made, s \in Inserted : ~(source[j] = s /\ period[j] = Day(now))
      BY DEF Inserted, NotReported
    <3>7. \A j \in 1..made' : \/ j \in NewJobs /\ source'[j] = row[j] /\ period'[j] = Day(now)
                              \/ j \in 1..made /\ source'[j] = source[j] /\ period'[j] = period[j]
      BY <3>3, <3>4, <3>5
    <3> SUFFICES ASSUME NEW i \in 1..made', NEW j \in 1..made', source'[i] = source'[j],
                        source'[i] # NoSchedule, period'[i] = period'[j]
                 PROVE  i = j
      BY DEF OneReportPerPeriod
    <3>8. CASE i \in NewJobs /\ source'[i] = row[i] /\ period'[i] = Day(now)
      <4>0. row[i] \in Inserted
        BY <3>4, <3>8
      <4>1. CASE j \in NewJobs /\ source'[j] = row[j] /\ period'[j] = Day(now)
        BY <3>2, <3>8, <4>1
      <4>2. CASE j \in 1..made /\ source'[j] = source[j] /\ period'[j] = period[j]
        BY <3>6, <3>8, <4>0, <4>2
      <4> QED BY <3>7, <4>1, <4>2
    <3>9. CASE i \in 1..made /\ source'[i] = source[i] /\ period'[i] = period[i]
      <4>1. CASE j \in NewJobs /\ source'[j] = row[j] /\ period'[j] = Day(now)
        BY <3>4, <3>6, <3>9, <4>1
      <4>2. CASE j \in 1..made /\ source'[j] = source[j] /\ period'[j] = period[j]
        BY <1>1, <3>9, <4>2 DEF OneReportPerPeriod
      <4> QED BY <3>7, <4>1, <4>2
    <3> QED BY <3>7, <3>8, <3>9
  <2>3. ASSUME UNCHANGED <<made, source, period>> PROVE OneReportPerPeriod'
    BY <1>1, <2>3 DEF OneReportPerPeriod
  <2>4. \/ RequestReport \/ \E w \in Workers : EnqueueDue(w)
        \/ UNCHANGED <<made, source, period>>
    <3>1. ASSUME NEW w \in Workers, WorkerStep(w), ~EnqueueDue(w) PROVE UNCHANGED <<made, source, period>>
      BY <3>1 DEF WorkerStep, Claim, NoJob, Render, RenderFails, Complete, CompleteTx, CompleteFails, Fail,
                  MailClaim, NoMail, Send, SendFails, RecordDelivered, RetryMail, SuppressMail, Restart
    <3>2. CASE \E w \in Workers : Crash(w)
      BY <3>2 DEF Crash
    <3>3. CASE \E j \in Jobs : MintBegins(j) \/ MintLink(j) \/ LinkExpires(j) \/ BackoffOver(j) \/ MailBackoffOver(j)
      BY <3>3 DEF MintBegins, MintLink, LinkExpires, BackoffOver, MailBackoffOver
    <3>4. CASE \E j \in Jobs, k \in 1..minted : RedeemBegins(j, k) \/ RedeemLink(j, k)
      BY <3>4 DEF RedeemBegins, RedeemLink
    <3>5. CASE PassTime \/ UNCHANGED vars \/ \E s \in Schedules : TogglePause(s)
      BY <3>5 DEF PassTime, vars, TogglePause
    <3> QED BY <1>1, <3>1, <3>2, <3>3, <3>4, <3>5 DEF Next
  <2> QED BY <2>1, <2>2, <2>3, <2>4
<1> QED BY <1>1, InvInit, ReportInvariant, PTL DEF Spec

-------------------------------------------------------------------------------
\* A worker busy with a job, and the jobs that StrandedByCrashOnly counts.
Busy(w)  == Working(w) \/ pc[w] = "failing"
Stranded == {j \in Jobs : status[j] = "processing" /\ \A w \in Workers : Busy(w) => holding[w] # j}

\* A step after which every busy worker is still busy with a job that is still
\* processing strands none.
LEMMA NoneStranded ==
  ASSUME \A j \in Jobs : status'[j] = "processing" =>
           \/ status[j] = "processing"
           \/ \E v \in Workers : Busy(v)' /\ holding'[v] = j,
         \A v \in Workers : Busy(v) /\ status'[holding[v]] = "processing" =>
           Busy(v)' /\ holding'[v] = holding[v]
  PROVE  Stranded' \subseteq Stranded
BY DEF Stranded

\* Only a crash strands a job, and one at most.
LEMMA StrandStep ==
  ASSUME ReportInv, [Next]_vars
  PROVE  \/ Stranded' \subseteq Stranded /\ crashes' = crashes
         \/ /\ crashes' = crashes + 1
            /\ \E w \in Workers : Stranded' \subseteq Stranded \cup {holding[w]}
<1> USE DEF clockVars, jobVars, linkVars, schedVars, mailVars, workerVars, Goes, Takes, Drops
<1> DEFINE Safe == Stranded' \subseteq Stranded /\ crashes' = crashes
<1>0. TypeOK /\ WorkersHoldTheirJobs /\ RowsConsistent
  BY DEF ReportInv
<1>1. ASSUME UNCHANGED <<status, pc, holding, crashes>> PROVE Safe
  BY <1>1 DEF Stranded, Busy, Working
<1>2. CASE RequestReport
  <2>1. \A j \in Jobs : status'[j] = "processing" => status[j] = "processing"
    BY <1>0, <1>2, ParametersAreNat DEF RequestReport, TypeOK
  <2> QED BY <1>2, <2>1, NoneStranded DEF RequestReport, Busy, Working
<1>3. ASSUME NEW w \in Workers, EnqueueDue(w) PROVE Safe
  <2>1. \A j \in Jobs : status'[j] = "processing" => status[j] = "processing"
    BY <1>3 DEF EnqueueDue
  <2>2. \A v \in Workers : Busy(v) => Busy(v)' /\ holding'[v] = holding[v]
    BY <1>0, <1>3 DEF EnqueueDue, Busy, Working, TypeOK
  <2> QED BY <1>3, <2>1, <2>2, NoneStranded DEF EnqueueDue
<1>4. ASSUME NEW w \in Workers, NEW i \in Jobs, Claim(w, i) PROVE Safe
  <2>1. Busy(w)' /\ holding'[w] = i
    BY <1>0, <1>4 DEF Claim, Busy, Working, TypeOK
  <2>2. \A j \in Jobs \ {i} : status'[j] = status[j]
    BY <1>0, <1>4 DEF Claim, TypeOK
  <2>3. \A v \in Workers : Busy(v) => Busy(v)' /\ holding'[v] = holding[v]
    BY <1>0, <1>4 DEF Claim, Busy, Working, TypeOK
  <2> QED BY <1>4, <2>1, <2>2, <2>3, NoneStranded DEF Claim
<1>5. ASSUME NEW w \in Workers,
             \/ NoJob(w) \/ Render(w) \/ RenderFails(w) \/ CompleteFails(w) \/ NoMail(w)
             \/ Send(w) \/ SendFails(w) \/ RecordDelivered(w) \/ RetryMail(w) \/ SuppressMail(w)
             \/ Restart(w) \/ \E j \in Jobs : MailClaim(w, j)
      PROVE Safe
  <2>1. UNCHANGED <<status, crashes>>
    BY <1>5 DEF NoJob, Render, RenderFails, CompleteFails, NoMail, Send, SendFails,
                RecordDelivered, RetryMail, SuppressMail, Restart, MailClaim
  <2>2. \A v \in Workers : Busy(v) => Busy(v)' /\ holding'[v] = holding[v]
    BY <1>0, <1>5 DEF NoJob, Render, RenderFails, CompleteFails, NoMail, Send, SendFails,
                RecordDelivered, RetryMail, SuppressMail, Restart, MailClaim, Busy, Working, TypeOK
  <2> QED BY <2>1, <2>2, NoneStranded
<1>6. ASSUME NEW w \in Workers, Complete(w) PROVE Safe
  <2>1. holding[w] \in Jobs
    BY <1>0, <1>6 DEF Complete, WorkersHoldTheirJobs, Working
  <2>2. /\ status'[holding[w]] = "ready" /\ crashes' = crashes
        /\ \A j \in Jobs \ {holding[w]} : status'[j] = status[j]
    BY <1>0, <1>6, <2>1 DEF Complete, CompleteTx, TypeOK
  <2>3. \A v \in Workers \ {w} : Busy(v) => Busy(v)' /\ holding'[v] = holding[v]
    BY <1>0, <1>6 DEF Complete, Busy, Working, TypeOK
  <2> QED BY <2>2, <2>3, NoneStranded
<1>7. ASSUME NEW w \in Workers, Fail(w) PROVE Safe
  <2>1. /\ holding[w] \in Jobs
        /\ Matches(w, holding[w]) \/ status[holding[w]] = "ready"
    BY <1>0, <1>7 DEF Fail, WorkersHoldTheirJobs, Matches
  <2>2. /\ status'[holding[w]] # "processing" /\ crashes' = crashes
        /\ \A j \in Jobs \ {holding[w]} : status'[j] = status[j]
    BY <1>0, <1>7, <2>1 DEF Fail, Matches, Released, TypeOK
  <2>3. \A v \in Workers \ {w} : Busy(v) => Busy(v)' /\ holding'[v] = holding[v]
    BY <1>0, <1>7 DEF Fail, Busy, Working, TypeOK
  <2> QED BY <2>2, <2>3, NoneStranded
<1>8. ASSUME NEW w \in Workers, Crash(w)
      PROVE  crashes' = crashes + 1 /\ Stranded' \subseteq Stranded \cup {holding[w]}
  <2>1. crashes' = crashes + 1 /\ status' = status
    BY <1>8 DEF Crash
  <2>2. \A v \in Workers \ {w} : Busy(v) => Busy(v)' /\ holding'[v] = holding[v]
    BY <1>0, <1>8 DEF Crash, Busy, Working, TypeOK
  <2> QED BY <2>1, <2>2 DEF Stranded
<1> QED BY <1>1, <1>2, <1>3, <1>4, <1>5, <1>6, <1>7, <1>8
     DEF Next, WorkerStep, vars, PassTime, TogglePause, MintBegins, MintLink, LinkExpires, RedeemBegins, RedeemLink,
         BackoffOver, MailBackoffOver

\* A report job stays processing without a live worker busy with it only if a crash left it,
\* one job for each crash at most.
THEOREM CrashesBoundStranded == Spec => []StrandedByCrashOnly
<1>0. StrandedByCrashOnly <=> Cardinality(Stranded) <= crashes
  BY DEF StrandedByCrashOnly, Stranded, Busy
<1>1. IsFiniteSet(Jobs)
  BY ParametersAreNat, FS_Interval DEF Jobs
<1>2. Init => Cardinality(Stranded) <= crashes
  <2> SUFFICES ASSUME Init PROVE Cardinality(Stranded) <= crashes
    OBVIOUS
  <2>1. Stranded = {} /\ crashes = 0
    BY DEF Init, Stranded
  <2> QED BY <2>1, FS_EmptySet
<1>3. ReportInv /\ Cardinality(Stranded) <= crashes /\ [Next]_vars => (Cardinality(Stranded) <= crashes)'
  <2> SUFFICES ASSUME ReportInv, Cardinality(Stranded) <= crashes, [Next]_vars
               PROVE  Cardinality(Stranded') <= crashes'
    OBVIOUS
  <2>1. IsFiniteSet(Stranded) /\ Cardinality(Stranded) \in Nat /\ crashes \in Nat
    BY <1>1, FS_Subset, FS_CardinalityType, ParametersAreNat DEF Stranded, ReportInv, TypeOK
  <2>2. CASE Stranded' \subseteq Stranded /\ crashes' = crashes
    <3>1. Cardinality(Stranded') <= Cardinality(Stranded) /\ Cardinality(Stranded') \in Nat
      BY <2>1, <2>2, FS_Subset, FS_CardinalityType
    <3> QED BY <2>1, <2>2, <3>1
  <2>3. ASSUME NEW w \in Workers, crashes' = crashes + 1, Stranded' \subseteq Stranded \cup {holding[w]}
        PROVE  Cardinality(Stranded') <= crashes'
    <3>1. /\ IsFiniteSet(Stranded \cup {holding[w]})
          /\ Cardinality(Stranded \cup {holding[w]}) <= Cardinality(Stranded) + 1
      BY <2>1, FS_AddElement
    <3>2. Cardinality(Stranded \cup {holding[w]}) \in Nat /\ Cardinality(Stranded') \in Nat
      BY <2>3, <3>1, FS_Subset, FS_CardinalityType
    <3>3. Cardinality(Stranded') <= Cardinality(Stranded \cup {holding[w]})
      BY <2>3, <3>1, FS_Subset
    <3> QED BY <2>1, <2>3, <3>1, <3>2, <3>3
  <2> QED BY <2>2, <2>3, StrandStep
<1>4. Cardinality(Stranded) <= crashes => StrandedByCrashOnly
  BY <1>0
<1> QED BY <1>2, <1>3, <1>4, InvInit, ReportInvariant, PTL DEF Spec
===============================================================================
