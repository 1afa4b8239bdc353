# Callora: formal models

TLA+ modules for the concurrent parts of Callora, the TLC configurations that check them on small instances and
TLAPS proofs for every instance. Every definition is written from the code; where a document or a comment says
something else than the code does, a run shows the difference (see *Findings*). `PROJECT.json` holds the machine
readable side of this page: components, runs, mutants, hazards, theorems, and the source lines of each definition.

    tlc -workers 2 -config LeadWork_updates.cfg MCLeadWork      # one run
    tlapm LeadWork_proofs.tla                                   # one proof module

Paths below are relative to the repository. Short names: *repository* = `apps/api/src/postgres/repository.ts`,
*app* = `apps/api/src/app.ts`, *mobile* = `apps/android/app/src/main/kotlin/co/callora/mobile`, *migrations* =
`packages/database/migrations`.

## 1. The system

Callora collects the call history of an organization's employees from their Android phones, under a recorded
consent, and turns it into call analytics, a lead CRM and reports. A Fastify API over PostgreSQL serves a web
dashboard and the phones; worker processes render reports and send e-mail.

| Component | State it keeps | Operations | Talks to | What is hard |
|---|---|---|---|---|
| Device trust, server (migrations 0009, 0010, 0023; *repository* 4219-5174, 5496-5543) | pairing codes, credentials, consent receipts, policies, request ledger | redeem, activate, renew consent, prepare/confirm rotation, revoke; publish/retire policy; suspend, administrator revocation | every authenticated request | authentication and commit are two transactions; retries with a credential consumed meanwhile; re-pairing over live sessions |
| Device protocol, phone (*mobile* `ui/CalloraViewModel.kt`, `sync/CallSyncWorker.kt`, `core/protocol`) | encrypted journal, credential vault, preferences, queued calls | pair, accept, renew, rotate, withdraw, repair at launch, erase | device trust over HTTP | two actors under two mutexes, three stores committed one by one, death at any step, lost and late requests |
| Call collection and upload, phone (`sync/`, `data/local/QueuedCall*`, `CallQueueRepository`) | queue rows, scan checkpoint, cursor | scan, enqueue, build a batch, upload, retry, recover, prune | call ingestion | write-behind preferences, retries, out-of-order logs, the gate closing in mid-run |
| Call ingestion, server (*repository* 5274-5495; 0005, 0011, 0012) | batches, calls, links | exactly-once batch, upsert per call, automatic link | leads, outbox | same batch under another digest, late copies |
| Call to lead links (*repository* 1187-1280, 3427-3620) | links, corrections ledger, last contact | link on ingestion, manual correction | leads | corrections against ingestion |
| Lead update queue, phone (`data/local/LeadMutation*`, `sync/LeadMutation*`) | one active row per lead, outcomes | compose, send, retry, recover, prune, purge | lead CRM | stale versions, late copies, death in flight |
| Lead CRM (*repository* 1701-2392, 3621-3953; 0014) | leads with versions, follow-ups, activities, replay ledger | edit, assign, archive, plan/complete follow-up, apply an update | phones, managers | two writers of `next_follow_up_at`, replays after the lead has moved on |
| Lead imports and assignment rules (*repository* 887-1025, 2393-3426; 0015) | import jobs and rows, rules, assignment runs | stage, commit in batches, edit rules, apply | leads | jobs whose files share numbers, whose commits alternate, and which take turns on one round-robin rule; people who leave between preview and commit |
| Report jobs, schedules, downloads (`report-worker*.ts`, `report-worker-repository.ts`; 0016-0018) | jobs with leases, schedules, artifacts, links | enqueue due, claim, render, complete, fail, mint/redeem link | notifications | several workers, lost acknowledgements, lag over midnight, crash in a claim |
| E-mail delivery (`notification-worker.ts`, `notification-delivery-repository.ts`; 0019) | delivery rows | claim, send, record, retry, suppress | provider | retry after the message went out |
| Transactional outbox (*repository* 5807-5880; 0007) | events with leases | append, claim, acknowledge | no dispatcher in the repository | lease taken over |
| Rate limits (`postgres/limiter.ts`; 0009 715-826) | fixed-window buckets | consume | mobile endpoints | window edge, capacity |
| Call PII, blind index, backfill (`call-pii-crypto.ts`, `tools/call-pii-backfill.ts`; 0011, 0012) | the keyring of each process, the envelope of each row | seal, backfill, rotate, verify; append and retire keys | ingestion | servers with different keyrings write while the tool pages through the rows |
| HTTP surface (*app*, `server.ts`) | the audit trail, request keys | authenticate, authorize, execute, audit | everything | three transactions per request; retries after an answer was lost |
| Web client, lead workspace (`apps/web/src/features/leads`, `auth`, `api/client.ts`) | list, details with a cache, spinners, request keys | filter, select, change, sign in and out | HTTP surface | answers out of order, aborted, or older than what is shown |
| In-memory repository (`apps/api/src/repository.ts`) | maps | as *repository* | the same routes | guards that differ from the database's |
| Recordings and transcripts (`recording-service.ts`; 0020) | metadata in memory, checksum index | begin, complete, transcribe, delete | object store, provider | state read before an await |
| Onboarding screens, the other web workspaces, OIDC session, iOS client, analytics, API keys and billing, contracts, schema tooling | see PROJECT.json | | | mostly formatting, CRUD or pure functions |

What makes each of the modelled ones correct, in one sentence:

* *Device trust*: a phone has at most one live credential of each standing; consent and session stand and fall
  together; a retired secret stays retired; a suspension takes effect on requests already under way; each recorded
  request had its effect once.
* *Device protocol*: every state a crash can leave is one the phone resumes from; nothing is collected or uploaded on a
  consent the server does not hold; a retry is byte for byte the request the ledger may already have; an erasure is
  complete before it is forgotten.
* *Call pipeline*: what the phone prunes is on the server; every call is stored once; a batch id names one payload; the
  checkpoint never passes a call without a row; a manager's link is not overruled; last contact is the latest linked
  call; every row settles.
* *Lead updates*: an update is applied at most once and only to the version the employee saw; a success shown on
  the phone is true for ever, and so is a refusal of a phone that is trusted; `next_follow_up_at` is the earliest pending date; every update settles.
* *Reports*: whoever is told of a report finds it; one report per schedule and day; a report is opened once, and
  not through a link that was replaced; a job is stranded by a crash only.
* *Lead imports and rules*: each row of a file has its effect at most once, and a job's counters say what became of its
  rows; imports give no number twice to a team; whoever is given a lead is there to take it; a round-robin rule passes
  over nobody.
* *Keys*: no key is given up while a sealed call needs it.
* *HTTP surface and web client*: a record of the audit trail is true and there is one per answered change (not per
  run of the rules that assigned nothing); what the
  workspace shows at rest is not older than what it was told, and no spinner is left turning.
* *In-memory repository*: a phone has one session at a time, none that was taken away comes back, and only a phone with
  a session stores calls.

## 2. The modules

| Module | Models | Extends | Run by | Proved in |
|---|---|---|---|---|
| `DeviceTrust` | server side of device trust | – | `MCDeviceTrust` | `DeviceTrust_proofs` |
| `MobileProtocol` | the phone, the network and `DeviceTrust` composed | `DeviceTrust` | `MCMobileProtocol` | `MobileProtocol_proofs` |
| `CallSync` | call log, queue, worker, ingestion, links, corrections | – | `MCCallSync` | `CallSync_proofs` |
| `LeadWork` | lead, follow-ups, ledger, phone's queue and worker, managers | – | `MCLeadWork` | `LeadWork_proofs` |
| `ReportJobs` | schedules, jobs, e-mails, links, worker processes | – | `MCReportJobs` | `ReportJobs_proofs` |
| `LeadOps` | imports, assignment rules and their runs, on both repositories | – | `MCBackOffice` | `LeadOps_proofs` |
| `ExactlyOnce` | what a request ledger promises (abstract) | – | instance in `LeadOps` | `LeadOps_proofs` (refinement) |
| `Gateway` | a request of the dashboard from bearer to audit record | – | `MCBackOffice` | `StaffDesk_proofs` |
| `StaffDesk` | a browser tab on the lead workspace and the requests it sends | `Gateway` | `MCBackOffice` | `StaffDesk_proofs` |
| `CallPii` | keyrings, sealed rows, servers and the key tool | – | `MCBackOffice` | `BackOffice_proofs` |
| `MemTrust` | device trust of the in-memory repository | – | `MCBackOffice` | `BackOffice_proofs` |
| `SessionChain` | what a repository of device sessions promises (abstract) | – | instance in `MemTrust` | `BackOffice_proofs` (refinement) |

The interfaces between the modules are deliberate. `CallSync` and `LeadWork` know of trust only that a phone loses it
and regains it, and that the client then purges: what makes it so is `MobileProtocol`. `MobileProtocol` knows of the
queue only whose calls it holds, under which consent, read from which checkpoint. `LeadWork` sees of calls only that they
move the lead's version (`Contact`). `Gateway` is the shell around any of the server's changes, so it knows of leads
only their versions; what the changes do to more than that is in `LeadOps`, `LeadWork` and `CallSync`. `MCBackOffice` is
no composition: its parts share no state (see *The runs*).

Operators named `X_Slip`, and those marked *Mutant*, are plausible mistakes in `X`. Nothing uses them but the mutants
listed in PROJECT.json: each property of each passing run is violated once a definition is replaced by such a slip.

### DeviceTrust

A transaction (a PL/pgSQL function such as `activate_mobile_session`, called from *repository*) locks employee, device,
request and credentials, so it is one action: `RedeemTx`, `ActivateTx`, `ReconsentTx`, `PrepareTx`, `ConfirmTx`,
`RevokeTx`, `AdminRevokeDevice`. What is not atomic is a request: the pre-handler resolves the bearer in its own
transaction (`Authenticate`), the handler runs another one later; `inflight` holds the requests in between, and
`Answer` is the recorded response or the rollback. `state[i]`, `ledger[i]` name credentials by the request that
proposed them, since the client draws id and secret together. `SuspendEmployee` revokes the phones' rows and leaves
credentials and receipts, as the code does. Expiry of a code or a credential is a step, since rows do not change then
and guards compare with the clock. Effective windows of policies do not overlap, so a policy number suffices.
Left out: several organizations, several collection modes, rate limits, token formats.

### MobileProtocol

One step is what neither a crash can split nor the other actor can see half done: each synchronous commit of the journal
(`SecureProtocolVault`), the credential vault and the preferences is a step of its own. `ui` is the view model, which
runs one operation at a time under `protocolMutex`; `worker` is `CallSyncWorker`, which owns `collectionMutex`
(`MutexFree`); `Crash` takes both with it; `wire` holds requests sent and not yet served, which may be served after
their sender gave up (`GiveUp`, `Serve`, `Lose`). `Launch` is the repair at startup, `Resume`/`Retry` go on from the
journal's phase, `Acknowledged` and the steps after it are the `perform…` functions, `WorkerErases` and the `Wipe…`
steps the two erasures. `prefs.since` is the scan checkpoint as the consent it stands for, 0 for all history.
Abstractions: the permission stage is part of READY; a refresh from the call list happens between operations; the
server answers in one step (the split is `DeviceTrust`'s); one employee; a journal that cannot be decrypted is left out;
preference writes are taken as the `commit()`s that end each group.

### CallSync

Each Room transaction, server transaction and request is one action. `prefs`/`disk` are the preferences in memory and
on disk: they are written behind (`Flush`), a death loses the difference, and the next run starts after they agree.
`Start` recovers rows in flight, `Scan` reads the log from the checkpoint and inserts, `Upload` builds a batch (its id
is a digest of cursor and items) and posts it; `Ingest`, which may come late or repeatedly, is
`ingestMobileCallBatch` with the per-call upsert and the automatic link; `Refuse` is any refusal: "denied" for 400/403,
"closed" for a lost session or consent. `Ask`/`Correct` are a manager's correction, whose request may be repeated.
`Rematch` changes which lead a number matches. Correction and ingestion are atomic against each other because
`for update` of the lead conflicts with the key-share lock of the link's foreign key. Left out: calls whose number is
not E.164 (never queued), the demo source, the byte budget (a smaller batch).

### LeadWork

One lead. `Submit` is the composer and `LeadMutationRepository.enqueue`, with the unique active row; `Send` is a run of
`LeadMutationProcessor` up to its request: recover, read what is due, mark. `Synced`, `Conflicted`, `Rejected`,
`SendFails` are its outcomes, each with the pruning that ends a run; `CloseGate` the security answers and the purge.
A request in `wire` may be executed any number of times. `Arrive` is its authentication, in a transaction of its own
before the handler (`admitted` holds the requests past it); `Execute` is `applyMobileLeadUpdate` in its order: trust,
replay, age, assignment, version. It looks at the trust again, so a request let in before the trust was lost is answered
404 "Lead not found" (*app* 1923) or, when only the consent has gone, "consent required"; the first is final for
the phone, which marks the update rejected even if an earlier copy was applied. Hence `RefusalIsTrue` speaks of "not
found" only while the phone is trusted. `Save`, `PlanFollowUp`, `CompleteFollowUp` and `Contact` are the managers and the
calls. The follow-ups' foreign key keeps a lead with follow-ups in its team (guard of `Save`). Updates of different
leads share no row but the worker, so one lead is enough. Left out: status, note and fields as payload (no route
deactivates a status); an employee without a linked user (always 404); a manager's save on a stale version (refused,
changes nothing).

### ReportJobs

`EnqueueDue`, `Claim`, `Render`, `Complete`, `Fail`, `MailClaim`, `Send`, `RecordDelivered`, `RetryMail`,
`SuppressMail` are the statements of a tick, `pc`/`holding` a worker process's position. `CompleteFails` is an answer
lost before or after the commit. A download is two statements, a mint and a redemption, each in two steps because both run under READ
COMMITTED: `MintBegins`/`RedeemBegins` take the snapshot in which no redemption is seen, `MintLink`/`RedeemLink` have got
the job's row. A redemption locks that row and does not change it, so a mint that waited for it goes through without a
second look (`MintLink` has no guard on redemptions); a mint changes it, so a redemption that waited compares the token
again (`StillLinked`). The unique key of the redemptions refuses a second one (`KeyFree`). `redeemed` are the rows of
redemptions by token, `superseded` a history variable: the tokens replaced before the job was opened.
The lease expiry is not modelled because it decides nothing: the completion compares
it with the start of the tick. The loader of rows and the renderers, the inbox's read marks, saved views and recipients
without an address are left out; a weekly cadence is a longer day; the limit of 25 per tick never binds here.

### LeadOps, ExactlyOnce

`PgPreview`/`MemPreview` stage a file under the request id that names the job (`Decide`, `Proposed`); `PgCommit`/
`MemCommit` import the next `Batch` valid rows after a second look at duplicates, owners and rules (`PgRow`, `MemRow`),
advance the rules (`Advanced`) and record the answer; `PgApply`/`MemApply` run the rules over unassigned leads. On
PostgreSQL each is one transaction that locks what it reads (the job, the rules in order, the leads under an advisory
lock), hence one action; the in-memory methods run without a break. The accumulator of a loop is the code's local
state. `Managers` are the edits in between: rules, suspensions, leads. `CreateLead` and `UpdateLead` set numbers, alternate
numbers and owners (and the latter archives and restores) without looking for another lead with the number, as the code
does; so two leads of a team may well share one. `handled` marks a lead whose numbers, team or archive a manager has
changed: it keeps its row, but is no longer what the import made of it, and the statements about numbers except it
(`RowsAndLeads`, `NoNumberTwice`). `turns` is a history variable. The two
repositories differ where an operator has a prefix or asks for `store`: PostgreSQL refuses a row whose rule has moved
on (`Restaged`), the in-memory one decides by the rule as it is. Left out: parsing, custom fields, the scopes of roles.

`ExactlyOnce` is the contract: items are settled, each with one effect or none, and never again. `RowsTakeEffectOnce`
is its specification under the mapping in `LeadOps`: items are the rows of the staged files, open while "valid", and
their effects the leads in the book that were made from them. A commit is one `Settle` or a stutter.

### Gateway, StaffDesk

A request is `Post`ed, `Admit`ted or `Deny`'d by the pre-handlers, for `updateLead` the lead is read (`Look`), then the
repository's transaction (`Create`, `Update`, `Touch`, `Add`, `ByKey`), then the audit record in another (`Audit`,
`AuditFails`). `ServerDies` between any of them, `Demote` and `OthersChange` are the environment. `Table` classifies the
routes by permission, effect and when they are audited: a run of the rules is when it is no replay and `applied`
a lead (*app* 1421), so one that assigned none is recorded in the ledger of requests and leaves no audit entry; `Refuse` stands for every other refusal.

`StaffDesk` is the tab: one step is one callback of the event loop with the effects it causes (`Reload`, `Detailed`);
`list` and `detail` are the two fetches whose answers are listened to, with what the server read for them (`stage` =
"served") until the answer arrives; `pending` are the changes listened to; `told` is a history variable. An effect of
React that starts a fetch aborts the one before, so an aborted fetch is forgotten. Losing the session unmounts the
workspace (`Unmount`). Left out: dev mode with its demonstration data, the other workspaces.

### CallPii

A row is its envelope: format, key version and blind-index version it was made with, the marker column that says which
blind-index version it is to be opened with, and whether the phone has changed the call since. `UpsertMobileCall` and
`InsertManualCall` write with the ring their server was started with (`IsDuplicate`, `Marked`, `Wrapped`: the SQL
function, the trigger and the wrapper of 0012); `Deploy` restarts a server with the ring being rolled out. The tool's
`BackfillBatch` and `RotateBatch` are one transaction per batch that skips rows others have locked, and a batch that is
not full ends the loop even so; `VerifyPage` reads page by page, while servers write behind it and ahead of it.
`AppendKeys` and `RemoveRetiredKeys` are what an operator may do by `docs/PHASE_3D_PRODUCTION_VERIFICATION.md:138,
224-227`; we read them as: versions are appended only when all servers have the last ring, and retired ones removed on
the evidence of a rotation that was begun when all servers had the present one. Left out: the verify mode, which writes
nothing and, unlike rotate, does not ask for the active versions; key material.

### MemTrust, SessionChain

The in-memory repository behind the routes of `DeviceTrust`. A method runs to its end at once, but the bearer is
resolved before it is called (`Authenticate`; `open` holds what was authenticated), and `Can...` are the guards it
repeats. A token is named by the request that proposed it, as in `DeviceTrust`. It is modelled on its own because its
guards are different: no policy need be in force to redeem, two rotations may be prepared side by side, a confirmation
looks at neither phone nor employee, a suspension dates credentials as revoked without changing their state, a
re-pairing revokes consumed credentials too.

`SessionChain` is the contract, the same for any repository: a phone's session is handed over (`Hand`) or taken away
(`Take`), one that was is spent, a barred phone has none, and only a phone that has one stores calls (`Store`).
`SessionsChained` is its specification under the mapping in `MemTrust`: `holds` are the active credentials not dated as
revoked, `spent` those that are, `barred` the phones of suspended employees.

## 3. The runs

`expect = pass`: TLC finds no error. `expect = violation`: a statement of a document or comment that the code does not
keep; see *Findings*.

| Run | Asks | Bounds |
|---|---|---|
| `device_trust` | do overlapping requests, rotations, re-pairing, suspension and revocation keep credentials, consent, status and ledger in agreement | 4 requests; 2 phones, 2 employees and 2 codes with 1 policy and 1 request in flight, or 1 of each with 2 policies and 2 in flight (`OneByOne`) |
| `phone_protocol` | does any interleaving of view model, worker, crash and lossy network leave the phone unrecoverable, collecting without consent, or half erased | 2 installations, 2 codes, 4 requests, 2 policies, 1 request on the wire; crashes, losses, runs unbounded |
| `withdrawal_lost` | README of the app: a withdrawal reaches the server | 1 pairing, 3 requests |
| `backfill_race` | README of the app: no historical row is read | 1 pairing, 3 requests |
| `rollover_wedge` | PHASE_3C: policy rollovers are repaired | 3 policies (with 2 the formula holds) |
| `report_workers` | do two workers keep jobs, announcements and e-mails consistent, and is a report opened once and through no replaced link, whatever waits for its row | 2 workers, 1 schedule, 1 e-mail, 1 crash, 2 attempts; 2 jobs with 1 link, or 1 job with 3 links (`OneByOne`) and any number of mints and redemptions under way |
| `email_never_settles` | PHASE_5D: an e-mail ends delivered or suppressed | 1 worker, no crash, the real 5 attempts |
| `period_skipped` | PROJECT_PLAN: one report per intended period | 2 slots a day, 4 slots |
| `call_sync` | is every call stored once, linked rightly and settled | 2 calls, 1 lead, 1 of each: failure, crash, correction, rematch, closing |
| `retry_not_duplicate` | comment of 0005: an unchanged retry writes nothing | as above, no crash |
| `lead_updates` | are updates applied once, as seen, with true answers, and do they settle | 2 updates, one of them with a follow-up (`OneDated`), 1 manager's follow-up, 2 dates, 2 members in 2 teams, 2 desk steps, 1 crash, 1 closing |
| `back_office` | do imports, the tab, the keys and the in-memory repository's sessions stand the interleavings they meet (four parts that share no state) | *desk*: 2 requests, 2 leads, 1 upset, 1 move; *bulk*: 2 jobs of 2 files sharing 3 numbers, batches of 2, 2 commits asked per job, 1 run, 2 desk steps (`OneChange`); *keys*: 2 servers, 1 tool, 2 rows, pages of 1, 2 versions of either key; *phones*: 1 phone, 2 codes, 6 requests with 1 policy or 4 with 2, 1 waiting call |

**Why the bounds are enough.** Each lets the case a property is about happen, and the mutants show it: with each bound
as given, the slip listed for the property is found. Four request ids give redeem, activate and either a complete
rotation, a renewal or a re-pairing. Two policies give every stale consent; the third is needed only for a rollover
during a rollover. One request on the wire at a time is the client's own discipline plus one late copy; the formulas of
`phone_protocol` were also checked with two (7.9 million states), which takes too long to be repeated each time. Two
calls are what ordering, shared batches and last contact need; two updates what a replay against a later update needs;
two desk steps put a step of a manager on either side of an execution. Retry limits are reached in every run that has
them. Where a theorem exists (section 5), no bound matters.

In `device_trust` the state constraint `OneByOne` keeps the product of its bounds away: what needs two requests in
flight needs one phone, and what needs two phones, employees or codes is about whole transactions. In `back_office`: two
requests and one upset (a crash, a failed fetch or append, another person's change, a changed role), with one move of
the user, put an answer in every order against a change and a fetch; a third kind of event would be a repetition of the
two. Two files of four and two rows with batches of two make a job need two commits and let the other job's come
between; three versions of a key would only repeat the second rotation; a page of one row makes every boundary of the
paging happen between two rows. A manager's edit changes one thing about a lead, a new lead has one number, and the
number written is one of both files (`OneChange`), which the rows of either job meet; the other desk step is then one on
a rule or a person, or restores a lead (`OneEdit`). Of two requests of the tab one is an update, which meets every other
route, or both are of one route (`OneRoute`). Six request ids give one phone a redemption, an activation, two rotations
prepared and both confirmed; request ids and codes are drawn in order because they are interchangeable (`FreshIds`), and
the last id is kept for a code or a confirmation; two policies meet what four ids can do, six ids one policy. One
waiting call meets every other step, since every method is a step; two waiting calls were checked aside with five ids
and one code.

In `report_workers` links and jobs are kept apart in the same way: a link is of one job, and jobs meet at the workers only.
In `lead_updates` either update may be the one with a follow-up, and a manager plans another, which may be due earlier or
later: two due dates are what a minimum needs.

`back_office` has four parts in one run because they ask one question of four parts of the server and are small; the
initial state says which is played, and the others stand still.

**Deadlock** is checked everywhere but in the runs of `DeviceTrust` and `MobileProtocol`, which stop when their bounded
ids and policies are used up and nothing is under way, and in `back_office`, whose tab, jobs and phones do the same.

**Fairness.** Safety runs assume none, apart from the two that also check liveness. `LeadWork`: weak fairness of the
worker, because WorkManager keeps a periodic tick (`SyncTickWorker`, every fifteen minutes) that starts it, and of the
end of a delay; the network owes nothing, since a timeout ends a wait. `CallSync`: the same, of the write-behind, and of
the execution of a request that was sent. `MobileProtocol` (`rollover_wedge` only): coroutines run on, the mutex is granted in turn
(strong fairness: it is a fair `Mutex`), the employee keeps looking and pressing retry, a fetch that can be answered
again and again is answered; the wedge exists in spite of it. `ReportJobs` (`email_never_settles` only): a running worker
takes its next step, a supervisor restarts a dead one, a delay ends.

## 4. Findings

1. **`withdrawal_lost`** – `revokeAndWithdrawConsent` journals REVOKE_PENDING without `collectionMutex`. A worker that has
   just been told CONSENT_REQUIRED overwrites the entry; if the process then dies, the next launch sees the revocation
   marker without the journal entry, purges locally and never sends the request. `apps/android/README.md:38` promises
   the contrary.
2. **`backfill_race`** – a worker that decided on the journal's phase resets the scan checkpoint after the view model has
   stored the new one and opened the gate: the next run reads the whole call log (`apps/android/README.md:35`).
3. **`rollover_wedge`** – a policy named by a directive and replaced before it is fetched is fetched for ever
   (`docs/PHASE_3C_HANDOFF.md:24`).
4. **`email_never_settles`** – `delivered()` binds the provider's message id to `delivered_at=$4::timestamptz`,
   `suppress()` has a parameter it never mentions: both statements fail, so a sent message is sent again up to five
   times, and the fifth ends the worker process and leaves the row in processing (`docs/PHASE_5D_HANDOFF.md:31`).
5. **`period_skipped`** – the period key is that of the tick, not of the run that was due: a tick delayed past midnight
   takes the next day's slot (`docs/PROJECT_PLAN.md:268`).
6. **`retry_not_duplicate`** – since 0011 the upsert compares `ingest_batch_id`, so an unchanged call in another batch is
   written, announced and linked again, also when a manager had removed its link
   (`migrations/0005_atomic_call_ingest.sql:71`).

Two facts beside them that the passing runs make precise: a job or an e-mail claimed by a worker that dies is never
claimed again (`StrandedByCrashOnly` says that nothing else strands one), and the report lease never expires in effect.

Facts met while modelling, not findings of a run:

* The comment at *repository* 3098-3099 says that other jobs recompute their owners when a rule's version has moved;
  2898-2911 make their rows invalid instead. `PgRow` does what the code does; the dashboard then shows them as errors.
* The active key of a ring must be its highest version, so while a new ring is rolled out the servers that lack it cannot
  open what the others write. A stale retry of a call after the blind-index key changed raises 40001, which fails its
  whole batch.
* Leads and import rows are sealed with the same keyring and never sealed anew (*repository* 727): once retired keys are
  removed they open no more. Calls matched under a new blind-index key do not find leads of the old one (1206).
* `docs/PHASE_5D_HANDOFF.md:22` says that redeemed jobs cannot mint replacement grants. A mint that waits for the job's row
  behind a redemption does (*repository* 4198, `MintLink`): it goes on with its old snapshot, for the redemption only
  locks the row. What it grants opens nothing, as `OpenedByLastLink` says: the next redemption sees the first, or meets
  the unique key.
* The trust of a phone is looked at before the ledger of its updates (*repository* 3705): the retry of an applied update
  whose phone loses its trust at that moment is answered "not found" and shown as rejected.
* A manager may give a lead a number that another lead of the team has: `updateLead` and `createLead` look nothing up.
* No audit record follows the routes of API keys, recordings, report views, schedules and exports. One that fails or is
  cut off by a crash is lost, although its change has committed (*app* 854); creating a lead or a note again after that
  makes a second one.
* The import panel shows the last preview that was answered: one of a first file, answered late, is shown, and committed,
  beside a second file.

Properties that were tried and dropped because they are not the code's: that a revoked phone is empty at once (the erasure
takes steps; `RevokedMeansPurged` is what holds), and that no session survives on the server when the phone has lost its
vault (it may; the employee re-pairs and the server then revokes it).

## 5. The proofs

TLC checks the small instance, TLAPS the theorem for any sets and bounds. Assumptions are those of the modules
(`ConstantsDistinct`, `BoundsAreNat`, `SchedulesFinite`, `ParametersAreNat`, `PeopleAndDates`, `CallsAreNumbered`,
`KeyBounds`, …): distinct nulls, natural bounds, finite sets where a minimum, a maximum or a cardinality is taken. Two of
them were found by proving. `KeyBounds` says that the table is finite and no row is numbered 0,
which stands for the null `afterId` of a verification's start: a row 0 would count as seen from the beginning.
`DeskBounds` says that what the dashboard sends has a route. Every inductive invariant was checked by TLC on the
instance of its run before it was proved.

**`DeviceTrust_proofs`.** `OneLiveCredential` is not inductive: a confirmation activates a pending session while its source
is active, so one must know that the pending one's source *is* the active one of the same phone
(`PendingKeepsItsSource`), that consent follows the session (`ConsentIffSession`), that credentials exist exactly where
the ledger has a request that proposed them (`CredentialShape`), and that a request in flight is bound to an existing
credential (`InflightShape`). Their conjunction with the types is `TrustInv`, which `device_trust` checks and
`TrustStep` proves inductive, with one lemma per transaction. From it: `CredentialsExclusive`, `RotationHasSource`,
`ConsentMatchesSession`, and the action property `RetirementIsFinal`. Two smaller invariants stand on it. `StatusInv` adds
that an open code names an employee and that the phones of a suspended employee are revoked; it gives `StatusIsHonest`
and, step by step, `SuspensionHolds` and `RevocationHolds`: whatever was authenticated before a suspension, the
transaction that commits after it looks again. `LedgerInv` adds that the bearer of a recorded request is in the ledger
too; that each request had its effect once (`LedgerIsTrue`) then follows from `RetirementIsFinal`, since the credential
that a request uses up cannot be used again.

**`MobileProtocol_proofs`.** Five invariants, each inductive next to the ones before it. `Shape`: which fields the journal of each phase
holds (`Resumable`), which phases each step of an operation can meet (`Fits`), the server's types; `JournalsResume` is part of it.
`SentInv` is about everything that was ever sent: requests on the wire, in the ledger, in the journal, in the view model's hands
(`AllSent`) agree wherever they share an id (`OneRequestPerId`); ids were drawn, credentials are in the ledger before they are
named, and an operation past its answer finds its request recorded (`Recognized`). A request is a function of the ledger
(`Sent(l, j)`), and does not change when the ledger grows (`SentStable`), so a resumed journal sends what it sent before:
`RetriesAreIdempotent`. `EraseInv`: what each stage of the two erasures and of a withdrawal has already purged, and that
the worker is off, or erasing too, while the view model erases; hence `ErasedWhenRevoked`. `GateInv`: all credentials held anywhere on the
phone that the server knows are of one phone (`OnePhone`), an enrolment in progress holds none but its own
(`Redeeming`, by `EraseInv`), and a consent kept in the journal is one that the ledger holds for that phone (`ConsentsAccepted`). The step that matters is
the server's: a proposed secret becomes known only by the request that proposed it, which another credential of the phone
authenticated, unless it is the phone's first (`Newcomer`). `CollectsOnRecordedConsent` follows.
`QueueInv` is about receipts and the queue. The server's receipt of a phone may move to a newer policy, or be withdrawn, at any moment, so "the
rows are of the receipt" is not inductive. What is: whatever is queued, about to be queued, or vouched for by a journal
that may let the worker collect (`Covers`) is under a policy `u` such that the receipt is `u` or none, and no acceptance on the wire or in
a journal asks for a policy later than `u` (`ConsentsAgree`). It holds because the phone journals a new acceptance only when
it has stopped and purged (`StillInv`: the two fetches of a policy come after the purge, and the gate stays closed between
them), an enrolment starts with an empty queue (`EnrolsWithNothing`), and the server records only the policy in force, which
none asked for is ahead of (`Published`). `UploadsUnderTheConsentHeld` follows: an accepted upload is of the phone's own rows, collected under the policy
in force.

**`CallSync_proofs`.** `SyncInv` = types and six parts. `FlightInv`: the rows in flight while the worker waits are those of
its batch (there are none when a batch is built), and it never works behind a closed gate. `StampedOnce`: a call is given its
creation time once. This is the heart of it, for a row may be pruned or purged and its call read again from the log: a
stamped call without a row is behind the checkpoint *on disk*, which no crash takes back, or older than a renewed consent.
`SameBytes`: hence the calls of a request determine its bytes, in the queue, on the wire and in the registered batches, and no
batch id is seen with two payloads (`BatchIdNamesOnePayload`). `ServerHas`: registered batches are stored, an
acknowledgement stands for one, and so does a synced row (`AcknowledgedIsStored`). `IngestedOnce` and `LastContactAgrees` are
inductive next to these; the latter because the greatest of a union is the greatest of its parts' (`MaxOfUnion`), whatever
the order of ingestion, and because a correction recomputes it for both leads. The action properties `NoCallIsSkipped`
(what is read of the log is a prefix of the unread, `EarliestIsPrefix`) and `ManagerHasTheLastWord` follow from the
same invariant.

**`LeadWork_proofs`.** `LeadWorkInv` = types, `OneActiveRow`, `LedgerAgrees` (what is applied is in the ledger, what is in
the ledger was sent, what was sent was composed), `SeenVersions` (a version on a screen or in a command was the lead's,
and while it still is, the lead is the employee's), `OutcomesAgree`. The core of the argument is that versions only
grow: an update refused for its version, or for a lead no longer the employee's, is `Refused` – its version is behind –
and stays so, hence no late copy applies it; one in the ledger is answered from there for as long as the phone is trusted.
A "not found" may also mean that the trust has gone, and the trust may not come back while that answer is under way,
since it ends with the gate: so "not found" while trusted is a refusal. `RefusalsAreTrue` and
`SyncedWasApplied` follow from the invariant; `AppliedOnlyAsSeen` is inductive next to it. `NextDueIsEarliest` adds
that nothing pending is due at 0 and rests on `MinIsLeast` (well-foundedness of `<`) and `EarlierIsNextDue`: lowering
the stored minimum by one new date equals recomputing it.

**`ReportJobs_proofs`.** `ReportInv` = types, `WorkersHoldTheirJobs` (the row a worker works on is its own, however many
claim), `RowsConsistent`. From it `AnnouncedStaysReady`, `PeriodReportedOnce`. `LastLinkOpens` adds that tokens are numbered as
they are drawn, so that none is drawn twice and the link of a job is not among those it has replaced; it uses nothing
of what a mint sees of the redemptions, which may be stale. `CrashesBoundStranded` counts:
no step but a crash adds to the jobs in processing that no live worker holds, and a crash adds one, that of its worker.

**`StaffDesk_proofs`** (of `Gateway` too). `GateInv` = types, `EffectsAgree` (what a request at each stage has left behind),
`OneEffectPerKey`, `ReadsAgree` (what a request has read of a lead is not ahead of it), `TrailAgrees`; `TrailTellsTruth` is
its consequence: a record names a change that took place, with the versions before and after it, and an answered change
has its record (`Effective`: a run of the rules that assigned no lead is none). The dashboard's steps are steps of the gateway or leave it alone. `DeskShape` = the tab's types, `Spinners`,
`HoldsNoFuture` (list, cache and panel hold no version the server does not have) and `DetailFollows` (the detail asked for is
that of the selected lead, and not older than what the tab was told once it is read). From these `SpinnersTellTruth`
and `PanelIsFresh`, in whichever order answers arrive.

**`BackOffice_proofs`** holds two arguments. *Keys* (`CallPii`): that every sealed call opens with the newest ring (`KeysKeptLongEnough`) is not inductive: it must
also be known what the servers and the tool's processes with older rings may still write (`RingsServe`), that no key
goes while there are rows in plain text that an older process is about to seal (`PlainKeepsKeys`), and what a
verification with the newest ring, once all servers have it, has seen (`VerifiedIsFresh`): all rows behind its page are
sealed under the active keys, and servers with that ring keep them so. The pages
need counting: a short page is the last one (`ShortPage`), a full one moves the mark (`FullPage`).

*Sessions in memory* (`MemTrust`): `RepositoryChainsSessions` is a refinement, `TrustSpec => Chain!ChainSpec`: the in-memory repository,
which has no unique index and no ledger table, still gives each phone one session with standing at a time. `ChainInv` = types,
`UnusedIsNone`, `OneStanding`, `StandingIsServed` (a session with standing is that of a connected phone of an active
employee) and `PendingHasSource` (a prepared token knows the session it will replace, and dies with it). Each operation is then
a `Hand`, a `Take`, a `Store` or a stutter of `SessionChain`.

**`LeadOps_proofs`.** What a staging, a commit and a run of the rules compute is a loop over the rows of a file or the
leads of the book, of any length; the model writes each as a function of the position (`Staged`, `Committed`,
`Planned`). That such a function exists is itself shown (`StagedLoop`, `CommittedLoop`, `PlannedLoop`), and what holds at
0 and is carried from each position to the next holds at the end (`UpTo`: the numbers where it fails would have a least
one). The loop invariants are `StageAcc`, `CommitAcc` and `PlanAcc`: for a commit, that rows keep what they were staged
with (`Follows`), that leads are only added, each of a valid row and with an eligible owner (`Grows`), that an imported row and
its lead name each other (`NamesOneAnother`), with the row's number unless the lead was handled, that what each rule gave are its next turns (`TurnsTaken`), and that no
two leads as staged share a number in a team (`NoTwo`), whatever number is given to a lead that then no longer counts. `OpsInv` is what they need at the start: `ImportInv`,
`NoNumberTwice` and `TurnsRotate` with `RulesSound` (distinct members, an uncreated rule gave nothing), `RowsSound` (a valid row
has a team, an unstaged job no rows), `FromRows` (a lead's row exists) and `CursorFollows` (a turning rule's cursor is one
past the member who had the last turn, which is why an edit of the members must forget the turns and nothing else
may). TLC found `OpsInv` to hold on the instance of `back_office` before it was proved. From it: `ImportsAccounted`,
`NumbersOnce`, `TurnsInOrder`; step by step `GivenToTheTeam`; and `RowsOnce`, the refinement of `ExactlyOnce`: the effects of a
row are 1 if it says "imported" and 0 otherwise (`EffectIs`), and a settled row keeps its decision (`SettledStay`).

The proofs assume of the constants what `OpsNulls`, `OpsSets` and `OpsBounds` say: rules are natural numbers (their
priorities), rules, jobs and employees are finitely many, a file is a sequence of parsed rows, and a batch is not empty.

**Only model-checked.** Liveness (`QueuedUpdateSettles`, `QueuedCallSettles`, and the refuted ones): fairness and ENABLED
are beyond the prover. Every safety property of the passing runs is proved.

## 6. What is not modelled, and why

* *Recordings, outbox, rate limits*: planned, see below. The hazard of recordings is `recording-service.ts:30`: the
  object store is awaited and the recording then made available, so a deletion meanwhile is undone. That of the outbox is
  at *repository* 5874, a late acknowledgement after a lease was taken over, but no dispatcher is in the repository.
* *Row locks and lock order*: server actions are whole transactions. The known cycles (re-pairing locks the device
  before the employee; a lead update locks the employee before the lead, an edit the other way round) end in a
  PostgreSQL deadlock error and a retry.
* *The rest of the in-memory repository* (leads, links, reports): their PostgreSQL versions are modelled. *The rest of the
  web client*: in `useDashboardData` a load in flight may put back what an optimistic revocation removed until the next
  load; there is nothing else that outlives a request. *Analytics, renderers, contracts, HTTP parsing, RBAC tables, API
  keys and billing, schema tooling, iOS client*: pure functions, formatting, CRUD or I/O.
* *Cryptography, tokens, hashes*: secrets are names; a digest names its input.

Hazards seen and not in PROJECT.json's list, for later work: a withdrawal's 401 that only the screen reports;
`apply()`ed preferences lost by a crash; a redemption that commits before its artifact is read; a batch refused whole
when it is thirty days old; the gate closing inside a run of lead updates; an unreadable receipt of an applied update
shown as rejected; a phone whose clock runs ahead (denied, then served: why `RefusalIsTrue` leaves "denied" out); a
call that moves the version of the lead whose update it prompted; a shorter call hidden behind a longer one that
started before the scan's checkpoint (`VariantCallLogSource`); a lead that a follow-up's foreign key keeps in its team
(0014:314); the limiter's capacity of 4096 buckets and its window edge; an e-mail queued before its preference was
switched off.

## 7. The plan

Order of the work, most important behaviour first. Done: 1-9.

1. `DeviceTrust`: types and `TrustInv` proved, one run.
2. `MobileProtocol`: composition with `DeviceTrust`, one passing and three violating runs.
3. `ReportJobs`: with e-mail and links, three runs, five theorems.
4. `CallSync`: queue, ingestion and links, two runs.
5. `LeadWork`: queue and CRM, one run, five theorems.
6. `LeadOps` with `ExactlyOnce`: imports and rules, the refinement checked.
7. `Gateway` and `StaffDesk`: the dashboard's requests and the lead workspace.
8. `CallPii`; `MemTrust` with `SessionChain`, the refinement checked.
9. Proofs of `DeviceTrust`, `MobileProtocol`, `LeadWork`, `ReportJobs`, `CallSync`, `Gateway` and `StaffDesk`, `CallPii`,
   `LeadOps`, and of the refinements of `SessionChain` by `MemTrust` and of `ExactlyOnce` by `LeadOps`.
10. `Recordings`: upload, completion, transcript and deletion across awaits; `Runtime`: outbox claims and leases, the
    limiter's windows.

Considered and left out: `ExactlyOnce` as a contract of `CallSync`'s ingestion and of `LeadWork`'s ledger too. There it
would say no more than `IngestedOnce`, and than `LedgerAgrees` with `AppliedAsSeen`, which are proved.
