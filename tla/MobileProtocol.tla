---------------------------- MODULE MobileProtocol -----------------------------
(***************************************************************************)
(* The Android client of device trust, composed with the server of         *)
(* DeviceTrust.  Three actors share the phone's storage: the view model,   *)
(* which runs one protocol operation at a time under protocolMutex; a      *)
(* background worker, which owns collectionMutex while it runs; and the    *)
(* process, which may die at any step and takes both with it.              *)
(*                                                                         *)
(* The encrypted journal, the credential vault and the preferences are     *)
(* three files.  Each of their synchronous commits is a step of its own:   *)
(* a step is what cannot be split by a crash or seen half done by the      *)
(* other actor.  The view model takes collectionMutex only to purge, so    *)
(* its other writes interleave with a running worker.                      *)
(*                                                                         *)
(* The server answers a request in one step here (DeviceTrust splits it);  *)
(* what the network adds is that a request may be served after its sender  *)
(* gave up, and that an answer may be lost.  One employee; suspension,     *)
(* policy retirement and expiry of codes are left to DeviceTrust.          *)
(***************************************************************************)
EXTENDS DeviceTrust

CONSTANT MaxWire          \* bound: requests sent and not yet served

VARIABLES
  journal,    \* SecureProtocolVault
  vault,      \* SecureCredentialVault: a session, named by its proposing request
  prefs,      \* AppPreferences
  rows,       \* queued calls: whose phone, under which consent, read from which checkpoint
  ui,         \* the view model's operation: where it is, the journal it holds
  stage,      \* the screen shown: OnboardingSnapshot.stage at the last refresh
  worker,     \* CallSyncWorker: where it is, the session and the directive it holds,
              \* and (history) the consent it found
  wire,       \* requests sent and not yet served
  drawn,      \* request ids generated so far
  withdrawn   \* history: the session the employee asked to withdraw last

phoneVars  == <<journal, vault, prefs, rows, ui, stage, worker, drawn, withdrawn>>
serverVars == <<dbVars, inflight>>
allVars    == <<serverVars, phoneVars, wire>>

Mutations == {"REDEEM_PENDING", "ACTIVATION_PENDING", "ACTIVATION_POLICY_PENDING",
              "RECONSENT_PENDING", "ROTATION_PREPARE_PENDING",
              "ROTATION_CONFIRM_PENDING", "REVOKE_PENDING"}
PolicyPending == {"ACTIVATION_POLICY_PENDING", "RECONSENT_POLICY_PENDING"}
ConsentPhases == {"RECONSENT_POLICY_PENDING", "RECONSENT_READY", "RECONSENT_PENDING"}
Phases == Mutations \cup ConsentPhases \cup {"IDLE", "DISCLOSURE_READY"}

\* MobileProtocolState.  boot and prop name the proposed secrets, op is the
\* credential snapshot of the operation, consent the policy of the receipt;
\* collectionStartsAt is the moment of that consent.  0 and No... are null.
Journal == [phase : Phases, req : Ids \cup {NoId}, boot : Ids \cup {NoId},
            prop : Ids \cup {NoId}, op : Ids \cup {NoId}, code : Codes \cup {NoCode},
            dev : Devices \cup {NoDevice}, policy : 0..MaxPolicy,
            expected : 0..MaxPolicy, consent : 0..MaxPolicy]
Blank == [phase |-> "IDLE", req |-> NoId, boot |-> NoId, prop |-> NoId, op |-> NoId,
          code |-> NoCode, dev |-> NoDevice, policy |-> 0, expected |-> 0, consent |-> 0]

UiLabels == {"off", "idle", "refresh", "await", "ok", "stale", "fetch", "close", "purge",
             "closeR", "purgeR", "vaulted", "clear", "idling", "open", "revJ", "revE",
             "wipe", "wipeJ", "wipeD", "wiped", "redeem"}
WorkerLabels == {"off", "beat", "scan", "enqueue", "upload", "last", "demand", "close",
                 "closeR", "purge", "reset", "policy", "wipe", "wipeV", "wipeJ", "wipeD", "wipeE"}
Stages == {"PAIRING", "POLICY_LOADING", "DISCLOSURE", "ACTIVATING", "RECOVERING",
           "READY", "REVOKED", "REVOKING"}

\* since: the policy whose acceptance is the scan checkpoint, 0 = all history.
PhoneTypeOK ==
  /\ journal \in Journal
  /\ vault \in Ids \cup {NoId}
  /\ prefs \in [accepted : BOOLEAN, stale : BOOLEAN, revoked : BOOLEAN,
                pending : BOOLEAN, since : 0..MaxPolicy]
  /\ rows \subseteq [dev : Devices, under : 0..MaxPolicy, since : 0..MaxPolicy]
  /\ ui \in [at : UiLabels, j : Journal, then : {"idle", "boot", "resume", "repair", "pair", "reset"}]
  /\ stage \in Stages
  /\ worker \in [at : WorkerLabels, cred : Ids \cup {NoId}, under : 0..MaxPolicy,
                 expected : 0..MaxPolicy, since : 0..MaxPolicy, then : {"off", "policy"}]
  /\ wire \subseteq Call
  /\ drawn \subseteq Ids
  /\ withdrawn \in Ids \cup {NoId}

NoWorker == [at |-> "off", cred |-> NoId, under |-> 0, expected |-> 0, since |-> 0, then |-> "off"]
NoUi     == [at |-> "off", j |-> Blank, then |-> "idle"]
\* UUIDs: which of the unused ones is drawn is immaterial.
AnyOf(S) == IF S = {} THEN {} ELSE {CHOOSE x \in S : TRUE}
Fresh  == AnyOf(Ids \ drawn)
\* The phone under its new installation id, which no server row knows yet.
NewPhone == AnyOf({d \in Devices : owner[d] = NoEmployee /\ \A m \in wire : m.device # d})

PhoneInit ==
  /\ Init /\ \E e \in Employees : empStatus[e] = "active"
  /\ journal = Blank
  /\ vault = NoId
  /\ prefs = [accepted |-> FALSE, stale |-> FALSE, revoked |-> FALSE, pending |-> FALSE, since |-> 0]
  /\ rows = {}
  /\ ui = NoUi
  /\ stage = "PAIRING"
  /\ worker = NoWorker
  /\ wire = {}
  /\ drawn = {}
  /\ withdrawn = NoId

-------------------------------------------------------------------------------
(* What the phone reads.                                                      *)

ValidSession  == vault # NoId /\ ~expired[vault]
LocalConsent  == journal.phase = "IDLE" /\ journal.policy # 0 /\ journal.consent # 0
GateOpen      == LocalConsent /\ prefs.accepted /\ ~prefs.stale /\ ~prefs.revoked
UiHoldsMutex  == ui.at \in {"wipeJ", "wipeD"}
MutexFree     == worker.at = "off" /\ ~UiHoldsMutex

\* ProtocolRecoveryPlanner.requiresLocalRevocationPurge
RequiresPurge ==
  \/ vault = NoId /\ journal.phase = "REVOKE_PENDING" /\ journal.op = NoId
  \/ prefs.pending /\ journal.phase # "REVOKE_PENDING"

StageNow ==
  CASE prefs.revoked /\ (prefs.pending \/ journal.phase = "REVOKE_PENDING") -> "REVOKING"
    [] prefs.revoked -> "REVOKED"
    [] journal.phase \in PolicyPending -> "POLICY_LOADING"
    [] journal.phase = "ACTIVATION_PENDING" -> "ACTIVATING"
    [] ~ValidSession /\ journal.policy = 0 -> "PAIRING"
    [] journal.policy = 0 \/ ~prefs.accepted \/ prefs.stale
         \/ journal.phase \in ConsentPhases -> "DISCLOSURE"
    [] ~ValidSession -> "PAIRING"
    [] journal.phase # "IDLE" -> "RECOVERING"
    [] OTHER -> "READY"

\* Groups of preference writes; every group ends in a synchronous commit.
Closed(p)          == [p EXCEPT !.accepted = FALSE, !.stale = TRUE]
ClosedForRevoke(p) == [Closed(p) EXCEPT !.revoked = TRUE, !.pending = TRUE]
Opened(p, c)       == [accepted |-> TRUE, stale |-> FALSE, revoked |-> FALSE,
                       pending |-> FALSE, since |-> c]

\* The consent receipt and the bearer of an operation, and the request a journal
\* phase stands for.
\* Mutant: the receipt is made out again for the policy now in force.
Receipt_Now(j) == policy
Receipt(j) == j.consent
Bearer(j) == IF j.op # NoId THEN j.op ELSE vault
Request(j) ==
  CASE j.phase = "REDEEM_PENDING"     -> RedeemCall(j.req, j.code, j.dev)
    [] j.phase = "ACTIVATION_PENDING" -> AuthCall("activate", j.req, j.boot, Receipt(j))
    [] j.phase = "RECONSENT_PENDING"  -> AuthCall("reconsent", j.req, Bearer(j), Receipt(j))
    [] j.phase = "ROTATION_PREPARE_PENDING" -> AuthCall("prepare", j.req, j.op, 0)
    [] j.phase = "ROTATION_CONFIRM_PENDING" -> AuthCall("confirm", j.req, j.prop, 0)
    [] j.phase = "REVOKE_PENDING"     -> AuthCall("revoke", j.req, j.op, 0)

\* Mutant: the journal leaves the session to the vault.
Preflight_FromVault(c) == [Blank EXCEPT !.phase = "RECONSENT_POLICY_PENDING"]
Preflight(c) == [Blank EXCEPT !.phase = "RECONSENT_POLICY_PENDING", !.op = c]
ToIdle(j)    == [Blank EXCEPT !.policy = j.policy, !.consent = j.consent]

-------------------------------------------------------------------------------
(* The view model.  Each operation is begun by a tap (or at launch), holds    *)
(* protocolMutex to its end, and ends in a refresh.                           *)

Goto(at)     == ui' = [ui EXCEPT !.at = at]
GoWith(at, j) == ui' = [at |-> at, j |-> j, then |-> "idle"]
Done         == ui' = [NoUi EXCEPT !.at = "refresh"]
Send(j)      == /\ GoWith("await", j)
                /\ wire' = wire \cup {Request(j)}
                /\ Cardinality(wire') <= MaxWire
Draw(n)      == drawn' = drawn \cup {n}

\* resumeProtocol: REVOKE_PENDING and the policy fetches close the gate first.
Resume(j) ==
  CASE j.phase \in PolicyPending -> GoWith("close", j) /\ UNCHANGED wire
    [] j.phase = "REVOKE_PENDING" -> GoWith("closeR", j) /\ UNCHANGED wire
    [] OTHER -> Send(j)

\* init: finish a purge, or repair a session without an acknowledged policy, or
\* refresh; then resume what the journal holds.
Launch ==
  /\ ui.at = "off"
  /\ IF RequiresPurge
     THEN /\ prefs' = ClosedForRevoke(prefs)
          /\ ui' = [at |-> "wipe", j |-> Blank, then |-> "repair"]
          /\ UNCHANGED journal
     ELSE IF vault # NoId /\ journal.phase = "IDLE" /\ ~LocalConsent
     THEN /\ journal' = Preflight(vault)
          /\ ui' = [at |-> "close", j |-> Preflight(vault), then |-> "boot"]
          /\ UNCHANGED prefs
     ELSE /\ ui' = [at |-> "refresh", j |-> journal, then |-> "resume"]
          /\ UNCHANGED <<journal, prefs>>
  /\ UNCHANGED <<serverVars, vault, rows, stage, worker, wire, drawn, withdrawn>>

\* refreshNow reopens a gate that a crash left closed after the acknowledgement.
Reopens == LocalConsent /\ vault # NoId /\ ~prefs.revoked /\ (~prefs.accepted \/ prefs.stale)
Refresh ==
  /\ ui.at = "refresh"
  /\ prefs' = IF Reopens THEN Opened(prefs, journal.consent) ELSE prefs
  /\ IF ui.then = "resume" /\ ui.j.phase \in Mutations \cup PolicyPending
     THEN Resume(ui.j)
     ELSE ui' = [NoUi EXCEPT !.at = "idle"] /\ UNCHANGED wire
  /\ UNCHANGED <<serverVars, journal, vault, rows, worker, drawn, withdrawn>>
  /\ stage' = StageNow'

Idle(st) == ui.at = "idle" /\ stage \in st
NoStorageChange == UNCHANGED <<journal, vault, prefs, rows>>

\* pairAndFetchPolicy: the same pending code is retried, any other starts afresh.
PairSame ==
  /\ Idle({"PAIRING"})
  /\ journal.phase = "REDEEM_PENDING"
  /\ Send(journal)
  /\ NoStorageChange /\ UNCHANGED <<serverVars, stage, worker, drawn, withdrawn>>
PairFresh(k) ==
  /\ Idle({"PAIRING"})
  /\ ~(journal.phase = "REDEEM_PENDING" /\ journal.code = k)
  /\ ui' = [at |-> "wipe", j |-> [Blank EXCEPT !.code = k], then |-> "pair"]
  /\ NoStorageChange /\ UNCHANGED <<serverVars, stage, worker, wire, drawn, withdrawn>>

\* retryPolicyFetch and retrySecureRecovery; on another phase they only report.
Retry ==
  /\ \/ Idle({"POLICY_LOADING"}) /\ journal.phase \in PolicyPending
     \/ Idle({"RECOVERING"}) /\ journal.phase \in Mutations
  /\ Resume(journal)
  /\ NoStorageChange /\ UNCHANGED <<serverVars, stage, worker, drawn, withdrawn>>

\* acceptPolicyAndContinue: the click is journaled before the request, or the
\* journaled request is sent again.
Accept ==
  /\ Idle({"DISCLOSURE", "ACTIVATING"})
  /\ \/ /\ journal.phase \in {"DISCLOSURE_READY", "RECONSENT_READY"}
        /\ \E n \in Fresh :
             LET j == [journal EXCEPT !.req = n, !.consent = journal.policy] IN
             /\ Draw(n)
             /\ journal' = IF journal.phase = "DISCLOSURE_READY"
                           THEN [j EXCEPT !.phase = "ACTIVATION_PENDING", !.prop = n]
                           ELSE [j EXCEPT !.phase = "RECONSENT_PENDING"]
        /\ Send(journal')
     \/ /\ journal.phase \in {"ACTIVATION_PENDING", "RECONSENT_PENDING"}
        /\ Send(journal) /\ UNCHANGED <<journal, drawn>>
  /\ withdrawn' = IF journal' = journal THEN withdrawn ELSE NoId
  /\ UNCHANGED <<serverVars, vault, prefs, rows, stage, worker>>

\* rotateSession journals under collectionMutex, after the worker has finished.
Rotate ==
  /\ Idle({"READY"}) /\ MutexFree
  /\ journal.phase = "IDLE" /\ vault # NoId
  /\ \E n \in Fresh :
       /\ Draw(n)
       /\ journal' = [journal EXCEPT !.phase = "ROTATION_PREPARE_PENDING",
                                     !.req = n, !.prop = n, !.op = vault]
  /\ Send(journal')
  /\ UNCHANGED <<serverVars, vault, prefs, rows, stage, worker, withdrawn>>

\* revokeAndWithdrawConsent journals without the mutex; without a session the
\* withdrawal is local only.
Withdraw ==
  /\ Idle({"READY"})
  /\ IF journal.phase = "REVOKE_PENDING" /\ vault # NoId
     THEN GoWith("closeR", journal) /\ UNCHANGED <<journal, drawn>>
     ELSE \E n \in Fresh :
            /\ Draw(n)
            /\ journal' = [(IF vault = NoId THEN Blank ELSE journal) EXCEPT
                             !.phase = "REVOKE_PENDING", !.req = n, !.op = vault]
            /\ GoWith("closeR", journal')
  /\ withdrawn' = vault
  /\ UNCHANGED <<serverVars, vault, prefs, rows, stage, worker, wire>>

\* retryServerRevocation insists on the journaled request.
RetryRevocation ==
  /\ Idle({"REVOKING"})
  /\ journal.phase = "REVOKE_PENDING" /\ journal.op # NoId
  /\ Send(journal)
  /\ NoStorageChange /\ UNCHANGED <<serverVars, stage, worker, drawn, withdrawn>>

ResetRevokedDevice ==
  /\ Idle({"REVOKED"}) /\ ~prefs.pending
  /\ ui' = [at |-> "wipe", j |-> Blank, then |-> "reset"]
  /\ NoStorageChange /\ UNCHANGED <<serverVars, stage, worker, wire, drawn, withdrawn>>

\* Switching to the call list, and the answer of the permission dialog, refresh.
Look ==
  /\ ui.at = "idle"
  /\ Done
  /\ NoStorageChange /\ UNCHANGED <<serverVars, stage, worker, wire, drawn, withdrawn>>

\* An operation that fails, or times out, is reported; the journal keeps it.
\* Mutant: a request that timed out is taken for served.
GiveUp_TakesForServed ==
  /\ ui.at \in {"await", "fetch"}
  /\ IF ui.at = "await" THEN Goto("ok") ELSE Done
  /\ NoStorageChange /\ UNCHANGED <<serverVars, stage, worker, wire, drawn, withdrawn>>
GiveUp ==
  /\ ui.at \in {"await", "fetch"}
  /\ Done
  /\ NoStorageChange /\ UNCHANGED <<serverVars, stage, worker, wire, drawn, withdrawn>>

\* The server acknowledged the journaled request.
Acknowledged ==
  /\ ui.at = "ok"
  /\ CASE ui.j.phase = "REDEEM_PENDING" ->
            Goto("fetch") /\ UNCHANGED <<journal, vault, wire, drawn>>
       [] ui.j.phase = "ACTIVATION_PENDING" ->
            vault' = ui.j.prop /\ Goto("vaulted") /\ UNCHANGED <<journal, wire, drawn>>
       [] ui.j.phase = "RECONSENT_PENDING" ->
            Goto("clear") /\ UNCHANGED <<journal, vault, wire, drawn>>
       [] ui.j.phase = "ROTATION_PREPARE_PENDING" ->
            \E n \in Fresh :
              /\ Draw(n)
              /\ journal' = [ui.j EXCEPT !.phase = "ROTATION_CONFIRM_PENDING", !.req = n]
              /\ Send(journal')
              /\ UNCHANGED vault
       [] ui.j.phase = "ROTATION_CONFIRM_PENDING" ->
            vault' = ui.j.prop /\ Goto("clear") /\ UNCHANGED <<journal, wire, drawn>>
       [] ui.j.phase = "REVOKE_PENDING" ->
            vault' = NoId /\ Goto("revJ") /\ UNCHANGED <<journal, wire, drawn>>
  /\ UNCHANGED <<serverVars, prefs, rows, stage, worker, withdrawn>>

\* The answer was CONSENT_REQUIRED: recoverFromConsentRequired replaces the
\* journaled request by the fetch of the current policy.
RecoverFromConsentRequired ==
  /\ ui.at = "stale"
  /\ CASE journal.phase = "ACTIVATION_PENDING" ->
            /\ journal' = [journal EXCEPT !.phase = "ACTIVATION_POLICY_PENDING", !.req = NoId,
                             !.policy = 0, !.expected = 0, !.prop = NoId, !.consent = 0, !.op = NoId]
            /\ GoWith("close", journal')
       [] journal.phase \in {"RECONSENT_PENDING", "ROTATION_PREPARE_PENDING"} ->
            /\ journal' = Preflight(Bearer(journal))
            /\ GoWith("close", journal')
       [] OTHER -> Done /\ UNCHANGED journal
  /\ UNCHANGED <<serverVars, vault, prefs, rows, stage, worker, wire, drawn, withdrawn>>

\* performActivation: a new-session preflight before anything can collect.
JournalPreflight ==
  /\ ui.at = "vaulted"
  /\ journal' = Preflight(ui.j.prop)
  /\ Goto("close")
  /\ UNCHANGED <<serverVars, vault, prefs, rows, stage, worker, wire, drawn, withdrawn>>

\* stopCollectionForReconsent, stopCollectionForRevocation
CloseGate ==
  /\ \/ ui.at = "close"  /\ prefs' = Closed(prefs) /\ Goto("purge")
     \/ ui.at = "closeR" /\ prefs' = ClosedForRevoke(prefs) /\ Goto("purgeR")
  /\ UNCHANGED <<serverVars, journal, vault, rows, stage, worker, wire, drawn, withdrawn>>
Purge ==
  /\ MutexFree
  /\ rows' = {} /\ prefs' = [prefs EXCEPT !.since = 0]
  /\ \/ /\ ui.at = "purge"
        /\ IF ui.then = "boot"
           THEN ui' = [ui EXCEPT !.at = "refresh", !.then = "resume"]
           ELSE Goto("fetch")
        /\ UNCHANGED wire
     \/ /\ ui.at = "purgeR"
        /\ IF ui.j.op = NoId THEN Goto("revJ") /\ UNCHANGED wire ELSE Send(ui.j)
  /\ UNCHANGED <<serverVars, journal, vault, stage, worker, drawn, withdrawn>>

\* The policy a GET returns; it fails unless the bearer resolves, a policy is in
\* force and it is the one the directive named.
FetchBearer(j) == CASE j.phase = "ACTIVATION_PENDING" -> j.prop
                    [] j.phase \in ConsentPhases -> Bearer(j)
                    [] OTHER -> j.boot
Served(c, expected) == /\ c # NoId /\ (Resolves(c, "bootstrap") \/ Resolves(c, "session"))
                       /\ inForce /\ expected \in {0, policy}

PolicyFetched ==
  /\ ui.at = "fetch" /\ Served(FetchBearer(ui.j), ui.j.expected)
  /\ CASE ui.j.phase = "REDEEM_PENDING" ->
            /\ journal' = [ui.j EXCEPT !.phase = "DISCLOSURE_READY", !.req = NoId,
                             !.code = NoCode, !.policy = policy]
            /\ Done
       [] ui.j.phase = "ACTIVATION_POLICY_PENDING" ->
            /\ journal' = [ui.j EXCEPT !.phase = "DISCLOSURE_READY", !.policy = policy]
            /\ Done
       [] ui.j.phase = "RECONSENT_POLICY_PENDING" ->
            /\ journal' = [ui.j EXCEPT !.phase = "RECONSENT_READY", !.policy = policy]
            /\ Done
       [] ui.j.phase = "ACTIVATION_PENDING" /\ ui.j.consent # policy ->
            /\ journal' = [Preflight(ui.j.prop) EXCEPT !.phase = "RECONSENT_READY", !.policy = policy]
            /\ Done
       [] OTHER -> Goto("clear") /\ UNCHANGED journal
  /\ UNCHANGED <<serverVars, vault, prefs, rows, stage, worker, wire, drawn, withdrawn>>

\* commitIdleJournal destroys the old journal before it writes the new one;
\* commitAcknowledgedConsent opens the gate last.
ClearJournal ==
  /\ \/ ui.at = "clear" /\ Goto("idling")
     \/ ui.at = "revJ"  /\ Goto("revE")
  /\ journal' = Blank
  /\ UNCHANGED <<serverVars, vault, prefs, rows, stage, worker, wire, drawn, withdrawn>>
WriteIdle ==
  /\ ui.at = "idling"
  /\ journal' = ToIdle(ui.j)
  /\ IF ui.j.phase = "ROTATION_CONFIRM_PENDING" THEN Done ELSE Goto("open")
  /\ UNCHANGED <<serverVars, vault, prefs, rows, stage, worker, wire, drawn, withdrawn>>
OpenGate ==
  /\ ui.at = "open"
  /\ prefs' = Opened(prefs, ui.j.consent)
  /\ Done
  /\ UNCHANGED <<serverVars, journal, vault, rows, stage, worker, wire, drawn, withdrawn>>
FinishRevocation ==
  /\ ui.at = "revE"
  /\ prefs' = [prefs EXCEPT !.stale = FALSE, !.pending = FALSE]
  /\ Done
  /\ UNCHANGED <<serverVars, journal, vault, rows, stage, worker, wire, drawn, withdrawn>>

\* Erasing an identity: vault, journal, then the queue, under collectionMutex;
\* the preferences follow when the mutex is free again.
WipeVault ==
  /\ ui.at = "wipe" /\ MutexFree
  /\ vault' = NoId /\ Goto("wipeJ")
  /\ UNCHANGED <<serverVars, journal, prefs, rows, stage, worker, wire, drawn, withdrawn>>
WipeJournal ==
  /\ ui.at = "wipeJ"
  /\ journal' = Blank /\ Goto("wipeD")
  /\ UNCHANGED <<serverVars, vault, prefs, rows, stage, worker, wire, drawn, withdrawn>>
WipeData ==
  /\ ui.at = "wipeD"
  /\ rows' = {} /\ prefs' = [prefs EXCEPT !.since = 0] /\ Goto("wiped")
  /\ UNCHANGED <<serverVars, journal, vault, stage, worker, wire, drawn, withdrawn>>
ForgetRevocation ==
  /\ ui.at = "wiped"
  /\ \/ /\ ui.then = "repair" /\ Done
        /\ prefs' = [prefs EXCEPT !.stale = FALSE, !.pending = FALSE]
     \/ /\ ui.then = "reset" /\ Done
        /\ prefs' = [prefs EXCEPT !.revoked = FALSE, !.stale = FALSE, !.accepted = FALSE]
     \/ /\ ui.then = "pair" /\ Goto("redeem")
        /\ prefs' = [prefs EXCEPT !.accepted = FALSE, !.stale = FALSE, !.revoked = FALSE,
                                  !.pending = FALSE]
  /\ UNCHANGED <<serverVars, journal, vault, rows, stage, worker, wire, drawn, withdrawn>>
JournalRedeem ==
  /\ ui.at = "redeem"
  /\ \E n \in Fresh, d \in NewPhone :
       /\ Draw(n)
       /\ journal' = [Blank EXCEPT !.phase = "REDEEM_PENDING", !.req = n, !.boot = n,
                                   !.code = ui.j.code, !.dev = d]
  /\ Send(journal')
  /\ withdrawn' = NoId
  /\ UNCHANGED <<serverVars, vault, prefs, rows, stage, worker>>

-------------------------------------------------------------------------------
(* The worker.  It decides on what it read when it started, or on an answer   *)
(* of the server, and writes the journal without reading it again.            *)

WGoto(at)      == worker' = [worker EXCEPT !.at = at]
WorkerRests    == worker' = NoWorker
WorkerOnly     == UNCHANGED <<serverVars, ui, stage, wire, drawn, withdrawn>>
\* Mutant: no marker before the erasure.
Erasing_Unmarked(p) == [p EXCEPT !.revoked = TRUE, !.accepted = FALSE, !.stale = FALSE]
Erasing(p)     == [p EXCEPT !.pending = TRUE, !.revoked = TRUE, !.accepted = FALSE, !.stale = FALSE]

\* performSync up to the first request
WorkerStarts ==
  /\ MutexFree
  /\ LET Begin(at) == worker' = [NoWorker EXCEPT !.at = at, !.cred = vault, !.under = journal.consent]
     IN \/ vault = NoId /\ prefs.accepted /\ Begin("wipe")
        \/ vault # NoId /\ journal.phase \in ConsentPhases /\ Begin("close")
        \/ vault # NoId /\ journal.phase = "REVOKE_PENDING" /\ Begin("closeR")
        \/ vault # NoId /\ journal.phase = "IDLE" /\ ~prefs.stale /\ ~LocalConsent /\ Begin("demand")
        \/ vault # NoId /\ GateOpen /\ Begin(IF expired[vault] THEN "wipe" ELSE "beat")
  /\ NoStorageChange /\ WorkerOnly

\* The server's view of a request of the worker: refused, consent wanted, or served.
Refused(c)      == ~Resolves(c, "session")
WantsConsent(c) == Resolves(c, "session") /\ ~ConsentCurrent(Home(c))

\* The gate is read again before the call log is read, before its rows are
\* stored and before they are uploaded; it may close right after each reading.
GateThen(w) == worker' = IF GateOpen THEN w ELSE NoWorker

\* Heartbeats open and end a run.
Heartbeat ==
  /\ worker.at \in {"beat", "last"}
  /\ \/ Refused(worker.cred) /\ WGoto("wipe")
     \/ /\ WantsConsent(worker.cred) /\ inForce
        /\ worker' = [worker EXCEPT !.at = "demand", !.expected = policy]
     \/ /\ ~Refused(worker.cred) /\ ~(WantsConsent(worker.cred) /\ inForce)
        /\ IF worker.at = "beat" THEN GateThen([worker EXCEPT !.at = "scan"]) ELSE WorkerRests
  /\ NoStorageChange /\ WorkerOnly

Scan ==
  /\ worker.at = "scan"
  /\ GateThen([worker EXCEPT !.at = "enqueue", !.since = prefs.since])
  /\ NoStorageChange /\ WorkerOnly
Enqueue ==
  /\ worker.at = "enqueue"
  /\ rows' = rows \cup {[dev |-> Home(worker.cred), under |-> worker.under, since |-> worker.since]}
  /\ GateThen([worker EXCEPT !.at = "upload"])
  /\ UNCHANGED <<journal, vault, prefs>> /\ WorkerOnly
Upload ==
  /\ worker.at = "upload"
  /\ \/ Refused(worker.cred) /\ WGoto("wipe") /\ UNCHANGED rows
     \/ WantsConsent(worker.cred) /\ WGoto("demand") /\ UNCHANGED rows
     \/ ~Refused(worker.cred) /\ ~WantsConsent(worker.cred) /\ WGoto("last") /\ rows' = {}
  /\ UNCHANGED <<journal, vault, prefs>> /\ WorkerOnly

\* A request fails without an answer, or WorkManager cancels the worker.
WorkerStops ==
  /\ worker.at \in {"beat", "scan", "upload", "last", "policy"}
  /\ WorkerRests
  /\ NoStorageChange /\ WorkerOnly

\* requireFreshConsent
DemandConsent ==
  /\ worker.at = "demand"
  /\ journal' = [Preflight(worker.cred) EXCEPT !.expected = worker.expected]
  /\ worker' = [worker EXCEPT !.at = "close", !.then = "policy"]
  /\ UNCHANGED <<vault, prefs, rows>> /\ WorkerOnly
\* Mutant: a change of consent leaves the queue alone.
WorkerCloses_KeepsQueue ==
  /\ \/ worker.at = "closeR" /\ prefs' = [prefs EXCEPT !.revoked = TRUE, !.pending = TRUE]
        /\ WGoto("close")
     \/ worker.at = "close" /\ prefs' = Closed(prefs) /\ WGoto("purge")
     \/ worker.at = "purge" /\ WGoto("reset") /\ UNCHANGED prefs
     \/ /\ worker.at = "reset" /\ prefs' = [prefs EXCEPT !.since = 0]
        /\ IF worker.then = "policy" THEN WGoto("policy") ELSE WorkerRests
  /\ UNCHANGED <<journal, vault, rows>> /\ WorkerOnly
WorkerCloses ==
  /\ \/ worker.at = "closeR" /\ prefs' = [prefs EXCEPT !.revoked = TRUE, !.pending = TRUE]
        /\ WGoto("close") /\ UNCHANGED rows
     \/ worker.at = "close" /\ prefs' = Closed(prefs) /\ WGoto("purge") /\ UNCHANGED rows
     \/ worker.at = "purge" /\ rows' = {} /\ WGoto("reset") /\ UNCHANGED prefs
     \/ /\ worker.at = "reset" /\ prefs' = [prefs EXCEPT !.since = 0] /\ UNCHANGED rows
        /\ IF worker.then = "policy" THEN WGoto("policy") ELSE WorkerRests
  /\ UNCHANGED <<journal, vault>> /\ WorkerOnly
WorkerFetchesPolicy ==
  /\ worker.at = "policy" /\ Served(worker.cred, worker.expected)
  /\ journal' = [Preflight(worker.cred) EXCEPT !.phase = "RECONSENT_READY",
                   !.expected = worker.expected, !.policy = policy]
  /\ WorkerRests
  /\ UNCHANGED <<vault, prefs, rows>> /\ WorkerOnly

\* revokeLocally and invalidateSessionForRepair: the marker first, the purge last.
WorkerErases ==
  /\ \/ worker.at = "wipe"  /\ prefs' = Erasing(prefs) /\ WGoto("wipeV") /\ UNCHANGED <<journal, vault, rows>>
     \/ worker.at = "wipeV" /\ vault' = NoId    /\ WGoto("wipeJ") /\ UNCHANGED <<journal, prefs, rows>>
     \/ worker.at = "wipeJ" /\ journal' = Blank /\ WGoto("wipeD") /\ UNCHANGED <<vault, prefs, rows>>
     \/ /\ worker.at = "wipeD" /\ rows' = {} /\ prefs' = [prefs EXCEPT !.since = 0]
        /\ WGoto("wipeE") /\ UNCHANGED <<journal, vault>>
     \/ /\ worker.at = "wipeE" /\ prefs' = [prefs EXCEPT !.pending = FALSE]
        /\ WorkerRests /\ UNCHANGED <<journal, vault, rows>>
  /\ WorkerOnly

-------------------------------------------------------------------------------
(* The process, the network and the server.                                   *)

\* The process dies; what was sent may still be served.
Crash ==
  /\ ui.at # "off" \/ worker.at # "off"
  /\ ui' = NoUi /\ WorkerRests
  /\ NoStorageChange /\ UNCHANGED <<serverVars, stage, wire, drawn, withdrawn>>

Lose(m) ==
  /\ m \in wire
  /\ wire' = wire \ {m}
  /\ UNCHANGED <<serverVars, phoneVars>>

\* The answer reaches the view model if it still waits for it, or is lost.
Answered(m, at) ==
  /\ \/ ui.at = "await" /\ Request(ui.j) = m /\ Goto(at)
     \/ UNCHANGED ui
  /\ wire' = wire \ {m}
  /\ UNCHANGED <<inflight, journal, vault, prefs, rows, stage, worker, drawn, withdrawn>>

Recorded(m) == IF m.op = "redeem" THEN ledger[m.req] = m ELSE Replays(m)
Transition(m) ==
  CASE m.op = "redeem"    -> RedeemTx(m)
    [] m.op = "activate"  -> Admitted(m) /\ ActivateTx(m)
    [] m.op = "reconsent" -> Admitted(m) /\ ReconsentTx(m)
    [] m.op = "prepare"   -> Admitted(m) /\ PrepareTx(m)
    [] m.op = "confirm"   -> Admitted(m) /\ ConfirmTx(m)
    [] m.op = "revoke"    -> Admitted(m) /\ RevokeTx(m)
Serve(m) ==
  /\ m \in wire
  /\ \/ Recorded(m) /\ UNCHANGED dbVars
     \/ ~Recorded(m) /\ Transition(m)
  /\ Answered(m, "ok")

\* CONSENT_REQUIRED: the accepted policy was replaced, or the acceptance is more
\* than fifteen minutes old.
ServeStale(m) ==
  /\ m \in wire
  /\ \/ m.op \in {"activate", "reconsent"}
     \/ m.op = "prepare" /\ ~ConsentCurrent(m.device)
  /\ ~Recorded(m) /\ Admitted(m)
  /\ Answered(m, "stale")
  /\ UNCHANGED dbVars

ServerSteps ==
  /\ \/ \E k \in Codes, e \in Employees : CreatePairingCode(k, e)
     \/ PublishPolicy
     \/ \E c \in Ids : ExpireCredential(c)
     \/ \E d \in Devices : AdminRevokeDevice(d)
  /\ UNCHANGED <<phoneVars, wire>>

Taps == \/ PairSame \/ \E k \in Codes : PairFresh(k)
        \/ Retry \/ Accept \/ Rotate \/ Withdraw \/ RetryRevocation \/ ResetRevokedDevice \/ Look
UiSteps == \/ Launch \/ Refresh \/ GiveUp \/ Acknowledged \/ RecoverFromConsentRequired
           \/ JournalPreflight \/ CloseGate \/ Purge \/ PolicyFetched \/ ClearJournal
           \/ WriteIdle \/ OpenGate \/ FinishRevocation \/ WipeVault \/ WipeJournal \/ WipeData
           \/ ForgetRevocation \/ JournalRedeem
WorkerSteps == \/ WorkerStarts \/ Heartbeat \/ Scan \/ Enqueue \/ Upload \/ WorkerStops
               \/ DemandConsent \/ WorkerCloses \/ WorkerFetchesPolicy \/ WorkerErases

PhoneNext ==
  \/ Taps \/ UiSteps \/ WorkerSteps \/ Crash \/ ServerSteps
  \/ \E m \in wire : Serve(m) \/ ServeStale(m) \/ Lose(m)

PhoneSpec == PhoneInit /\ [][PhoneNext]_allVars

\* Fairness, for liveness only: coroutines run on, collectionMutex is granted in
\* turn, the employee keeps looking and pressing retry, and a policy fetch that can
\* be answered time and again is answered.
FairPhoneSpec ==
  /\ PhoneSpec
  /\ WF_allVars(UiSteps) /\ WF_allVars(WorkerSteps)
  /\ SF_allVars(Purge) /\ SF_allVars(WipeVault)
  /\ SF_allVars(Look) /\ SF_allVars(Retry)
  /\ SF_allVars(PolicyFetched) /\ SF_allVars(WorkerFetchesPolicy)

-------------------------------------------------------------------------------
(* What the phone and the server promise together.                            *)

\* Every journal a crash can leave behind is one its phase can be resumed from:
\* no checkNotNull of the perform functions fails on it, and the policy it would
\* accept is the one the directive named.
JournalResumable ==
  LET j == journal IN
  CASE j.phase = "REDEEM_PENDING" -> NoId \notin {j.req, j.boot} /\ j.code # NoCode
    [] j.phase = "ACTIVATION_PENDING" ->
         NoId \notin {j.req, j.boot, j.prop} /\ j.policy # 0 /\ j.consent = j.policy
    [] j.phase \in {"DISCLOSURE_READY", "ACTIVATION_POLICY_PENDING"} -> j.boot # NoId
    [] j.phase \in {"RECONSENT_READY", "RECONSENT_PENDING"} ->
         /\ j.op # NoId /\ j.policy # 0 /\ j.expected \in {0, j.policy}
         /\ j.phase = "RECONSENT_PENDING" => j.req # NoId /\ j.consent = j.policy
    [] j.phase \in {"ROTATION_PREPARE_PENDING", "ROTATION_CONFIRM_PENDING"} ->
         NoId \notin {j.req, j.op, j.prop}
    [] j.phase = "RECONSENT_POLICY_PENDING" -> j.op # NoId
    [] OTHER -> TRUE
PhoneInv == PhoneTypeOK /\ JournalResumable

\* Nothing is collected on a consent the server does not have: while the gate is
\* open, the ledger holds the acceptance of that policy by this phone.
GateNeedsRecordedConsent ==
  GateOpen /\ vault # NoId =>
    \E i \in Ids : /\ ledger[i].op \in {"activate", "reconsent"}
                   /\ ledger[i].policy = journal.consent
                   /\ ledger[i].device = Home(vault)

Journaled == IF \/ journal.phase \in Mutations \ PolicyPending /\ journal.op # NoId
                \/ journal.phase \in {"REDEEM_PENDING", "ACTIVATION_PENDING"}
             THEN {Request(journal)} ELSE {}
\* A request id is never used for two different requests: whatever is sent again
\* after a crash or a lost answer is the request the ledger may already hold.
RequestsNeverConflict ==
  \A m \in wire \cup Journaled : ledger[m.req] \in {NoCall(m.req), m}

\* The calls the server accepts from a phone were collected by that phone under the
\* consent the server holds: no queue survives an enrolment or a change of consent.
QueueBelongsToConsent ==
  worker.at = "upload" /\ ~Refused(worker.cred) /\ ~WantsConsent(worker.cred) =>
    \A r \in rows : r.dev = Home(worker.cred) /\ r.under = policy

\* The marker of an erasure is removed last: a phone that calls itself revoked keeps
\* no call, wherever a crash cut the erasure, unless the next launch would purge it.
RevokedMeansPurged ==
  prefs.revoked /\ ~prefs.pending /\ ~RequiresPurge => rows = {}

\* A withdrawal the employee asked for is not forgotten while the server still
\* honours the session (README of the app, line 38).
InHand == {vault, journal.op, journal.prop, ui.j.op, ui.j.prop} \ {NoId}
WithdrawalReachesServer ==
  withdrawn # NoId /\ Resolves(withdrawn, "session") => withdrawn \in InHand

\* Calls that began before the consent was given are never read (README of the
\* app, line 35).
NoBackfill == \A r \in rows : r.since = r.under

\* A phone that stays up, with a good session and a policy in force, does not wait
\* for its policy forever (PHASE_3C_HANDOFF, line 24: policy rollovers are repaired).
RolloverRecovers ==
  <>[](inForce /\ vault # NoId /\ Resolves(vault, "session") /\ ui.at # "off")
    => []<>(journal.phase # "RECONSENT_POLICY_PENDING")
================================================================================
