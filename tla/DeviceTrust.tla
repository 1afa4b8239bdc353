------------------------------ MODULE DeviceTrust ------------------------------
(***************************************************************************)
(* The server side of device trust: pairing codes, the credentials of a    *)
(* paired phone, the consent receipts its employee signs and the immutable *)
(* ledger of credential requests.  The rows live in PostgreSQL; every      *)
(* transition is one database transaction (a PL/pgSQL function called from *)
(* apps/api/src/postgres/repository.ts) that locks employee, device,       *)
(* request and credentials, so a transaction is one action here.           *)
(*                                                                         *)
(* What is NOT atomic is an authenticated request: the pre-handler         *)
(* resolves the bearer credential in a transaction of its own, and the     *)
(* handler runs a second one that may find a different database.  The set  *)
(* inflight holds the requests between the two.                            *)
(*                                                                         *)
(* A credential carries the id of the request that proposed it             *)
(* (device_credentials.request_id), clients draw a fresh id and a fresh    *)
(* secret together, so a credential is named by that id: state[i] is the   *)
(* lifecycle of the credential request i proposed, ledger[i] the request.  *)
(* Operators named X_Slip are plausible slips in X; nothing uses them but  *)
(* the runs that ask whether a property would notice the slip.             *)
(* One organization; one collection mode; ids are unique across devices.   *)
(***************************************************************************)
EXTENDS Naturals, FiniteSets

CONSTANTS Employees, Devices, Codes, Ids,
          NoEmployee, NoCode, NoId, NoDevice,
          MaxPolicy,       \* bound: policies ever published
          MaxInFlight      \* bound: requests between authentication and commit

ASSUME ConstantsDistinct ==
  /\ NoEmployee \notin Employees
  /\ NoCode \notin Codes
  /\ NoId \notin Ids
  /\ NoDevice \notin Devices
ASSUME BoundsAreNat == MaxPolicy \in Nat /\ MaxInFlight \in Nat

VARIABLES
  codeState, codeFor, codeExpired,   \* device_pairing_codes
  empStatus,                         \* employees.status
  owner, devStatus,                  \* employee_devices
  receipt,    \* policy of the receipt not withdrawn; 0 = there is none
  policy, inForce,                   \* mobile_collection_policies
  ledger,                            \* device_credential_requests
  state, expired,                    \* device_credentials
  inflight                           \* authenticated, not yet committed

codeVars   == <<codeState, codeFor, codeExpired>>
deviceVars == <<empStatus, owner, devStatus, receipt>>
policyVars == <<policy, inForce>>
credVars   == <<ledger, state, expired>>
dbVars     == <<codeVars, deviceVars, policyVars, credVars>>
vars       == <<codeVars, deviceVars, policyVars, credVars, inflight>>

AuthOps == {"activate", "reconsent", "prepare", "confirm", "revoke"}
Ops     == AuthOps \cup {"redeem"}
CredStates == {"none", "pending", "active", "consumed", "revoked"}
Live    == {"pending", "active"}

\* A request as the client sends it; its fields are what the fingerprint covers.
Call == [op : Ops \cup {"none"}, req : Ids, cred : Ids \cup {NoId},
         prep : Ids \cup {NoId}, code : Codes \cup {NoCode},
         device : Devices \cup {NoDevice}, policy : 0..MaxPolicy]

NoCall(i) == [op |-> "none", req |-> i, cred |-> NoId, prep |-> NoId,
              code |-> NoCode, device |-> NoDevice, policy |-> 0]

IsSession(c)   == ledger[c].op \in {"activate", "prepare"}
IsBootstrap(c) == ledger[c].op = "redeem"
Home(c)        == ledger[c].device
From(c)        == ledger[c].cred       \* rotated_from_credential_id
Unused(i)      == ledger[i].op = "none"
CredsOf(d)     == {c \in Ids : state[c] # "none" /\ Home(c) = d}

TypeOK ==
  /\ codeState \in [Codes -> {"none", "open", "consumed", "revoked"}]
  /\ codeFor \in [Codes -> Employees \cup {NoEmployee}]
  /\ codeExpired \in [Codes -> BOOLEAN]
  /\ empStatus \in [Employees -> {"invited", "active", "paused"}]
  /\ owner \in [Devices -> Employees \cup {NoEmployee}]
  /\ devStatus \in [Devices -> {"none", "pending", "connected", "revoked"}]
  /\ receipt \in [Devices -> 0..MaxPolicy]
  /\ policy \in 0..MaxPolicy
  /\ inForce \in BOOLEAN
  /\ ledger \in [Ids -> Call]
  /\ state \in [Ids -> CredStates]
  /\ expired \in [Ids -> BOOLEAN]
  /\ inflight \subseteq [call : Call, replay : BOOLEAN, consent : BOOLEAN]

Init ==
  /\ codeState = [k \in Codes |-> "none"]
  /\ codeFor = [k \in Codes |-> NoEmployee]
  /\ codeExpired = [k \in Codes |-> FALSE]
  /\ empStatus \in [Employees -> {"invited", "active"}]
  /\ owner = [d \in Devices |-> NoEmployee]
  /\ devStatus = [d \in Devices |-> "none"]
  /\ receipt = [d \in Devices |-> 0]
  /\ policy = 0
  /\ inForce = FALSE
  /\ ledger = [i \in Ids |-> NoCall(i)]
  /\ state = [i \in Ids |-> "none"]
  /\ expired = [i \in Ids |-> FALSE]
  /\ inflight = {}

-------------------------------------------------------------------------------
(* Pairing codes, the clock, policies and employees.                          *)

Eligible(e) == empStatus[e] \in {"invited", "active"}

\* The handler refuses a suspended employee, but reads the status before the
\* transaction that inserts the code: a suspension may come in between.
CreatePairingCode(k, e) ==
  /\ codeState[k] = "none"
  /\ codeState' = [codeState EXCEPT ![k] = "open"]
  /\ codeFor' = [codeFor EXCEPT ![k] = e]
  /\ UNCHANGED <<codeExpired, deviceVars, policyVars, credVars, inflight>>

\* Only a code neither consumed nor revoked changes.
RevokePairingCode(k) ==
  /\ codeState[k] = "open"
  /\ codeState' = [codeState EXCEPT ![k] = "revoked"]
  /\ UNCHANGED <<codeFor, codeExpired, deviceVars, policyVars, credVars, inflight>>

\* expires_at passes.  Rows do not change; guards compare it with the time.
ExpireCode(k) ==
  /\ codeState[k] = "open" /\ ~codeExpired[k]
  /\ codeExpired' = [codeExpired EXCEPT ![k] = TRUE]
  /\ UNCHANGED <<codeState, codeFor, deviceVars, policyVars, credVars, inflight>>

ExpireCredential(c) ==
  /\ state[c] \in Live /\ ~expired[c]
  /\ expired' = [expired EXCEPT ![c] = TRUE]
  /\ UNCHANGED <<codeVars, deviceVars, policyVars, ledger, state, inflight>>

\* Effective windows of policies never overlap and a policy is retired once, so
\* the policy in force only moves forward, possibly through a time without one.
PublishPolicy ==
  /\ policy < MaxPolicy
  /\ policy' = policy + 1
  /\ inForce' = TRUE
  /\ UNCHANGED <<codeVars, deviceVars, credVars, inflight>>

RetirePolicy ==
  /\ inForce
  /\ inForce' = FALSE
  /\ UNCHANGED <<codeVars, deviceVars, policy, credVars, inflight>>

\* The employee's devices are revoked with it; credentials and receipts stay.
SuspendEmployee(e) ==
  /\ empStatus' = [empStatus EXCEPT ![e] = "paused"]
  /\ devStatus' = [d \in Devices |-> IF owner[d] = e THEN "revoked" ELSE devStatus[d]]
  /\ UNCHANGED <<codeVars, owner, receipt, policyVars, credVars, inflight>>

-------------------------------------------------------------------------------
(* Transactions on credentials.  A transaction whose guard fails raises an    *)
(* error and is rolled back.                                                  *)

PolicyCurrent(p)   == inForce /\ p = policy
ConsentCurrent(d)  == receipt[d] # 0 /\ PolicyCurrent(receipt[d])

\* What happens to the device's other credentials when trust is withdrawn.
WithoutLive(d) ==
  [c \in Ids |-> IF c \in CredsOf(d) /\ state[c] \in Live THEN "revoked" ELSE state[c]]

\* One code, one device, one bootstrap credential; a device known under the
\* same installation is re-paired only for its own employee.
CanRedeem(m) ==
  /\ Unused(m.req)
  /\ codeState[m.code] = "open" /\ ~codeExpired[m.code]
  /\ Eligible(codeFor[m.code])
  /\ owner[m.device] \in {NoEmployee, codeFor[m.code]}
  /\ inForce

RedeemTx_KeepsCode(m) ==
  /\ CanRedeem(m)
  /\ owner' = [owner EXCEPT ![m.device] = codeFor[m.code]]
  /\ devStatus' = [devStatus EXCEPT ![m.device] = "pending"]
  /\ receipt' = [receipt EXCEPT ![m.device] = 0]
  /\ state' = [WithoutLive(m.device) EXCEPT ![m.req] = "active"]
  /\ ledger' = [ledger EXCEPT ![m.req] = m]
  /\ UNCHANGED <<codeVars, empStatus, policyVars, expired>>
RedeemTx(m) ==
  /\ CanRedeem(m)
  /\ codeState' = [codeState EXCEPT ![m.code] = "consumed"]
  /\ owner' = [owner EXCEPT ![m.device] = codeFor[m.code]]
  /\ devStatus' = [devStatus EXCEPT ![m.device] = "pending"]
  /\ receipt' = [receipt EXCEPT ![m.device] = 0]
  /\ state' = [WithoutLive(m.device) EXCEPT ![m.req] = "active"]
  /\ ledger' = [ledger EXCEPT ![m.req] = m]
  /\ UNCHANGED <<codeFor, codeExpired, empStatus, policyVars, expired>>

\* prepare_device_credential_request('activate') and, in the same transaction,
\* accept_device_collection_policy.
CanActivate_TrustsContext(m) ==
  /\ Unused(m.req) /\ Eligible(owner[m.device])
  /\ PolicyCurrent(m.policy) /\ receipt[m.device] = 0
CanActivate(m) ==
  /\ Unused(m.req)
  /\ Eligible(owner[m.device])
  /\ state[m.cred] = "active" /\ ~expired[m.cred] /\ IsBootstrap(m.cred)
  /\ PolicyCurrent(m.policy)
  /\ receipt[m.device] = 0

ActivateTx_LeavesStatus(m) ==
  /\ CanActivate(m)
  /\ state' = [state EXCEPT ![m.req] = "active", ![m.cred] = "consumed"]
  /\ receipt' = [receipt EXCEPT ![m.device] = m.policy]
  /\ empStatus' = [empStatus EXCEPT ![owner[m.device]] = "active"]
  /\ ledger' = [ledger EXCEPT ![m.req] = m]
  /\ UNCHANGED <<codeVars, owner, devStatus, policyVars, expired>>
ActivateTx(m) ==
  /\ CanActivate(m)
  /\ state' = [state EXCEPT ![m.req] = "active", ![m.cred] = "consumed"]
  /\ receipt' = [receipt EXCEPT ![m.device] = m.policy]
  /\ devStatus' = [devStatus EXCEPT ![m.device] = "connected"]
  /\ empStatus' = [empStatus EXCEPT ![owner[m.device]] = "active"]
  /\ ledger' = [ledger EXCEPT ![m.req] = m]
  /\ UNCHANGED <<codeVars, owner, policyVars, expired>>

CanReconsent(m) ==
  /\ Unused(m.req)
  /\ empStatus[owner[m.device]] = "active"
  /\ state[m.cred] = "active" /\ ~expired[m.cred] /\ IsSession(m.cred)
  /\ PolicyCurrent(m.policy)

ReconsentTx(m) ==
  /\ CanReconsent(m)
  /\ receipt' = [receipt EXCEPT ![m.device] = m.policy]
  /\ ledger' = [ledger EXCEPT ![m.req] = m]
  /\ UNCHANGED <<codeVars, empStatus, owner, devStatus, policyVars, state, expired>>

\* Pending sessions that expired are revoked first; the unique index on pending
\* sessions then refuses a second one.
ExpiredPending(d) == {c \in CredsOf(d) : state[c] = "pending" /\ expired[c]}
CanPrepare(m) ==
  /\ Unused(m.req)
  /\ empStatus[owner[m.device]] = "active"
  /\ ConsentCurrent(m.device)
  /\ state[m.cred] = "active" /\ ~expired[m.cred] /\ IsSession(m.cred)
  /\ \A c \in CredsOf(m.device) : state[c] = "pending" => expired[c]

PrepareTx(m) ==
  /\ CanPrepare(m)
  /\ state' = [[c \in Ids |-> IF c \in ExpiredPending(m.device) THEN "revoked" ELSE state[c]]
                 EXCEPT ![m.req] = "pending"]
  /\ ledger' = [ledger EXCEPT ![m.req] = m]
  /\ UNCHANGED <<codeVars, deviceVars, policyVars, expired>>

\* m.cred is the pending session, m.prep the request that prepared it.
CanConfirm_TrustsContext(m) ==
  Unused(m.req) /\ empStatus[owner[m.device]] = "active" /\ ledger[m.prep].op = "prepare"
CanConfirm_AnyEmployee(m) ==
  /\ Unused(m.req) /\ ledger[m.prep].op = "prepare" /\ m.cred = m.prep
  /\ state[m.cred] = "pending" /\ ~expired[m.cred]
  /\ state[From(m.cred)] = "active" /\ IsSession(From(m.cred))
CanConfirm(m) ==
  /\ Unused(m.req)
  /\ empStatus[owner[m.device]] = "active"
  /\ ledger[m.prep].op = "prepare" /\ m.cred = m.prep
  /\ state[m.cred] = "pending" /\ ~expired[m.cred]
  /\ state[From(m.cred)] = "active" /\ IsSession(From(m.cred))

ConfirmTx_KeepsSource(m) ==
  /\ CanConfirm(m)
  /\ state' = [state EXCEPT ![m.cred] = "active"]
  /\ ledger' = [ledger EXCEPT ![m.req] = m]
  /\ UNCHANGED <<codeVars, deviceVars, policyVars, expired>>
ConfirmTx(m) ==
  /\ CanConfirm(m)
  /\ state' = [state EXCEPT ![From(m.cred)] = "revoked", ![m.cred] = "active"]
  /\ ledger' = [ledger EXCEPT ![m.req] = m]
  /\ UNCHANGED <<codeVars, deviceVars, policyVars, expired>>

\* The session may have expired since it was authenticated.
CanRevoke(m) ==
  /\ Unused(m.req)
  /\ state[m.cred] = "active" /\ IsSession(m.cred)

RevokeTx(m) ==
  /\ CanRevoke(m)
  /\ state' = WithoutLive(m.device)
  /\ receipt' = [receipt EXCEPT ![m.device] = 0]
  /\ devStatus' = [devStatus EXCEPT ![m.device] = "revoked"]
  /\ ledger' = [ledger EXCEPT ![m.req] = m]
  /\ UNCHANGED <<codeVars, empStatus, owner, policyVars, expired>>

\* POST /v1/devices/:id/revoke: a device already revoked is refused.
AdminRevokeDevice(d) ==
  /\ devStatus[d] \in {"pending", "connected"}
  /\ state' = WithoutLive(d)
  /\ receipt' = [receipt EXCEPT ![d] = 0]
  /\ devStatus' = [devStatus EXCEPT ![d] = "revoked"]
  /\ UNCHANGED <<codeVars, empStatus, owner, policyVars, ledger, expired, inflight>>

-------------------------------------------------------------------------------
(* Authentication, and the handlers that run after it.                        *)

\* resolveDeviceCredential: the credential of a live request.
Resolves(c, type) ==
  /\ state[c] = "active" /\ ~expired[c]
  /\ LET d == Home(c) IN
     \/ /\ type = "bootstrap" /\ IsBootstrap(c)
        /\ devStatus[d] = "pending" /\ Eligible(owner[d])
     \/ /\ type = "session" /\ IsSession(c)
        /\ devStatus[d] = "connected" /\ empStatus[owner[d]] = "active"
        /\ receipt[d] # 0

\* resolveDeviceCredentialReplay: the same call was recorded before and left its
\* credential where that operation leaves it.
StateAfter(op) == CASE op = "activate" -> "consumed" [] op = "revoke" -> "revoked" [] OTHER -> "active"
Replays(m) == ledger[m.req] = m /\ state[m.cred] = StateAfter(m.op)

\* resolvePendingRotationCredential
ResolvesPending(m) ==
  /\ m.cred = m.prep /\ ledger[m.prep].op = "prepare" /\ m.req # m.prep
  /\ state[m.cred] = "pending" /\ ~expired[m.cred]
  /\ devStatus[m.device] = "connected" /\ empStatus[owner[m.device]] = "active"

Admitted(m) == CASE m.op = "activate" -> Resolves(m.cred, "bootstrap")
                 [] m.op = "confirm"  -> ResolvesPending(m)
                 [] OTHER             -> Resolves(m.cred, "session")

\* The calls of a client: a redemption names a code and the installation, any
\* other call is authenticated by a credential the client was given, and a
\* confirmation by the pending secret, naming the request that prepared it.
RedeemCall(i, k, d) ==
  [op |-> "redeem", req |-> i, cred |-> NoId, prep |-> NoId,
   code |-> k, device |-> d, policy |-> 0]
AuthCall(op, i, c, p) ==
  [op |-> op, req |-> i, cred |-> c, prep |-> IF op = "confirm" THEN c ELSE NoId,
   code |-> NoCode, device |-> Home(c), policy |-> p]

Authenticate(m) ==
  /\ Cardinality(inflight) < MaxInFlight
  /\ state[m.cred] # "none" /\ m.req # m.cred
  /\ m.policy # 0 <=> m.op \in {"activate", "reconsent"}
  /\ \/ Replays(m) /\ inflight' = inflight \cup {[call |-> m, replay |-> TRUE, consent |-> FALSE]}
     \/ /\ ~Replays(m) /\ Admitted(m)
        /\ inflight' = inflight \cup
             {[call |-> m, replay |-> FALSE, consent |-> ConsentCurrent(m.device)]}
  /\ UNCHANGED dbVars

Redeem(m) == RedeemTx(m) /\ UNCHANGED inflight

Leave(x) == inflight' = inflight \ {x}
Activate(x)  == x.call.op = "activate"  /\ ActivateTx(x.call)  /\ Leave(x)
Reconsent(x) == x.call.op = "reconsent" /\ ReconsentTx(x.call) /\ Leave(x)
\* The handler refuses a fresh call whose consent was stale when it arrived.
Prepare(x)   == x.call.op = "prepare" /\ x.consent /\ PrepareTx(x.call) /\ Leave(x)
Confirm(x)   == x.call.op = "confirm" /\ ConfirmTx(x.call) /\ Leave(x)
Revoke(x)    == x.call.op = "revoke"  /\ RevokeTx(x.call)  /\ Leave(x)

Can(x) == CASE x.call.op = "activate"  -> CanActivate(x.call)
            [] x.call.op = "reconsent" -> CanReconsent(x.call)
            [] x.call.op = "prepare"   -> x.consent /\ CanPrepare(x.call)
            [] x.call.op = "confirm"   -> CanConfirm(x.call)
            [] x.call.op = "revoke"    -> CanRevoke(x.call)

\* The recorded response is returned, or the transaction raised and rolled back.
Answer(x) ==
  /\ ~Can(x)
  /\ Leave(x)
  /\ UNCHANGED dbVars

Next ==
  \/ \E k \in Codes : \/ \E e \in Employees : CreatePairingCode(k, e)
                      \/ RevokePairingCode(k)
                      \/ ExpireCode(k)
  \/ \E c \in Ids : ExpireCredential(c)
  \/ PublishPolicy
  \/ RetirePolicy
  \/ \E e \in Employees : SuspendEmployee(e)
  \/ \E d \in Devices : AdminRevokeDevice(d)
  \/ \E i \in Ids, k \in Codes, d \in Devices : Redeem(RedeemCall(i, k, d))
  \/ \E op \in AuthOps, i, c \in Ids, p \in 0..MaxPolicy : Authenticate(AuthCall(op, i, c, p))
  \/ \E x \in inflight : \/ Activate(x) \/ Reconsent(x) \/ Prepare(x)
                         \/ Confirm(x) \/ Revoke(x) \/ Answer(x)

Spec == Init /\ [][Next]_vars

-------------------------------------------------------------------------------
(* What a correct trust service promises.                                     *)

HasActiveSession(d) ==
  \E c \in Ids : state[c] = "active" /\ IsSession(c) /\ Home(c) = d

\* A phone never holds two live credentials of the same standing: at most one
\* active one, bootstrap or session, and at most one session waiting to be
\* confirmed, whatever re-pairings, activations and rotations overlap.
OneLiveCredential ==
  \A c1, c2 \in Ids :
    state[c1] \in Live /\ state[c1] = state[c2] /\ Home(c1) = Home(c2) => c1 = c2

\* A rotation that waits for its confirmation can still be confirmed or fall
\* back: the session it replaces is active and belongs to the same phone.
PendingKeepsItsSource ==
  \A c \in Ids : state[c] = "pending" =>
    /\ From(c) \in Ids
    /\ state[From(c)] = "active" /\ IsSession(From(c)) /\ Home(From(c)) = Home(c)

\* Consent and session stand and fall together: a receipt that is not withdrawn
\* exists exactly while the phone has an active session, so no revocation path
\* forgets one of the two.
ConsentIffSession ==
  \A d \in Devices : receipt[d] # 0 <=> HasActiveSession(d)

\* The status shown for a phone agrees with its credential, except that
\* suspending the employee overrides it with "revoked".
StatusAgreesWithCredential ==
  \A c \in Ids : state[c] = "active" =>
    LET d == Home(c) IN
    /\ owner[d] \in Employees
    /\ \/ devStatus[d] = IF IsSession(c) THEN "connected" ELSE "pending"
       \/ devStatus[d] = "revoked" /\ empStatus[owner[d]] = "paused"

\* What the invariants above rest on.  A credential exists exactly when the
\* ledger holds the request that proposed it; only a rotation leaves one pending,
\* and its source is a session of the same phone.  A request in flight is bound
\* to the credential it was authenticated by; a policy in force has been published.
CredentialShape ==
  \A c \in Ids :
    /\ state[c] # "none" <=> ledger[c].op \in {"redeem", "activate", "prepare"}
    /\ state[c] # "none" => Home(c) \in Devices
    /\ state[c] = "pending" => ledger[c].op = "prepare"
    /\ ledger[c].op = "prepare" =>
         From(c) \in Ids /\ IsSession(From(c)) /\ Home(From(c)) = Home(c)
InflightShape ==
  \A x \in inflight :
    /\ x.call.op \in AuthOps /\ x.call.cred \in Ids
    /\ state[x.call.cred] # "none" /\ x.call.device = Home(x.call.cred)
PolicyShape == inForce => policy # 0

TrustInv == /\ TypeOK /\ CredentialShape /\ InflightShape /\ PolicyShape
            /\ OneLiveCredential /\ PendingKeepsItsSource /\ ConsentIffSession

\* The ledger tells the truth: each recorded request had its effect, once.  A
\* code is consumed by exactly one redemption, a bootstrap credential buys one
\* session, a session has one confirmed successor.
LedgerExactlyOnce ==
  /\ \A k \in Codes : codeState[k] = "consumed" <=>
       \E i \in Ids : ledger[i].op = "redeem" /\ ledger[i].code = k
  /\ \A i, j \in Ids :
       /\ ledger[i].op = ledger[j].op /\ ledger[i].op = "redeem"
            /\ ledger[i].code = ledger[j].code => i = j
       /\ ledger[i].op = ledger[j].op /\ ledger[i].op \in {"activate", "confirm", "revoke"}
            /\ ledger[i].cred = ledger[j].cred => i = j
  /\ \A i \in Ids :
       /\ ledger[i].op = "activate" => state[ledger[i].cred] = "consumed"
       /\ ledger[i].op = "confirm"  => state[From(ledger[i].cred)] = "revoked"
       /\ ledger[i].op = "revoke"   => state[ledger[i].cred] = "revoked"

\* A secret that was retired is never honoured again, and a credential leaves
\* "pending" only forwards.
RetiredStaysRetired ==
  [][\A c \in Ids :
       /\ state[c] \in {"consumed", "revoked"} => state'[c] = state[c]
       /\ state[c] = "active" => state'[c] # "pending"
       /\ state[c] # "none" => ledger'[c] = ledger[c]]_vars

\* Suspending an employee takes effect at once: a request authenticated before
\* the suspension commits nothing that gives a phone of that employee a new
\* active credential, a new consent receipt or another status.
SuspensionIsImmediate ==
  [][\A d \in Devices : owner[d] \in Employees /\ empStatus[owner[d]] = "paused" =>
       /\ devStatus'[d] = "revoked"
       /\ receipt'[d] \in {receipt[d], 0}
       /\ \A c \in Ids : state'[c] = "active" /\ ledger'[c].device = d => state[c] = "active"]_vars

\* A revoked phone comes back only by redeeming a new code: nothing that was in
\* flight when it was revoked reconnects it.
RevokedUntilRepaired ==
  [][\A d \in Devices : devStatus[d] = "revoked" /\ devStatus'[d] # "revoked" =>
       /\ devStatus'[d] = "pending"
       /\ \E k \in Codes : codeState[k] = "open" /\ codeState'[k] = "consumed"]_vars
================================================================================
