------------------------ MODULE MobileProtocol_proofs -------------------------
(* Theorems about the phone composed with the server of device trust, for     *)
(* every set of phones, codes and request ids and every bound.                 *)
EXTENDS MobileProtocol, DeviceTrust_proofs

-------------------------------------------------------------------------------
(* The shape of the phone's state: which journal a phase comes with, which     *)
(* phase an operation can have at each of its steps, what a request carries.   *)

Sending == Mutations \ PolicyPending
NewSession == {"ACTIVATION_PENDING", "ACTIVATION_POLICY_PENDING", "DISCLOSURE_READY"}
Rotation == {"ROTATION_PREPARE_PENDING", "ROTATION_CONFIRM_PENDING"}
WipeLabels == {"wipe", "wipeV", "wipeJ", "wipeD", "wipeE"}

\* What a journal holds when its phase is to be resumed.
Resumable(j) ==
  /\ j.phase = "REDEEM_PENDING" =>
       j.req \in Ids /\ j.boot = j.req /\ j.code \in Codes /\ j.dev \in Devices
  /\ j.phase = "ACTIVATION_PENDING" =>
       j.req \in Ids /\ j.prop = j.req /\ j.policy # 0 /\ j.consent = j.policy
  /\ j.phase \in NewSession => j.boot \in Ids
  /\ j.phase = "DISCLOSURE_READY" => j.policy # 0
  /\ j.phase \in ConsentPhases => j.op \in Ids
  /\ j.phase \in {"RECONSENT_READY", "RECONSENT_PENDING"} =>
       j.policy # 0 /\ j.expected \in {0, j.policy}
  /\ j.phase = "RECONSENT_PENDING" => j.req \in Ids /\ j.consent = j.policy
  /\ j.phase \in Rotation => j.req \in Ids /\ j.op \in Ids /\ j.prop \in Ids
  /\ j.phase = "ROTATION_PREPARE_PENDING" => j.prop = j.req
  /\ j.phase = "REVOKE_PENDING" => j.req \in Ids

\* The journal an operation holds at each of its steps.
Fits(at, then, j) ==
  /\ at \in {"off", "idle"} => j = Blank /\ then = "idle"
  /\ at = "refresh" => then = "resume" \/ j = Blank
  /\ at \in {"await", "ok", "stale"} => j.phase \in Sending /\ (j.phase = "REVOKE_PENDING" => j.op \in Ids)
  /\ at = "vaulted" => j.phase = "ACTIVATION_PENDING"
  /\ at \in {"close", "purge"} => j.phase \in PolicyPending \cup {"ACTIVATION_PENDING"}
  /\ at = "fetch" => j.phase \in PolicyPending \cup {"ACTIVATION_PENDING", "REDEEM_PENDING"}
  /\ at \in {"closeR", "purgeR", "revJ", "revE"} => j.phase = "REVOKE_PENDING"
  /\ at \in {"clear", "idling"} =>
       j.phase \in {"RECONSENT_PENDING", "ROTATION_CONFIRM_PENDING", "ACTIVATION_PENDING"}
  /\ at = "open" => j.phase \in {"RECONSENT_PENDING", "ACTIVATION_PENDING"}
  /\ at \in {"wipe", "wipeJ", "wipeD", "wiped", "redeem"} =>
       /\ j = [Blank EXCEPT !.code = j.code]
       /\ then \in {"repair", "pair", "reset"} /\ (then = "pair" => j.code \in Codes)
  /\ at = "redeem" => then = "pair"

Thens == {"idle", "boot", "resume", "repair", "pair", "reset"}
Prefs == [accepted : BOOLEAN, stale : BOOLEAN, revoked : BOOLEAN, pending : BOOLEAN, since : 0..MaxPolicy]
Workers == [at : WorkerLabels, cred : Ids \cup {NoId}, under : 0..MaxPolicy,
            expected : 0..MaxPolicy, since : 0..MaxPolicy, then : {"off", "policy"}]

GoodJournal(j) == j \in Journal /\ Resumable(j)
GoodUi(u) == /\ u \in [at : UiLabels, j : Journal, then : Thens]
             /\ Resumable(u.j) /\ Fits(u.at, u.then, u.j)
GoodWorker(w) == /\ w \in Workers
                 /\ w.at \notin {"off"} \cup WipeLabels => w.cred \in Ids
                 /\ w.at = "off" => w = NoWorker
GoodCall(m) == /\ m \in Call /\ m.op \in Ops
               /\ m.op = "redeem" => m.code \in Codes /\ m.device \in Devices

Server == TypeOK /\ PolicyShape
Shape ==
  /\ Server
  /\ GoodJournal(journal) /\ GoodUi(ui) /\ GoodWorker(worker)
  /\ vault \in Ids \cup {NoId} /\ prefs \in Prefs
  /\ stage \in Stages /\ drawn \subseteq Ids /\ withdrawn \in Ids \cup {NoId}
  /\ \A m \in wire : GoodCall(m)

-------------------------------------------------------------------------------
(* The journals the operations write.                                         *)

LEMMA Zero == 0 \in 0..MaxPolicy
BY BoundsAreNat

LEMMA BlankGood == GoodJournal(Blank) /\ Blank.phase = "IDLE"
BY BoundsAreNat DEF GoodJournal, Journal, Blank, Resumable, Phases, Mutations, ConsentPhases,
                    NewSession, Rotation

LEMMA PreflightGood ==
  ASSUME NEW c \in Ids, NEW e \in 0..MaxPolicy
  PROVE  /\ GoodJournal(Preflight(c)) /\ Preflight(c).phase = "RECONSENT_POLICY_PENDING"
         /\ Preflight(c).op = c
         /\ GoodJournal([Preflight(c) EXCEPT !.expected = e])
<1> DEFINE r == [Preflight(c) EXCEPT !.expected = e]
<1>1. Preflight(c) \in Journal
  BY BlankGood DEF GoodJournal, Preflight, Journal, Phases, ConsentPhases
<1>2. Preflight(c).phase = "RECONSENT_POLICY_PENDING" /\ Preflight(c).op = c
  BY DEF Preflight, Blank
<1>3. r \in Journal
  BY <1>1 DEF Journal
<1>4. r.phase = "RECONSENT_POLICY_PENDING" /\ r.op = c
  BY <1>1, <1>2 DEF Journal
<1> QED BY <1>1, <1>2, <1>3, <1>4 DEF GoodJournal, Resumable, ConsentPhases, NewSession, Rotation

\* The policy a fetch returned, for an operation that names the session.
LEMMA ReconsentReadyGood ==
  ASSUME NEW c \in Ids, NEW p \in 0..MaxPolicy, p # 0, NEW e \in {0, p}
  PROVE  /\ GoodJournal([Preflight(c) EXCEPT !.phase = "RECONSENT_READY", !.policy = p])
         /\ GoodJournal([Preflight(c) EXCEPT !.phase = "RECONSENT_READY",
                           !.expected = e, !.policy = p])
<1> DEFINE r == [Preflight(c) EXCEPT !.phase = "RECONSENT_READY", !.policy = p]
           s == [Preflight(c) EXCEPT !.phase = "RECONSENT_READY", !.expected = e, !.policy = p]
<1>1. Preflight(c) \in Journal /\ Preflight(c).op = c
  BY PreflightGood, BoundsAreNat DEF GoodJournal
<1>2. Preflight(c).expected = 0
  BY DEF Preflight, Blank
<1>3. e \in 0..MaxPolicy BY BoundsAreNat
<1>4. r \in Journal /\ s \in Journal
  <2>1. "RECONSENT_READY" \in Phases
    BY DEF Phases, ConsentPhases
  <2>2. r \in Journal
    BY <1>1, <2>1 DEF Journal
  <2>3. s \in Journal
    BY <1>1, <1>3, <2>1 DEF Journal
  <2> QED BY <2>2, <2>3
<1>5. /\ r.phase = "RECONSENT_READY" /\ r.op = c /\ r.policy = p /\ r.expected = 0
      /\ s.phase = "RECONSENT_READY" /\ s.op = c /\ s.policy = p /\ s.expected = e
  BY <1>1, <1>2 DEF Journal
<1> QED BY <1>4, <1>5 DEF GoodJournal, Resumable, ConsentPhases, NewSession, Rotation

LEMMA IdleGood ==
  ASSUME NEW j \in Journal
  PROVE  /\ GoodJournal(ToIdle(j)) /\ ToIdle(j).phase = "IDLE"
         /\ ToIdle(j).policy = j.policy /\ ToIdle(j).consent = j.consent
         /\ ToIdle(j).op = NoId /\ ToIdle(j).boot = NoId /\ ToIdle(j).prop = NoId
<1>1. ToIdle(j) \in Journal
  <2>1. Blank \in Journal
    BY BlankGood DEF GoodJournal
  <2>2. j.policy \in 0..MaxPolicy /\ j.consent \in 0..MaxPolicy
    BY DEF Journal
  <2> QED BY <2>1, <2>2 DEF ToIdle, Journal
<1>2. /\ ToIdle(j).phase = "IDLE"
      /\ ToIdle(j).policy = j.policy /\ ToIdle(j).consent = j.consent
      /\ ToIdle(j).op = NoId /\ ToIdle(j).boot = NoId /\ ToIdle(j).prop = NoId
  BY DEF ToIdle, Blank
<1> QED BY <1>1, <1>2 DEF GoodJournal, Resumable, ConsentPhases, NewSession, Rotation

\* The request a resumable journal stands for is one the server can read.
LEMMA RequestGood ==
  ASSUME TypeOK, vault \in Ids \cup {NoId}, NEW j, GoodJournal(j), j.phase \in Sending,
         j.phase = "REVOKE_PENDING" => j.op \in Ids
  PROVE  GoodCall(Request(j)) /\ Request(j).req = j.req
<1>1. \A c \in Ids : Home(c) \in Devices \cup {NoDevice}
  BY CallFields DEF TypeOK, Home
<1>2. /\ j.policy \in 0..MaxPolicy /\ j.consent \in 0..MaxPolicy /\ 0 \in 0..MaxPolicy
      /\ j.req \in Ids
  BY BoundsAreNat DEF GoodJournal, Journal, Resumable, Sending, Mutations, PolicyPending,
                      Rotation
<1>3. ASSUME NEW op \in AuthOps, NEW c \in Ids, NEW p \in 0..MaxPolicy
      PROVE  GoodCall(AuthCall(op, j.req, c, p)) /\ AuthCall(op, j.req, c, p).req = j.req
  BY <1>1, <1>2 DEF GoodCall, AuthCall, Call, Ops, AuthOps
<1>4. CASE j.phase = "REDEEM_PENDING"
  BY <1>2, <1>4 DEF GoodCall, GoodJournal, Resumable, Request, RedeemCall, Call, Ops
<1>5. CASE j.phase = "ACTIVATION_PENDING"
  <2>1. j.boot \in Ids /\ Request(j) = AuthCall("activate", j.req, j.boot, j.consent)
    BY <1>5 DEF GoodJournal, Resumable, NewSession, Request, Receipt
  <2> QED BY <2>1, <1>2, <1>3 DEF AuthOps
<1>6. CASE j.phase = "RECONSENT_PENDING"
  <2>1. j.op \in Ids /\ Request(j) = AuthCall("reconsent", j.req, j.op, j.consent)
    BY <1>6, ConstantsDistinct DEF GoodJournal, Resumable, ConsentPhases, Request, Receipt, Bearer
  <2> QED BY <2>1, <1>2, <1>3 DEF AuthOps
<1>7. CASE j.phase = "ROTATION_PREPARE_PENDING"
  <2>1. j.op \in Ids /\ Request(j) = AuthCall("prepare", j.req, j.op, 0)
    BY <1>7 DEF GoodJournal, Resumable, Rotation, Request
  <2> QED BY <2>1, <1>2, <1>3 DEF AuthOps
<1>8. CASE j.phase = "ROTATION_CONFIRM_PENDING"
  <2>1. j.prop \in Ids /\ Request(j) = AuthCall("confirm", j.req, j.prop, 0)
    BY <1>8 DEF GoodJournal, Resumable, Rotation, Request
  <2> QED BY <2>1, <1>2, <1>3 DEF AuthOps
<1>9. CASE j.phase = "REVOKE_PENDING"
  <2>1. j.op \in Ids /\ Request(j) = AuthCall("revoke", j.req, j.op, 0)
    BY <1>9 DEF Request
  <2> QED BY <2>1, <1>2, <1>3 DEF AuthOps
<1> QED BY <1>4, <1>5, <1>6, <1>7, <1>8, <1>9 DEF Sending, Mutations, PolicyPending

LEMMA UiGo ==
  ASSUME NEW at \in UiLabels, NEW j, GoodJournal(j), Fits(at, "idle", j), GoWith(at, j)
  PROVE  GoodUi(ui')
BY DEF GoWith, GoodUi, GoodJournal, Thens

LEMMA UiGoto ==
  ASSUME GoodUi(ui), NEW at \in UiLabels, Fits(at, ui.then, ui.j), Goto(at)
  PROVE  GoodUi(ui')
<1>1. /\ ui' \in [at : UiLabels, j : Journal, then : Thens]
      /\ ui'.at = at /\ ui'.j = ui.j /\ ui'.then = ui.then
  BY DEF Goto, GoodUi
<1> QED BY <1>1 DEF GoodUi

LEMMA RestGood ==
  /\ GoodUi(NoUi) /\ GoodUi([NoUi EXCEPT !.at = "idle"]) /\ GoodUi([NoUi EXCEPT !.at = "refresh"])
<1>1. /\ NoUi.at = "off" /\ NoUi.j = Blank /\ NoUi.then = "idle"
      /\ [NoUi EXCEPT !.at = "idle"] = [at |-> "idle", j |-> Blank, then |-> "idle"]
      /\ [NoUi EXCEPT !.at = "refresh"] = [at |-> "refresh", j |-> Blank, then |-> "idle"]
      /\ NoUi = [at |-> "off", j |-> Blank, then |-> "idle"]
  BY DEF NoUi
<1>2. /\ Fits("off", "idle", Blank) /\ Fits("idle", "idle", Blank) /\ Fits("refresh", "idle", Blank)
  BY DEF Fits
<1>3. \A at \in {"off", "idle", "refresh"} :
        [at |-> at, j |-> Blank, then |-> "idle"] \in [at : UiLabels, j : Journal, then : Thens]
  BY BlankGood DEF GoodJournal, UiLabels, Thens
<1> QED BY <1>1, <1>2, <1>3, BlankGood DEF GoodUi, GoodJournal

LEMMA SendGood ==
  ASSUME Shape, NEW j, GoodJournal(j), j.phase \in Sending,
         j.phase = "REVOKE_PENDING" => j.op \in Ids, Send(j)
  PROVE  GoodUi(ui') /\ \A m \in wire' : GoodCall(m)
<1>1. GoodCall(Request(j))
  BY RequestGood DEF Shape, Server
<1>2. Fits("await", "idle", j)
  BY DEF Fits
<1>3. GoodUi(ui')
  BY <1>2, UiGo DEF Send, UiLabels
<1> QED BY <1>1, <1>3 DEF Send, Shape

\* Resuming a journal that stands for an operation.
LEMMA ResumeGood ==
  ASSUME Shape, NEW j, GoodJournal(j), j.phase \in Mutations \cup PolicyPending, Resume(j)
  PROVE  GoodUi(ui') /\ \A m \in wire' : GoodCall(m)
<1>1. CASE j.phase \in PolicyPending
  <2>1. GoWith("close", j) /\ wire' = wire BY <1>1 DEF Resume, PolicyPending
  <2>2. Fits("close", "idle", j) BY <1>1 DEF Fits
  <2> QED BY <2>1, <2>2, UiGo DEF UiLabels, Shape
<1>2. CASE j.phase = "REVOKE_PENDING"
  <2>1. GoWith("closeR", j) /\ wire' = wire BY <1>2 DEF Resume, PolicyPending
  <2>2. Fits("closeR", "idle", j) BY <1>2 DEF Fits
  <2> QED BY <2>1, <2>2, UiGo DEF UiLabels, Shape
<1>3. CASE j.phase \notin PolicyPending \cup {"REVOKE_PENDING"}
  <2>1. Send(j) BY <1>3 DEF Resume
  <2> QED BY <1>3, <2>1, SendGood DEF Sending
<1> QED BY <1>1, <1>2, <1>3

-------------------------------------------------------------------------------
(* The server's part of a step.                                               *)

\* A request that was not recorded is entered in an unused line of the ledger.
LEMMA TransitionKeeps ==
  ASSUME Server, NEW m, GoodCall(m), Transition(m)
  PROVE  /\ (inflight' = inflight => Server') /\ ledger[m.req].op = "none" /\ UNCHANGED <<policy, inForce>>
         /\ ledger' = [ledger EXCEPT ![m.req] = m]
<1> USE DEF Server, TypeOK, codeVars, deviceVars, policyVars, credVars, dbVars
<1>0. /\ m \in Call /\ m.op \in Ops /\ m.req \in Ids /\ m.policy \in 0..MaxPolicy /\ 0 \in 0..MaxPolicy
      /\ m.cred \in Ids \cup {NoId}
  BY CallFields, BoundsAreNat DEF GoodCall
<1>1. \A d : WithoutLive(d) \in [Ids -> CredStates]
  BY DEF WithoutLive, CredStates
<1>2. CASE m.op = "redeem"
  <2>1. RedeemTx(m) /\ m.code \in Codes /\ m.device \in Devices
    BY <1>2 DEF Transition, GoodCall
  <2>2. state' \in [Ids -> CredStates]
    BY <2>1, <1>0, <1>1 DEF RedeemTx, CredStates
  <2>3. receipt' \in [Devices -> 0..MaxPolicy]
    BY <2>1, <1>0 DEF RedeemTx
  <2>4. ledger' \in [Ids -> Call] /\ ledger' = [ledger EXCEPT ![m.req] = m] /\ ledger[m.req].op = "none"
    BY <2>1, <1>0 DEF RedeemTx, CanRedeem, Unused
  <2>5. /\ codeState' \in [Codes -> {"none", "open", "consumed", "revoked"}]
        /\ owner' \in [Devices -> Employees \cup {NoEmployee}]
        /\ devStatus' \in [Devices -> {"none", "pending", "connected", "revoked"}]
    BY <2>1 DEF RedeemTx
  <2> QED BY <2>1, <2>2, <2>3, <2>4, <2>5 DEF RedeemTx, PolicyShape
<1>3. CASE m.op = "activate"
  <2>1. ActivateTx(m)
    BY <1>3 DEF Transition
  <2>2. state' \in [Ids -> CredStates]
    BY <2>1, <1>0 DEF ActivateTx, CredStates
  <2>3. receipt' \in [Devices -> 0..MaxPolicy]
    BY <2>1, <1>0 DEF ActivateTx
  <2>4. ledger' \in [Ids -> Call] /\ ledger' = [ledger EXCEPT ![m.req] = m] /\ ledger[m.req].op = "none"
    BY <2>1, <1>0 DEF ActivateTx, CanActivate, Unused
  <2>5. /\ empStatus' \in [Employees -> {"invited", "active", "paused"}]
        /\ devStatus' \in [Devices -> {"none", "pending", "connected", "revoked"}]
    BY <2>1 DEF ActivateTx
  <2> QED BY <2>1, <2>2, <2>3, <2>4, <2>5 DEF ActivateTx, PolicyShape
<1>4. CASE m.op = "reconsent"
  <2>1. ReconsentTx(m)
    BY <1>4 DEF Transition
  <2>2. receipt' \in [Devices -> 0..MaxPolicy]
    BY <2>1, <1>0 DEF ReconsentTx
  <2>3. ledger' \in [Ids -> Call] /\ ledger' = [ledger EXCEPT ![m.req] = m] /\ ledger[m.req].op = "none"
    BY <2>1, <1>0 DEF ReconsentTx, CanReconsent, Unused
  <2> QED BY <2>1, <2>2, <2>3 DEF ReconsentTx, PolicyShape
<1>5. CASE m.op = "prepare"
  <2>1. PrepareTx(m)
    BY <1>5 DEF Transition
  <2>2. state' \in [Ids -> CredStates]
    BY <2>1, <1>0 DEF PrepareTx, CredStates
  <2>3. ledger' \in [Ids -> Call] /\ ledger' = [ledger EXCEPT ![m.req] = m] /\ ledger[m.req].op = "none"
    BY <2>1, <1>0 DEF PrepareTx, CanPrepare, Unused
  <2> QED BY <2>1, <2>2, <2>3 DEF PrepareTx, PolicyShape
<1>6. CASE m.op = "confirm"
  <2>1. ConfirmTx(m)
    BY <1>6 DEF Transition
  <2>2. state' \in [Ids -> CredStates]
    BY <2>1, <1>0 DEF ConfirmTx, CredStates
  <2>3. ledger' \in [Ids -> Call] /\ ledger' = [ledger EXCEPT ![m.req] = m] /\ ledger[m.req].op = "none"
    BY <2>1, <1>0 DEF ConfirmTx, CanConfirm, Unused
  <2> QED BY <2>1, <2>2, <2>3 DEF ConfirmTx, PolicyShape
<1>7. CASE m.op = "revoke"
  <2>1. RevokeTx(m)
    BY <1>7 DEF Transition
  <2>2. state' \in [Ids -> CredStates]
    BY <2>1, <1>1 DEF RevokeTx
  <2>3. receipt' \in [Devices -> 0..MaxPolicy]
    BY <2>1, <1>0 DEF RevokeTx
  <2>4. ledger' \in [Ids -> Call] /\ ledger' = [ledger EXCEPT ![m.req] = m] /\ ledger[m.req].op = "none"
    BY <2>1, <1>0 DEF RevokeTx, CanRevoke, Unused
  <2>5. devStatus' \in [Devices -> {"none", "pending", "connected", "revoked"}]
    BY <2>1 DEF RevokeTx
  <2> QED BY <2>1, <2>2, <2>3, <2>4, <2>5 DEF RevokeTx, PolicyShape
<1> QED BY <1>0, <1>2, <1>3, <1>4, <1>5, <1>6, <1>7 DEF Ops, AuthOps


\* What happens on the server without the phone leaves the ledger alone.
LEMMA ServerStepKeeps ==
  ASSUME Server, ServerSteps
  PROVE  Server' /\ UNCHANGED <<ledger, inflight>>
<1> USE DEF Server, TypeOK, codeVars, deviceVars, policyVars, credVars, dbVars
<1>1. ASSUME NEW k \in Codes, NEW e \in Employees, CreatePairingCode(k, e)
      PROVE  Server' /\ UNCHANGED <<ledger, inflight>>
  BY <1>1 DEF CreatePairingCode, PolicyShape
<1>2. ASSUME PublishPolicy PROVE Server' /\ UNCHANGED <<ledger, inflight>>
  <2>1. policy' \in 0..MaxPolicy /\ policy' # 0
    BY <1>2, BoundsAreNat DEF PublishPolicy
  <2> QED BY <1>2, <2>1 DEF PublishPolicy, PolicyShape
<1>3. ASSUME NEW c \in Ids, ExpireCredential(c) PROVE Server' /\ UNCHANGED <<ledger, inflight>>
  BY <1>3 DEF ExpireCredential, PolicyShape
<1>4. ASSUME NEW d \in Devices, AdminRevokeDevice(d) PROVE Server' /\ UNCHANGED <<ledger, inflight>>
  BY <1>4, BoundsAreNat DEF AdminRevokeDevice, WithoutLive, CredStates, PolicyShape
<1> QED BY <1>1, <1>2, <1>3, <1>4 DEF ServerSteps

\* Whoever moves, what the ledger holds stays; a call of the phone leaves the
\* server alone.
LEMMA ServeKeeps ==
  ASSUME Server, NEW m \in wire, GoodCall(m), Serve(m)
  PROVE  /\ Server' /\ UNCHANGED inflight
         /\ \/ ledger' = ledger /\ ledger[m.req] = m
            \/ ledger[m.req].op = "none" /\ ledger' = [ledger EXCEPT ![m.req] = m]
<1>1. UNCHANGED inflight
  BY DEF Serve, Answered
<1>2. CASE Recorded(m) /\ UNCHANGED dbVars
  BY <1>1, <1>2 DEF Recorded, Replays, Server, TypeOK, PolicyShape, dbVars, codeVars, deviceVars,
                    policyVars, credVars
<1>3. CASE ~Recorded(m) /\ Transition(m)
  BY <1>1, <1>3, TransitionKeeps
<1> QED BY <1>2, <1>3 DEF Serve

-------------------------------------------------------------------------------
(* Every step keeps the shape.                                                *)

LEMMA ServerSame ==
  ASSUME Server, UNCHANGED serverVars PROVE Server' /\ ledger' = ledger
BY DEF Server, TypeOK, PolicyShape, serverVars, dbVars, codeVars, deviceVars, policyVars, credVars

LEMMA PrefsGood ==
  ASSUME NEW p \in Prefs
  PROVE  /\ Closed(p) \in Prefs /\ ClosedForRevoke(p) \in Prefs /\ Erasing(p) \in Prefs
         /\ (\A c \in 0..MaxPolicy : Opened(p, c) \in Prefs) /\ [p EXCEPT !.since = 0] \in Prefs
<1>1. Closed(p) \in Prefs
  BY DEF Closed, Prefs
<1>2. ClosedForRevoke(p) \in Prefs
  BY <1>1 DEF ClosedForRevoke, Prefs
<1>3. Erasing(p) \in Prefs
  BY DEF Erasing, Prefs
<1>4. \A c \in 0..MaxPolicy : Opened(p, c) \in Prefs
  BY DEF Opened, Prefs
<1>5. [p EXCEPT !.since = 0] \in Prefs
  BY BoundsAreNat DEF Prefs
<1> QED BY <1>1, <1>2, <1>3, <1>4, <1>5

LEMMA StageTyped == StageNow \in Stages
BY DEF StageNow, Stages

LEMMA UiAt ==
  ASSUME NEW at \in UiLabels, NEW then \in Thens, NEW j, GoodJournal(j), Fits(at, then, j),
         ui' = [at |-> at, j |-> j, then |-> then]
  PROVE  GoodUi(ui')
BY DEF GoodUi, GoodJournal

LEMMA WorkerGoto ==
  ASSUME GoodWorker(worker), NEW at \in WorkerLabels \ {"off"},
         at \in WipeLabels \/ worker.cred \in Ids, WGoto(at)
  PROVE  GoodWorker(worker')
BY DEF WGoto, GoodWorker, Workers

LEMMA WorkerRestsGood == GoodWorker(NoWorker)
BY BoundsAreNat DEF GoodWorker, NoWorker, Workers, WorkerLabels

LEMMA LaunchShape ==
  ASSUME Shape, Launch PROVE Shape'
<1>0. /\ Server' /\ GoodWorker(worker') /\ vault' \in Ids \cup {NoId} /\ stage' \in Stages
      /\ drawn' \subseteq Ids /\ withdrawn' \in Ids \cup {NoId} /\ \A m \in wire' : GoodCall(m)
  BY ServerSame DEF Shape, Launch
<1>1. CASE RequiresPurge
  <2>1. prefs' = ClosedForRevoke(prefs) /\ ui' = [at |-> "wipe", j |-> Blank, then |-> "repair"]
        /\ journal' = journal
    BY <1>1 DEF Launch
  <2>2. Fits("wipe", "repair", Blank)
    BY DEF Fits, Blank
  <2>3. GoodUi(ui')
    BY <2>1, <2>2, UiAt, BlankGood DEF UiLabels, Thens
  <2> QED BY <1>0, <2>1, <2>3, PrefsGood DEF Shape
<1>2. CASE ~RequiresPurge /\ vault # NoId /\ journal.phase = "IDLE" /\ ~LocalConsent
  <2>1. /\ journal' = Preflight(vault) /\ prefs' = prefs
        /\ ui' = [at |-> "close", j |-> Preflight(vault), then |-> "boot"]
    BY <1>2 DEF Launch
  <2>2. GoodJournal(Preflight(vault)) /\ Preflight(vault).phase = "RECONSENT_POLICY_PENDING"
    BY <1>2, PreflightGood, Zero DEF Shape
  <2>3. Fits("close", "boot", Preflight(vault))
    BY <2>2 DEF Fits, PolicyPending
  <2>4. GoodUi(ui')
    BY <2>1, <2>2, <2>3, UiAt DEF UiLabels, Thens
  <2> QED BY <1>0, <2>1, <2>2, <2>4 DEF Shape
<1>3. CASE ~RequiresPurge /\ ~(vault # NoId /\ journal.phase = "IDLE" /\ ~LocalConsent)
  <2>1. /\ journal' = journal /\ prefs' = prefs
        /\ ui' = [at |-> "refresh", j |-> journal, then |-> "resume"]
    BY <1>3 DEF Launch
  <2>2. Fits("refresh", "resume", journal)
    BY DEF Fits
  <2>3. GoodUi(ui')
    BY <2>1, <2>2, UiAt DEF Shape, UiLabels, Thens
  <2> QED BY <1>0, <2>1, <2>3 DEF Shape
<1> QED BY <1>1, <1>2, <1>3

LEMMA RefreshShape ==
  ASSUME Shape, Refresh PROVE Shape'
<1>0. /\ Server' /\ GoodWorker(worker') /\ vault' \in Ids \cup {NoId} /\ GoodJournal(journal')
      /\ drawn' \subseteq Ids /\ withdrawn' \in Ids \cup {NoId}
  BY ServerSame DEF Shape, Refresh
<1>1. stage' \in Stages
  <2>1. StageNow' \in Stages BY DEF StageNow, Stages
  <2> QED BY <2>1 DEF Refresh
<1>2. journal.consent \in 0..MaxPolicy
  BY DEF Shape, GoodJournal, Journal
<1>3. prefs' \in Prefs
  BY <1>2, PrefsGood DEF Refresh, Shape
<1>4. GoodUi(ui') /\ \A m \in wire' : GoodCall(m)
  <2>1. CASE ui.then = "resume" /\ ui.j.phase \in Mutations \cup PolicyPending
    <3>1. GoodJournal(ui.j) BY DEF Shape, GoodUi, GoodJournal
    <3> QED BY <2>1, <3>1, ResumeGood DEF Refresh
  <2>2. CASE ~(ui.then = "resume" /\ ui.j.phase \in Mutations \cup PolicyPending)
    BY <2>2, RestGood DEF Refresh, Shape
  <2> QED BY <2>1, <2>2
<1> QED BY <1>0, <1>1, <1>3, <1>4 DEF Shape

\* The taps that send what the journal holds, or begin an erasure.
LEMMA QuietTapsShape ==
  ASSUME Shape, \/ PairSame \/ \E k \in Codes : PairFresh(k)
                \/ Retry \/ RetryRevocation \/ ResetRevokedDevice \/ Look
  PROVE  Shape'
<1>0. \/ PairSame \/ (\E k \in Codes : PairFresh(k)) \/ Retry \/ RetryRevocation \/ ResetRevokedDevice \/ Look
      => UNCHANGED <<serverVars, journal, vault, prefs, rows, stage, worker, drawn, withdrawn>>
  BY DEF PairSame, PairFresh, Retry, RetryRevocation, ResetRevokedDevice, Look, NoStorageChange
<1>1. /\ Server' /\ GoodWorker(worker') /\ vault' \in Ids \cup {NoId} /\ GoodJournal(journal')
      /\ drawn' \subseteq Ids /\ withdrawn' \in Ids \cup {NoId} /\ stage' \in Stages /\ prefs' \in Prefs
  BY <1>0, ServerSame DEF Shape
<1>2. GoodUi(ui') /\ \A m \in wire' : GoodCall(m)
  <2>0. GoodJournal(journal) BY DEF Shape
  <2>1. CASE PairSame
    BY <2>0, <2>1, SendGood DEF PairSame, Sending, Mutations, PolicyPending
  <2>2. ASSUME NEW k \in Codes, PairFresh(k) PROVE GoodUi(ui') /\ \A m \in wire' : GoodCall(m)
    <3> DEFINE b == [Blank EXCEPT !.code = k]
    <3>1. b \in Journal /\ b.phase = "IDLE" /\ b.code = k
      BY BlankGood DEF GoodJournal, Journal
    <3>2. GoodJournal(b)
      BY <3>1 DEF GoodJournal, Resumable, ConsentPhases, NewSession, Rotation
    <3>3. b = [Blank EXCEPT !.code = b.code]
      BY <3>1
    <3>4. Fits("wipe", "pair", b)
      BY <3>1, <3>3 DEF Fits
    <3> QED BY <2>2, <3>2, <3>4, UiAt DEF PairFresh, UiLabels, Thens, Shape
  <2>3. CASE Retry
    BY <2>0, <2>3, ResumeGood DEF Retry
  <2>4. CASE RetryRevocation
    <3>1. journal.op \in Ids /\ journal.phase = "REVOKE_PENDING"
      BY <2>4, <2>0 DEF RetryRevocation, GoodJournal, Journal
    <3> QED BY <2>0, <2>4, <3>1, SendGood DEF RetryRevocation, Sending, Mutations, PolicyPending
  <2>5. CASE ResetRevokedDevice
    <3>1. Fits("wipe", "reset", Blank)
      BY DEF Fits, Blank
    <3> QED BY <2>5, <3>1, UiAt, BlankGood DEF ResetRevokedDevice, UiLabels, Thens, Shape
  <2>6. CASE Look
    BY <2>6, RestGood DEF Look, Done, Shape
  <2> QED BY <2>1, <2>2, <2>3, <2>4, <2>5, <2>6
<1> QED BY <1>1, <1>2 DEF Shape

LEMMA AcceptShape ==
  ASSUME Shape, Accept PROVE Shape'
<1>0. /\ Server' /\ GoodWorker(worker') /\ vault' \in Ids \cup {NoId} /\ stage' \in Stages
      /\ withdrawn' \in Ids \cup {NoId} /\ prefs' \in Prefs
  BY ServerSame DEF Shape, Accept
<1>1. ASSUME journal.phase \in {"DISCLOSURE_READY", "RECONSENT_READY"}, NEW n \in Fresh, Draw(n), NEW j,
             j = [journal EXCEPT !.req = n, !.consent = journal.policy],
             journal' = IF journal.phase = "DISCLOSURE_READY"
                        THEN [j EXCEPT !.phase = "ACTIVATION_PENDING", !.prop = n]
                        ELSE [j EXCEPT !.phase = "RECONSENT_PENDING"],
             Send(journal')
      PROVE  Shape'
  <2>1. n \in Ids /\ drawn' \subseteq Ids
    BY <1>1 DEF Fresh, AnyOf, Draw, Shape
  <2>2. /\ j \in Journal /\ j.req = n /\ j.consent = journal.policy /\ j.policy = journal.policy
        /\ j.phase = journal.phase /\ j.boot = journal.boot /\ j.op = journal.op
        /\ j.expected = journal.expected
    BY <1>1, <2>1 DEF Shape, GoodJournal, Journal
  <2>3. journal' \in Journal
    <3>1. "ACTIVATION_PENDING" \in Phases /\ "RECONSENT_PENDING" \in Phases
      BY DEF Phases, Mutations, ConsentPhases
    <3> QED BY <1>1, <2>1, <2>2, <3>1 DEF Journal
  <2>4. /\ journal'.req = n /\ journal'.consent = journal.policy /\ journal'.policy = journal.policy
        /\ journal'.boot = journal.boot /\ journal'.op = journal.op /\ journal'.expected = journal.expected
        /\ journal'.phase = (IF journal.phase = "DISCLOSURE_READY" THEN "ACTIVATION_PENDING"
                             ELSE "RECONSENT_PENDING")
        /\ journal'.phase = "ACTIVATION_PENDING" => journal'.prop = n
    BY <1>1, <2>2 DEF Journal
  <2>5. GoodJournal(journal')
    <3>1. CASE journal.phase = "DISCLOSURE_READY"
      <4>1. journal.boot \in Ids /\ journal.policy # 0
        BY <3>1 DEF Shape, GoodJournal, Resumable, NewSession
      <4> QED BY <2>1, <2>3, <2>4, <3>1, <4>1 DEF GoodJournal, Resumable, ConsentPhases, NewSession, Rotation
    <3>2. CASE journal.phase = "RECONSENT_READY"
      <4>1. journal.op \in Ids /\ journal.policy # 0 /\ journal.expected \in {0, journal.policy}
        BY <3>2 DEF Shape, GoodJournal, Resumable, ConsentPhases
      <4> QED BY <2>1, <2>3, <2>4, <3>2, <4>1 DEF GoodJournal, Resumable, ConsentPhases, NewSession, Rotation
    <3> QED BY <1>1, <3>1, <3>2
  <2>6. GoodUi(ui') /\ \A m \in wire' : GoodCall(m)
    <3>1. journal'.phase \in Sending /\ journal'.phase # "REVOKE_PENDING"
      BY <2>4 DEF Sending, Mutations, PolicyPending
    <3>2. Send(journal') BY <1>1
    <3> QED BY <2>5, <3>1, <3>2, SendGood
  <2> QED BY <1>0, <2>1, <2>5, <2>6 DEF Shape
<1>2. CASE /\ journal.phase \in {"ACTIVATION_PENDING", "RECONSENT_PENDING"}
           /\ Send(journal) /\ UNCHANGED <<journal, drawn>>
  <2>1. GoodUi(ui') /\ \A m \in wire' : GoodCall(m)
    BY <1>2, SendGood DEF Shape, Sending, Mutations, PolicyPending
  <2> QED BY <1>0, <1>2, <2>1 DEF Shape
<1> QED BY <1>1, <1>2 DEF Accept

LEMMA RotateShape ==
  ASSUME Shape, Rotate PROVE Shape'
<1>0. /\ Server' /\ GoodWorker(worker') /\ vault' \in Ids \cup {NoId} /\ stage' \in Stages
      /\ withdrawn' \in Ids \cup {NoId} /\ prefs' \in Prefs /\ vault \in Ids
  BY ServerSame DEF Shape, Rotate
<1>1. PICK n \in Fresh : /\ Draw(n)
                         /\ journal' = [journal EXCEPT !.phase = "ROTATION_PREPARE_PENDING",
                                                       !.req = n, !.prop = n, !.op = vault]
  BY DEF Rotate
<1>2. n \in Ids /\ drawn' \subseteq Ids
  BY <1>1 DEF Fresh, AnyOf, Draw, Shape
<1>3. journal' \in Journal
  BY <1>0, <1>1, <1>2 DEF Shape, GoodJournal, Journal, Phases, Mutations
<1>4. /\ journal'.phase = "ROTATION_PREPARE_PENDING" /\ journal'.req = n /\ journal'.prop = n
      /\ journal'.op = vault
  BY <1>1 DEF Shape, GoodJournal, Journal
<1>5. GoodJournal(journal')
  BY <1>0, <1>2, <1>3, <1>4 DEF GoodJournal, Resumable, ConsentPhases, NewSession, Rotation
<1>6. GoodUi(ui') /\ \A m \in wire' : GoodCall(m)
  BY <1>4, <1>5, SendGood DEF Rotate, Sending, Mutations, PolicyPending
<1> QED BY <1>0, <1>2, <1>5, <1>6 DEF Shape

LEMMA WithdrawShape ==
  ASSUME Shape, Withdraw PROVE Shape'
<1>0. /\ Server' /\ GoodWorker(worker') /\ vault' \in Ids \cup {NoId} /\ stage' \in Stages
      /\ withdrawn' \in Ids \cup {NoId} /\ prefs' \in Prefs /\ \A m \in wire' : GoodCall(m)
  BY ServerSame DEF Shape, Withdraw
<1>1. CASE journal.phase = "REVOKE_PENDING" /\ vault # NoId
  <2>1. GoWith("closeR", journal) /\ UNCHANGED <<journal, drawn>> /\ Fits("closeR", "idle", journal)
    BY <1>1 DEF Withdraw, Fits
  <2> QED BY <1>0, <2>1, UiGo DEF Shape, UiLabels
<1>2. CASE ~(journal.phase = "REVOKE_PENDING" /\ vault # NoId)
  <2>1. PICK n \in Fresh :
          /\ Draw(n)
          /\ journal' = [(IF vault = NoId THEN Blank ELSE journal) EXCEPT
                           !.phase = "REVOKE_PENDING", !.req = n, !.op = vault]
          /\ GoWith("closeR", journal')
    BY <1>2 DEF Withdraw
  <2>2. n \in Ids /\ drawn' \subseteq Ids
    BY <2>1 DEF Fresh, AnyOf, Draw, Shape
  <2>3. PICK b \in Journal : journal' = [b EXCEPT !.phase = "REVOKE_PENDING", !.req = n, !.op = vault]
    BY <2>1, BlankGood DEF Shape, GoodJournal
  <2>4. journal' \in Journal
    BY <2>2, <2>3 DEF Shape, Journal, Phases, Mutations
  <2>5. journal'.phase = "REVOKE_PENDING" /\ journal'.req = n
    BY <2>3 DEF Journal
  <2>6. GoodJournal(journal')
    BY <2>2, <2>4, <2>5 DEF GoodJournal, Resumable, ConsentPhases, NewSession, Rotation
  <2>7. Fits("closeR", "idle", journal')
    BY <2>5 DEF Fits
  <2> QED BY <1>0, <2>1, <2>2, <2>6, <2>7, UiGo DEF Shape, UiLabels
<1> QED BY <1>1, <1>2

LEMMA AcknowledgedShape ==
  ASSUME Shape, Acknowledged PROVE Shape'
<1> DEFINE j == ui.j
<1>0. /\ Server' /\ GoodWorker(worker') /\ stage' \in Stages
      /\ withdrawn' \in Ids \cup {NoId} /\ prefs' \in Prefs
  BY ServerSame DEF Shape, Acknowledged
<1>1. /\ GoodJournal(j) /\ j.phase \in Sending /\ ui.at = "ok"
      /\ j.prop \in Ids \cup {NoId}
  BY DEF Shape, GoodUi, GoodJournal, Fits, Acknowledged, Journal
<1>2. CASE j.phase = "REDEEM_PENDING"
  <2>1. Goto("fetch") /\ UNCHANGED <<journal, vault, wire, drawn>>
    BY <1>2 DEF Acknowledged
  <2>2. Fits("fetch", ui.then, ui.j)
    BY <1>2 DEF Fits
  <2> QED BY <1>0, <2>1, <2>2, UiGoto DEF Shape, UiLabels
<1>3. CASE j.phase = "ACTIVATION_PENDING"
  <2>1. vault' = j.prop /\ Goto("vaulted") /\ UNCHANGED <<journal, wire, drawn>>
    BY <1>3 DEF Acknowledged
  <2>2. Fits("vaulted", ui.then, ui.j)
    BY <1>3 DEF Fits
  <2> QED BY <1>0, <1>1, <2>1, <2>2, UiGoto DEF Shape, UiLabels
<1>4. CASE j.phase = "RECONSENT_PENDING"
  <2>1. Goto("clear") /\ UNCHANGED <<journal, vault, wire, drawn>>
    BY <1>4 DEF Acknowledged
  <2>2. Fits("clear", ui.then, ui.j)
    BY <1>4 DEF Fits
  <2> QED BY <1>0, <2>1, <2>2, UiGoto DEF Shape, UiLabels
<1>5. CASE j.phase = "ROTATION_PREPARE_PENDING"
  <2>1. PICK n \in Fresh :
          /\ Draw(n)
          /\ journal' = [j EXCEPT !.phase = "ROTATION_CONFIRM_PENDING", !.req = n]
          /\ Send(journal')
          /\ UNCHANGED vault
    BY <1>5 DEF Acknowledged
  <2>2. n \in Ids /\ drawn' \subseteq Ids
    BY <2>1 DEF Fresh, AnyOf, Draw, Shape
  <2>3. j \in Journal /\ j.op \in Ids /\ j.prop \in Ids
    BY <1>1, <1>5 DEF GoodJournal, Resumable, Rotation
  <2> HIDE DEF j
  <2>4. journal' \in Journal
    BY <2>1, <2>2, <2>3 DEF Journal, Phases, Mutations
  <2>5. /\ journal'.phase = "ROTATION_CONFIRM_PENDING" /\ journal'.req = n
        /\ journal'.op = j.op /\ journal'.prop = j.prop
    BY <2>1, <2>3 DEF Journal
  <2>6. GoodJournal(journal')
    BY <2>2, <2>3, <2>4, <2>5 DEF GoodJournal, Resumable, ConsentPhases, NewSession, Rotation
  <2>7. GoodUi(ui') /\ \A m \in wire' : GoodCall(m)
    BY <2>1, <2>5, <2>6, SendGood DEF Sending, Mutations, PolicyPending
  <2> QED BY <1>0, <2>1, <2>2, <2>6, <2>7 DEF Shape
<1>6. CASE j.phase = "ROTATION_CONFIRM_PENDING"
  <2>1. vault' = j.prop /\ Goto("clear") /\ UNCHANGED <<journal, wire, drawn>>
    BY <1>6 DEF Acknowledged
  <2>2. Fits("clear", ui.then, ui.j)
    BY <1>6 DEF Fits
  <2> QED BY <1>0, <1>1, <2>1, <2>2, UiGoto DEF Shape, UiLabels
<1>7. CASE j.phase = "REVOKE_PENDING"
  <2>1. vault' = NoId /\ Goto("revJ") /\ UNCHANGED <<journal, wire, drawn>>
    BY <1>7 DEF Acknowledged
  <2>2. Fits("revJ", ui.then, ui.j)
    BY <1>7 DEF Fits
  <2> QED BY <1>0, <2>1, <2>2, UiGoto DEF Shape, UiLabels
<1> QED BY <1>1, <1>2, <1>3, <1>4, <1>5, <1>6, <1>7 DEF Sending, Mutations, PolicyPending

LEMMA RecoverShape ==
  ASSUME Shape, RecoverFromConsentRequired PROVE Shape'
<1>0. /\ Server' /\ GoodWorker(worker') /\ stage' \in Stages /\ vault' \in Ids \cup {NoId}
      /\ withdrawn' \in Ids \cup {NoId} /\ prefs' \in Prefs /\ drawn' \subseteq Ids
      /\ \A m \in wire' : GoodCall(m)
  BY ServerSame DEF Shape, RecoverFromConsentRequired
<1>1. CASE journal.phase = "ACTIVATION_PENDING"
  <2>1. /\ journal' = [journal EXCEPT !.phase = "ACTIVATION_POLICY_PENDING", !.req = NoId,
                         !.policy = 0, !.expected = 0, !.prop = NoId, !.consent = 0, !.op = NoId]
        /\ GoWith("close", journal')
    BY <1>1 DEF RecoverFromConsentRequired
  <2>2. journal \in Journal /\ journal.boot \in Ids
    BY <1>1 DEF Shape, GoodJournal, Resumable, NewSession
  <2>3. journal' \in Journal
    BY <2>1, <2>2, Zero DEF Journal, Phases, Mutations
  <2>4. journal'.phase = "ACTIVATION_POLICY_PENDING" /\ journal'.boot = journal.boot
    BY <2>1, <2>2 DEF Journal
  <2>5. GoodJournal(journal')
    BY <2>2, <2>3, <2>4 DEF GoodJournal, Resumable, ConsentPhases, NewSession, Rotation
  <2>6. Fits("close", "idle", journal')
    BY <2>4 DEF Fits, PolicyPending
  <2> QED BY <1>0, <2>1, <2>5, <2>6, UiGo DEF Shape, UiLabels
<1>2. CASE journal.phase \in {"RECONSENT_PENDING", "ROTATION_PREPARE_PENDING"}
  <2>1. journal' = Preflight(Bearer(journal)) /\ GoWith("close", journal')
    BY <1>2 DEF RecoverFromConsentRequired
  <2>2. Bearer(journal) \in Ids
    BY <1>2, ConstantsDistinct DEF Shape, GoodJournal, Resumable, ConsentPhases, Rotation, Bearer
  <2>3. GoodJournal(journal') /\ journal'.phase = "RECONSENT_POLICY_PENDING"
    BY <2>1, <2>2, PreflightGood, Zero
  <2>4. Fits("close", "idle", journal')
    BY <2>3 DEF Fits, PolicyPending
  <2> QED BY <1>0, <2>1, <2>3, <2>4, UiGo DEF Shape, UiLabels
<1>3. CASE journal.phase \notin {"ACTIVATION_PENDING", "RECONSENT_PENDING", "ROTATION_PREPARE_PENDING"}
  <2>1. Done /\ UNCHANGED journal
    BY <1>3 DEF RecoverFromConsentRequired
  <2> QED BY <1>0, <2>1, RestGood DEF Shape, Done
<1> QED BY <1>1, <1>2, <1>3

LEMMA PolicyFetchedShape ==
  ASSUME Shape, PolicyFetched PROVE Shape'
<1> DEFINE j == ui.j
<1>0. /\ Server' /\ GoodWorker(worker') /\ stage' \in Stages /\ vault' \in Ids \cup {NoId}
      /\ withdrawn' \in Ids \cup {NoId} /\ prefs' \in Prefs /\ drawn' \subseteq Ids
      /\ \A m \in wire' : GoodCall(m)
  BY ServerSame DEF Shape, PolicyFetched
<1>1. /\ GoodJournal(j) /\ j \in Journal
      /\ j.phase \in PolicyPending \cup {"ACTIVATION_PENDING", "REDEEM_PENDING"}
  BY DEF Shape, GoodUi, GoodJournal, Fits, PolicyFetched
<1>2. policy # 0 /\ policy \in 0..MaxPolicy /\ j.expected \in {0, policy}
  BY DEF PolicyFetched, Served, Shape, Server, TypeOK, PolicyShape
<1>3. CASE j.phase = "REDEEM_PENDING"
  <2>1. /\ journal' = [j EXCEPT !.phase = "DISCLOSURE_READY", !.req = NoId,
                         !.code = NoCode, !.policy = policy]
        /\ Done
    BY <1>3 DEF PolicyFetched
  <2>2. j.boot \in Ids
    BY <1>1, <1>3 DEF GoodJournal, Resumable
  <2> HIDE DEF j
  <2>3. journal' \in Journal
    BY <1>1, <1>2, <2>1 DEF Journal, Phases
  <2>4. journal'.phase = "DISCLOSURE_READY" /\ journal'.boot = j.boot /\ journal'.policy = policy
    BY <1>1, <2>1 DEF Journal
  <2>5. GoodJournal(journal')
    BY <1>2, <2>2, <2>3, <2>4 DEF GoodJournal, Resumable, ConsentPhases, NewSession, Rotation
  <2> QED BY <1>0, <2>1, <2>5, RestGood DEF Shape, Done
<1>4. CASE j.phase = "ACTIVATION_POLICY_PENDING"
  <2>1. journal' = [j EXCEPT !.phase = "DISCLOSURE_READY", !.policy = policy] /\ Done
    BY <1>4 DEF PolicyFetched
  <2>2. j.boot \in Ids
    BY <1>1, <1>4 DEF GoodJournal, Resumable, NewSession
  <2> HIDE DEF j
  <2>3. journal' \in Journal
    BY <1>1, <1>2, <2>1 DEF Journal, Phases
  <2>4. journal'.phase = "DISCLOSURE_READY" /\ journal'.boot = j.boot /\ journal'.policy = policy
    BY <1>1, <2>1 DEF Journal
  <2>5. GoodJournal(journal')
    BY <1>2, <2>2, <2>3, <2>4 DEF GoodJournal, Resumable, ConsentPhases, NewSession, Rotation
  <2> QED BY <1>0, <2>1, <2>5, RestGood DEF Shape, Done
<1>5. CASE j.phase = "RECONSENT_POLICY_PENDING"
  <2>1. journal' = [j EXCEPT !.phase = "RECONSENT_READY", !.policy = policy] /\ Done
    BY <1>5 DEF PolicyFetched
  <2>2. j.op \in Ids
    BY <1>1, <1>5 DEF GoodJournal, Resumable, ConsentPhases
  <2> HIDE DEF j
  <2>3. journal' \in Journal
    BY <1>1, <1>2, <2>1 DEF Journal, Phases, ConsentPhases
  <2>4. /\ journal'.phase = "RECONSENT_READY" /\ journal'.op = j.op /\ journal'.policy = policy
        /\ journal'.expected = j.expected
    BY <1>1, <2>1 DEF Journal
  <2>5. GoodJournal(journal')
    BY <1>2, <2>2, <2>3, <2>4 DEF GoodJournal, Resumable, ConsentPhases, NewSession, Rotation
  <2> QED BY <1>0, <2>1, <2>5, RestGood DEF Shape, Done
<1>6. CASE j.phase = "ACTIVATION_PENDING" /\ j.consent # policy
  <2>1. /\ journal' = [Preflight(j.prop) EXCEPT !.phase = "RECONSENT_READY", !.policy = policy]
        /\ Done
    BY <1>6 DEF PolicyFetched
  <2>2. j.prop \in Ids
    BY <1>1, <1>6 DEF GoodJournal, Resumable
  <2> HIDE DEF j
  <2>5. GoodJournal(journal')
    BY <1>2, <2>1, <2>2, ReconsentReadyGood
  <2> QED BY <1>0, <2>1, <2>5, RestGood DEF Shape, Done
<1>7. CASE j.phase = "ACTIVATION_PENDING" /\ j.consent = policy
  <2>1. Goto("clear") /\ UNCHANGED journal
    BY <1>7 DEF PolicyFetched
  <2>2. Fits("clear", ui.then, ui.j)
    BY <1>7 DEF Fits
  <2> QED BY <1>0, <2>1, <2>2, UiGoto DEF Shape, UiLabels
<1> QED BY <1>1, <1>3, <1>4, <1>5, <1>6, <1>7 DEF PolicyPending

LEMMA PurgeShape ==
  ASSUME Shape, Purge PROVE Shape'
<1>0. /\ Server' /\ GoodWorker(worker') /\ stage' \in Stages /\ vault' \in Ids \cup {NoId}
      /\ withdrawn' \in Ids \cup {NoId} /\ prefs' \in Prefs /\ drawn' \subseteq Ids
      /\ GoodJournal(journal')
  BY ServerSame, PrefsGood DEF Shape, Purge
<1>1. GoodUi(ui') /\ \A m \in wire' : GoodCall(m)
  <2>1. CASE ui.at = "purge" /\ ui.then = "boot"
    <3>1. ui' = [ui EXCEPT !.at = "refresh", !.then = "resume"] /\ wire' = wire
      BY <2>1 DEF Purge
    <3>2. /\ ui' \in [at : UiLabels, j : Journal, then : Thens]
          /\ ui'.at = "refresh" /\ ui'.j = ui.j /\ ui'.then = "resume"
      BY <3>1 DEF Shape, GoodUi, UiLabels, Thens
    <3>3. Fits("refresh", "resume", ui.j)
      BY DEF Fits
    <3> QED BY <3>1, <3>2, <3>3 DEF Shape, GoodUi
  <2>2. CASE ui.at = "purge" /\ ui.then # "boot"
    <3>1. Goto("fetch") /\ wire' = wire
      BY <2>2 DEF Purge
    <3>2. Fits("fetch", ui.then, ui.j)
      BY <2>2 DEF Shape, GoodUi, Fits
    <3> QED BY <3>1, <3>2, UiGoto DEF Shape, UiLabels
  <2>3. CASE ui.at = "purgeR" /\ ui.j.op = NoId
    <3>1. Goto("revJ") /\ wire' = wire
      BY <2>3 DEF Purge
    <3>2. Fits("revJ", ui.then, ui.j)
      BY <2>3 DEF Shape, GoodUi, Fits
    <3> QED BY <3>1, <3>2, UiGoto DEF Shape, UiLabels
  <2>4. CASE ui.at = "purgeR" /\ ui.j.op # NoId
    <3>1. Send(ui.j)
      BY <2>4 DEF Purge
    <3>2. GoodJournal(ui.j) /\ ui.j.phase = "REVOKE_PENDING" /\ ui.j.op \in Ids
      BY <2>4 DEF Shape, GoodUi, GoodJournal, Fits, Journal
    <3> QED BY <3>1, <3>2, SendGood DEF Sending, Mutations, PolicyPending
  <2> QED BY <2>1, <2>2, <2>3, <2>4 DEF Purge
<1> QED BY <1>0, <1>1 DEF Shape

\* The other steps of the view model.
LEMMA UiShape ==
  ASSUME Shape, \/ GiveUp \/ JournalPreflight \/ CloseGate \/ ClearJournal \/ WriteIdle \/ OpenGate
                \/ FinishRevocation \/ WipeVault \/ WipeJournal \/ WipeData \/ ForgetRevocation
  PROVE  Shape'
<1>0. UNCHANGED <<serverVars, stage, worker, wire, drawn, withdrawn>>
  BY DEF GiveUp, JournalPreflight, CloseGate, ClearJournal, WriteIdle, OpenGate, NoStorageChange,
         FinishRevocation, WipeVault, WipeJournal, WipeData, ForgetRevocation
<1>1. /\ Server' /\ GoodWorker(worker') /\ stage' \in Stages
      /\ withdrawn' \in Ids \cup {NoId} /\ drawn' \subseteq Ids /\ \A m \in wire' : GoodCall(m)
  BY <1>0, ServerSame DEF Shape
<1>2. GoodJournal(ui.j) /\ ui.j \in Journal /\ ui.j.consent \in 0..MaxPolicy
  BY DEF Shape, GoodUi, GoodJournal, Journal
<1>3. GoodUi(ui)
  BY DEF Shape
<1>4. CASE GiveUp
  BY <1>1, <1>4, RestGood DEF Shape, GiveUp, NoStorageChange, Done
<1>5. CASE JournalPreflight
  <2>1. ui.j.phase = "ACTIVATION_PENDING" /\ ui.j.prop \in Ids
    BY <1>2, <1>5 DEF JournalPreflight, Shape, GoodUi, Fits, Resumable
  <2>2. Fits("close", ui.then, ui.j)
    BY <2>1 DEF Fits
  <2> QED BY <1>1, <1>5, <2>1, <2>2, UiGoto, PreflightGood, Zero DEF JournalPreflight, UiLabels, Shape
<1>6. CASE CloseGate
  <2>1. CASE ui.at = "close"
    <3>1. Fits("purge", ui.then, ui.j)
      BY <1>3, <2>1 DEF GoodUi, Fits
    <3> QED BY <1>1, <1>6, <2>1, <3>1, UiGoto, PrefsGood DEF CloseGate, UiLabels, Shape
  <2>2. CASE ui.at = "closeR"
    <3>1. Fits("purgeR", ui.then, ui.j)
      BY <1>3, <2>2 DEF GoodUi, Fits
    <3> QED BY <1>1, <1>6, <2>2, <3>1, UiGoto, PrefsGood DEF CloseGate, UiLabels, Shape
  <2> QED BY <1>6, <2>1, <2>2 DEF CloseGate
<1>7. CASE ClearJournal
  <2>1. CASE ui.at = "clear" /\ Goto("idling")
    <3>1. Fits("idling", ui.then, ui.j)
      BY <1>3, <2>1 DEF GoodUi, Fits
    <3> QED BY <1>1, <1>7, <2>1, <3>1, UiGoto, BlankGood DEF ClearJournal, UiLabels, Shape
  <2>2. CASE ui.at = "revJ" /\ Goto("revE")
    <3>1. Fits("revE", ui.then, ui.j)
      BY <1>3, <2>2 DEF GoodUi, Fits
    <3> QED BY <1>1, <1>7, <2>2, <3>1, UiGoto, BlankGood DEF ClearJournal, UiLabels, Shape
  <2> QED BY <1>7, <2>1, <2>2 DEF ClearJournal
<1>8. CASE WriteIdle
  <2>1. GoodJournal(journal')
    BY <1>2, <1>8, IdleGood DEF WriteIdle
  <2>2. GoodUi(ui')
    <3>1. CASE ui.j.phase = "ROTATION_CONFIRM_PENDING"
      BY <1>8, <3>1, RestGood DEF WriteIdle, Done
    <3>2. CASE ui.j.phase # "ROTATION_CONFIRM_PENDING"
      <4>1. Goto("open") BY <1>8, <3>2 DEF WriteIdle
      <4>2. Fits("open", ui.then, ui.j)
        BY <1>3, <1>8, <3>2 DEF WriteIdle, GoodUi, Fits
      <4> QED BY <1>3, <4>1, <4>2, UiGoto DEF UiLabels
    <3> QED BY <3>1, <3>2
  <2> QED BY <1>1, <1>8, <2>1, <2>2 DEF WriteIdle, Shape
<1>9. CASE OpenGate
  BY <1>1, <1>2, <1>9, RestGood, PrefsGood DEF OpenGate, Done, Shape
<1>10. CASE FinishRevocation
  <2>1. prefs' \in Prefs
    BY <1>10 DEF FinishRevocation, Shape, Prefs
  <2> QED BY <1>1, <1>10, <2>1, RestGood DEF FinishRevocation, Done, Shape
<1>11. CASE WipeVault
  <2>1. Fits("wipeJ", ui.then, ui.j)
    BY <1>3, <1>11 DEF WipeVault, GoodUi, Fits
  <2> QED BY <1>1, <1>11, <2>1, UiGoto DEF WipeVault, UiLabels, Shape
<1>12. CASE WipeJournal
  <2>1. Fits("wipeD", ui.then, ui.j)
    BY <1>3, <1>12 DEF WipeJournal, GoodUi, Fits
  <2> QED BY <1>1, <1>12, <2>1, UiGoto, BlankGood DEF WipeJournal, UiLabels, Shape
<1>13. CASE WipeData
  <2>1. Fits("wiped", ui.then, ui.j)
    BY <1>3, <1>13 DEF WipeData, GoodUi, Fits
  <2> QED BY <1>1, <1>13, <2>1, UiGoto, PrefsGood DEF WipeData, UiLabels, Shape
<1>14. CASE ForgetRevocation
  <2>1. prefs' \in Prefs
    BY <1>14 DEF ForgetRevocation, Shape, Prefs
  <2>2. GoodUi(ui')
    <3>1. CASE ui.then = "pair" /\ Goto("redeem")
      <4>1. Fits("redeem", ui.then, ui.j)
        BY <1>3, <1>14, <3>1 DEF ForgetRevocation, GoodUi, Fits
      <4> QED BY <1>3, <3>1, <4>1, UiGoto DEF UiLabels
    <3>2. CASE Done
      BY <3>2, RestGood DEF Done
    <3> QED BY <1>14, <3>1, <3>2 DEF ForgetRevocation
  <2> QED BY <1>1, <1>14, <2>1, <2>2 DEF ForgetRevocation, Shape
<1> QED BY <1>4, <1>5, <1>6, <1>7, <1>8, <1>9, <1>10, <1>11, <1>12, <1>13, <1>14

LEMMA JournalRedeemShape ==
  ASSUME Shape, JournalRedeem PROVE Shape'
<1>0. /\ Server' /\ GoodWorker(worker') /\ stage' \in Stages /\ vault' \in Ids \cup {NoId}
      /\ prefs' \in Prefs /\ withdrawn' \in Ids \cup {NoId}
  BY ServerSame DEF Shape, JournalRedeem
<1>1. PICK n \in Fresh, d \in NewPhone :
        /\ Draw(n)
        /\ journal' = [Blank EXCEPT !.phase = "REDEEM_PENDING", !.req = n, !.boot = n,
                                    !.code = ui.j.code, !.dev = d]
  BY DEF JournalRedeem
<1>2. n \in Ids /\ drawn' \subseteq Ids /\ d \in Devices
  BY <1>1 DEF Fresh, NewPhone, AnyOf, Draw, Shape
<1>3. ui.j.code \in Codes
  BY DEF JournalRedeem, Shape, GoodUi, Fits
<1>4. journal' \in Journal
  BY <1>1, <1>2, <1>3, BlankGood DEF GoodJournal, Journal, Phases, Mutations
<1>5. /\ journal'.phase = "REDEEM_PENDING" /\ journal'.req = n /\ journal'.boot = n
      /\ journal'.code = ui.j.code /\ journal'.dev = d
  BY <1>1, BlankGood DEF GoodJournal, Journal
<1>6. GoodJournal(journal')
  BY <1>2, <1>3, <1>4, <1>5 DEF GoodJournal, Resumable, ConsentPhases, NewSession, Rotation
<1>7. GoodUi(ui') /\ \A m \in wire' : GoodCall(m)
  BY <1>5, <1>6, SendGood DEF JournalRedeem, Sending, Mutations, PolicyPending
<1> QED BY <1>0, <1>2, <1>6, <1>7 DEF Shape

LEMMA WorkerShape ==
  ASSUME Shape, WorkerSteps PROVE Shape'
<1>0. UNCHANGED <<serverVars, ui, stage, wire, drawn, withdrawn>>
  BY DEF WorkerSteps, WorkerStarts, Heartbeat, Scan, Enqueue, Upload, WorkerStops, DemandConsent,
         WorkerCloses, WorkerFetchesPolicy, WorkerErases, WorkerOnly
<1>1. /\ Server' /\ GoodUi(ui') /\ stage' \in Stages
      /\ withdrawn' \in Ids \cup {NoId} /\ drawn' \subseteq Ids /\ \A m \in wire' : GoodCall(m)
  BY <1>0, ServerSame DEF Shape
<1>2. /\ GoodWorker(worker) /\ GoodJournal(journal) /\ prefs \in Prefs /\ vault \in Ids \cup {NoId}
      /\ journal.consent \in 0..MaxPolicy /\ prefs.since \in 0..MaxPolicy /\ policy \in 0..MaxPolicy
  BY DEF Shape, GoodJournal, Journal, Prefs, Server, TypeOK
<1>3. SUFFICES GoodWorker(worker') /\ GoodJournal(journal') /\ prefs' \in Prefs
               /\ vault' \in Ids \cup {NoId}
  BY <1>1 DEF Shape
<1>4. CASE WorkerStarts
  <2>1. ASSUME NEW at \in WorkerLabels \ {"off"}, at \in WipeLabels \/ vault \in Ids,
               worker' = [NoWorker EXCEPT !.at = at, !.cred = vault, !.under = journal.consent]
        PROVE  GoodWorker(worker')
    <3>1. worker' \in Workers /\ worker'.at = at /\ worker'.cred = vault
      BY <1>2, <2>1, WorkerRestsGood DEF GoodWorker, Workers
    <3> QED BY <2>1, <3>1 DEF GoodWorker
  <2>2. PICK at \in {"wipe", "close", "closeR", "demand", "beat"} :
          /\ worker' = [NoWorker EXCEPT !.at = at, !.cred = vault, !.under = journal.consent]
          /\ at = "wipe" \/ vault # NoId
    BY <1>4 DEF WorkerStarts
  <2>3. GoodWorker(worker')
    BY <1>2, <2>1, <2>2 DEF WorkerLabels, WipeLabels
  <2> QED BY <1>2, <1>4, <2>3 DEF WorkerStarts, NoStorageChange
<1>5. CASE Heartbeat
  <2>0. worker.cred \in Ids
    BY <1>2, <1>5 DEF Heartbeat, GoodWorker, WipeLabels
  <2>1. CASE WGoto("wipe")
    BY <1>2, <1>5, <2>1, WorkerGoto DEF Heartbeat, NoStorageChange, WorkerLabels, WipeLabels
  <2>2. CASE worker' = [worker EXCEPT !.at = "demand", !.expected = policy]
    <3>1. worker' \in Workers /\ worker'.at = "demand" /\ worker'.cred = worker.cred
      BY <1>2, <2>2 DEF GoodWorker, Workers, WorkerLabels
    <3> QED BY <1>2, <1>5, <2>0, <3>1 DEF Heartbeat, NoStorageChange, GoodWorker
  <2>3. CASE worker' = [worker EXCEPT !.at = "scan"]
    <3>1. worker' \in Workers /\ worker'.at = "scan" /\ worker'.cred = worker.cred
      BY <1>2, <2>3 DEF GoodWorker, Workers, WorkerLabels
    <3> QED BY <1>2, <1>5, <2>0, <3>1 DEF Heartbeat, NoStorageChange, GoodWorker
  <2>4. CASE worker' = NoWorker
    BY <1>2, <1>5, <2>4, WorkerRestsGood DEF Heartbeat, NoStorageChange
  <2> QED BY <1>5, <2>1, <2>2, <2>3, <2>4 DEF Heartbeat, GateThen, WorkerRests
<1>6. CASE Scan
  <2>1. CASE worker' = [worker EXCEPT !.at = "enqueue", !.since = prefs.since]
    <3>0. worker.cred \in Ids
      BY <1>2, <1>6 DEF Scan, GoodWorker, WipeLabels
    <3>1. worker' \in Workers /\ worker'.at = "enqueue" /\ worker'.cred = worker.cred
      BY <1>2, <2>1 DEF GoodWorker, Workers, WorkerLabels
    <3> QED BY <1>2, <1>6, <3>0, <3>1 DEF Scan, NoStorageChange, GoodWorker
  <2>2. CASE worker' = NoWorker
    BY <1>2, <1>6, <2>2, WorkerRestsGood DEF Scan, NoStorageChange
  <2> QED BY <1>6, <2>1, <2>2 DEF Scan, GateThen
<1>7. CASE Enqueue
  <2>1. CASE worker' = [worker EXCEPT !.at = "upload"]
    <3>0. worker.cred \in Ids
      BY <1>2, <1>7 DEF Enqueue, GoodWorker, WipeLabels
    <3>1. worker' \in Workers /\ worker'.at = "upload" /\ worker'.cred = worker.cred
      BY <1>2, <2>1 DEF GoodWorker, Workers, WorkerLabels
    <3> QED BY <1>2, <1>7, <3>0, <3>1 DEF Enqueue, GoodWorker
  <2>2. CASE worker' = NoWorker
    BY <1>2, <1>7, <2>2, WorkerRestsGood DEF Enqueue
  <2> QED BY <1>7, <2>1, <2>2 DEF Enqueue, GateThen
<1>8. CASE Upload
  <2>1. worker.cred \in Ids
    BY <1>2, <1>8 DEF Upload, GoodWorker, WipeLabels
  <2>2. PICK at \in {"wipe", "demand", "last"} : WGoto(at)
    BY <1>8 DEF Upload
  <2> QED BY <1>2, <1>8, <2>1, <2>2, WorkerGoto DEF Upload, WorkerLabels
<1>9. CASE WorkerStops
  BY <1>2, <1>9, WorkerRestsGood DEF WorkerStops, NoStorageChange, WorkerRests
<1>10. CASE DemandConsent
  <2>1. worker.cred \in Ids /\ worker.expected \in 0..MaxPolicy
    BY <1>2, <1>10 DEF DemandConsent, GoodWorker, WipeLabels, Workers
  <2>2. worker' = [worker EXCEPT !.at = "close", !.then = "policy"]
    BY <1>10 DEF DemandConsent
  <2>3. worker' \in Workers /\ worker'.at = "close" /\ worker'.cred = worker.cred
    BY <1>2, <2>2 DEF GoodWorker, Workers, WorkerLabels
  <2>4. GoodWorker(worker')
    BY <2>1, <2>3 DEF GoodWorker
  <2>5. GoodJournal(journal')
    BY <1>10, <2>1, PreflightGood DEF DemandConsent
  <2> QED BY <1>2, <1>10, <2>4, <2>5 DEF DemandConsent
<1>11. CASE WorkerCloses
  <2>1. worker.cred \in Ids
    BY <1>2, <1>11 DEF WorkerCloses, GoodWorker, WipeLabels
  <2>2. prefs' \in Prefs
    <3>1. [prefs EXCEPT !.revoked = TRUE, !.pending = TRUE] \in Prefs
      BY <1>2 DEF Prefs
    <3> QED BY <1>2, <1>11, <3>1, PrefsGood DEF WorkerCloses
  <2>3. \/ \E at \in {"close", "purge", "reset", "policy"} : WGoto(at)
        \/ worker' = NoWorker
    BY <1>11 DEF WorkerCloses, WorkerRests
  <2>4. GoodWorker(worker')
    BY <1>2, <2>1, <2>3, WorkerGoto, WorkerRestsGood DEF WorkerLabels
  <2> QED BY <1>2, <1>11, <2>2, <2>4 DEF WorkerCloses
<1>12. CASE WorkerFetchesPolicy
  <2>1. worker.cred \in Ids
    BY <1>2, <1>12 DEF WorkerFetchesPolicy, GoodWorker, WipeLabels
  <2>2. policy # 0 /\ worker.expected \in {0, policy}
    BY <1>12 DEF WorkerFetchesPolicy, Served, Shape, Server, PolicyShape
  <2>3. GoodJournal(journal')
    BY <1>2, <1>12, <2>1, <2>2, ReconsentReadyGood DEF WorkerFetchesPolicy
  <2> QED BY <1>2, <1>12, <2>3, WorkerRestsGood DEF WorkerFetchesPolicy, WorkerRests
<1>13. CASE WorkerErases
  <2>1. prefs' \in Prefs
    <3>1. [prefs EXCEPT !.pending = FALSE] \in Prefs
      BY <1>2 DEF Prefs
    <3> QED BY <1>2, <1>13, <3>1, PrefsGood DEF WorkerErases
  <2>2. GoodWorker(worker')
    BY <1>2, <1>13, WorkerGoto, WorkerRestsGood DEF WorkerErases, WorkerRests, WorkerLabels, WipeLabels
  <2>3. GoodJournal(journal') /\ vault' \in Ids \cup {NoId}
    BY <1>2, <1>13, BlankGood DEF WorkerErases
  <2> QED BY <2>1, <2>2, <2>3
<1> QED BY <1>4, <1>5, <1>6, <1>7, <1>8, <1>9, <1>10, <1>11, <1>12, <1>13 DEF WorkerSteps

\* The process, the network and the server.
LEMMA WorldShape ==
  ASSUME Shape, Crash \/ ServerSteps \/ \E m \in wire : Serve(m) \/ ServeStale(m) \/ Lose(m)
  PROVE  Shape'
<1>1. CASE Crash
  BY <1>1, ServerSame, RestGood, WorkerRestsGood DEF Crash, Shape, NoStorageChange, WorkerRests
<1>2. CASE ServerSteps
  BY <1>2, ServerStepKeeps DEF ServerSteps, Shape, phoneVars
<1>3. ASSUME NEW m \in wire, NEW at \in {"ok", "stale"}, Answered(m, at), Server' PROVE Shape'
  <2>1. GoodUi(ui')
    <3>1. CASE ui.at = "await" /\ Goto(at)
      <4>1. Fits(at, ui.then, ui.j)
        BY <3>1 DEF Shape, GoodUi, Fits
      <4> QED BY <3>1, <4>1, UiGoto DEF Shape, UiLabels
    <3>2. CASE UNCHANGED ui
      BY <3>2 DEF Shape
    <3> QED BY <1>3, <3>1, <3>2 DEF Answered
  <2> QED BY <1>3, <2>1 DEF Answered, Shape
<1>4. ASSUME NEW m \in wire, Serve(m) PROVE Shape'
  BY <1>3, <1>4, ServeKeeps DEF Serve, Shape
<1>5. ASSUME NEW m \in wire, ServeStale(m) PROVE Shape'
  <2>1. UNCHANGED serverVars
    BY <1>5 DEF ServeStale, Answered, serverVars
  <2> QED BY <1>3, <1>5, <2>1, ServerSame DEF ServeStale, Shape
<1>6. ASSUME NEW m \in wire, Lose(m) PROVE Shape'
  BY <1>6, ServerSame DEF Lose, Shape, phoneVars
<1> QED BY <1>1, <1>2, <1>4, <1>5, <1>6

LEMMA ShapeInit == PhoneInit => Shape
<1> SUFFICES ASSUME PhoneInit PROVE Shape
  OBVIOUS
<1>1. Server
  BY TypeInit DEF PhoneInit, Server, Init, PolicyShape
<1>2. prefs \in Prefs
  BY Zero DEF PhoneInit, Prefs
<1> QED BY <1>1, <1>2, BlankGood, RestGood, WorkerRestsGood DEF PhoneInit, Shape, Stages

LEMMA ShapeStep == Shape /\ [PhoneNext]_allVars => Shape'
<1> SUFFICES ASSUME Shape, [PhoneNext]_allVars PROVE Shape'
  OBVIOUS
<1>1. CASE Taps
  BY <1>1, QuietTapsShape, AcceptShape, RotateShape, WithdrawShape DEF Taps
<1>2. CASE UiSteps
  BY <1>2, LaunchShape, RefreshShape, AcknowledgedShape, RecoverShape, PolicyFetchedShape,
     PurgeShape, UiShape, JournalRedeemShape DEF UiSteps
<1>3. CASE UNCHANGED allVars
  BY <1>3, ServerSame DEF allVars, phoneVars, Shape
<1> QED BY <1>1, <1>2, <1>3, WorkerShape, WorldShape DEF PhoneNext

-------------------------------------------------------------------------------
(* What was ever sent.  The ledger is a parameter l, so that a request can be  *)
(* compared before and after the server has recorded another one.              *)

Known(l, c) == c \in Ids /\ l[c].op # "none"
Grows(l, k) == \A c \in Ids : l[c].op # "none" => k[c] = l[c]
SentBy(l, op, i, c, p) ==
  [op |-> op, req |-> i, cred |-> c, prep |-> IF op = "confirm" THEN c ELSE NoId,
   code |-> NoCode, device |-> l[c].device, policy |-> p]
Sent(l, j) ==
  CASE j.phase = "REDEEM_PENDING"     -> RedeemCall(j.req, j.code, j.dev)
    [] j.phase = "ACTIVATION_PENDING" -> SentBy(l, "activate", j.req, j.boot, j.consent)
    [] j.phase = "RECONSENT_PENDING"  -> SentBy(l, "reconsent", j.req, j.op, j.consent)
    [] j.phase = "ROTATION_PREPARE_PENDING" -> SentBy(l, "prepare", j.req, j.op, 0)
    [] j.phase = "ROTATION_CONFIRM_PENDING" -> SentBy(l, "confirm", j.req, j.prop, 0)
    [] j.phase = "REVOKE_PENDING"     -> SentBy(l, "revoke", j.req, j.op, 0)

\* A withdrawal without a session is local: it is the one pending phase that sends
\* nothing.
Sendable(j) == j.phase \in Sending /\ (j.phase = "REVOKE_PENDING" => j.op # NoId)
Sends(l, j) == IF Sendable(j) THEN {Sent(l, j)} ELSE {}
AllSent(l) == wire \cup Sends(l, journal) \cup Sends(l, ui.j)
                \cup {l[i] : i \in {i \in Ids : l[i].op # "none"}}

\* The credentials a journal names were recorded before it named them.
Made(l, j) ==
  /\ j.phase \in NewSession => Known(l, j.boot)
  /\ j.op # NoId => Known(l, j.op)
  /\ j.phase = "ROTATION_CONFIRM_PENDING" => Known(l, j.prop)

\* The steps of an operation after the server has answered it.
AckLabels == {"ok", "vaulted", "close", "purge", "fetch", "clear", "idling", "open"}

OneRequestPerId == \A a, b \in AllSent(ledger) : a.req = b.req => a = b
IdsWereDrawn == \A a \in AllSent(ledger) : a.req \in drawn
LedgerIsFiled ==
  \A i \in Ids : /\ ledger[i].req = i
                 /\ ledger[i].op = "none" => ledger[i] = NoCall(i)
                 /\ ledger[i].op # "none" => ledger[i].device \in Devices
WireNamesPhone == \A m \in wire : m.device \in Devices
CredentialsKnown ==
  /\ Made(ledger, journal) /\ Made(ledger, ui.j)
  /\ vault # NoId => Known(ledger, vault)
  /\ worker.cred # NoId => Known(ledger, worker.cred)
Recognized == ui.at \in AckLabels /\ ui.j.phase \in Sending
                => ledger[ui.j.req] = Sent(ledger, ui.j)

SentInv == /\ OneRequestPerId /\ IdsWereDrawn /\ LedgerIsFiled /\ WireNamesPhone
           /\ CredentialsKnown /\ Recognized

\* The request an operation sends, in terms of the ledger.
LEMMA RequestIsSent ==
  ASSUME NEW j, GoodJournal(j), j.phase \in Sending
  PROVE  Request(j) = Sent(ledger, j)
<1>1. j.phase = "RECONSENT_PENDING" => Bearer(j) = j.op
  BY ConstantsDistinct DEF GoodJournal, Resumable, ConsentPhases, Bearer
<1>2. \A op, i, c, p : AuthCall(op, i, c, p) = SentBy(ledger, op, i, c, p)
  BY DEF AuthCall, SentBy, Home
<1>3. CASE j.phase = "REDEEM_PENDING"
  BY <1>3 DEF Request, Sent
<1>4. CASE j.phase = "ACTIVATION_PENDING"
  BY <1>2, <1>4 DEF Request, Sent, Receipt
<1>5. CASE j.phase = "RECONSENT_PENDING"
  BY <1>1, <1>2, <1>5 DEF Request, Sent, Receipt
<1>6. CASE j.phase = "ROTATION_PREPARE_PENDING"
  BY <1>2, <1>6 DEF Request, Sent
<1>7. CASE j.phase = "ROTATION_CONFIRM_PENDING"
  BY <1>2, <1>7 DEF Request, Sent
<1>8. CASE j.phase = "REVOKE_PENDING"
  BY <1>2, <1>8 DEF Request, Sent
<1> QED BY <1>3, <1>4, <1>5, <1>6, <1>7, <1>8 DEF Sending, Mutations, PolicyPending

\* What the sender of a request named is in the ledger, so the request does not
\* change when the ledger grows.
LEMMA SentFields ==
  ASSUME NEW l, NEW j, GoodJournal(j), Sendable(j), Made(l, j)
  PROVE  /\ Sent(l, j).req = j.req /\ j.req \in Ids
         /\ \/ j.phase = "REDEEM_PENDING" /\ Sent(l, j) = RedeemCall(j.req, j.code, j.dev)
               /\ j.dev \in Devices /\ Sent(l, j).device = j.dev
            \/ \E op \in AuthOps, c \in Ids, p \in 0..MaxPolicy :
                 /\ Known(l, c) /\ \A k : Sent(k, j) = SentBy(k, op, j.req, c, p)
                 /\ Sent(l, j).device = l[c].device
<1>1. /\ j.req \in Ids /\ j.consent \in 0..MaxPolicy /\ 0 \in 0..MaxPolicy
  BY Zero DEF Sendable, Sending, Mutations, PolicyPending, GoodJournal, Resumable, ConsentPhases, Rotation, Journal
<1>2. \A k, op, c, p : SentBy(k, op, j.req, c, p).req = j.req /\ SentBy(k, op, j.req, c, p).device = k[c].device
  BY DEF SentBy
<1>3. CASE j.phase = "REDEEM_PENDING"
  BY <1>1, <1>3 DEF Sent, RedeemCall, GoodJournal, Resumable
<1>4. CASE j.phase = "ACTIVATION_PENDING"
  <2>1. Known(l, j.boot) /\ j.boot \in Ids BY <1>4 DEF Made, NewSession, Known
  <2>2. \A k : Sent(k, j) = SentBy(k, "activate", j.req, j.boot, j.consent) BY <1>4 DEF Sent
  <2> QED BY <1>1, <1>2, <2>1, <2>2 DEF AuthOps
<1>5. CASE j.phase = "RECONSENT_PENDING"
  <2>1. Known(l, j.op) /\ j.op \in Ids
    BY <1>5, ConstantsDistinct DEF Made, GoodJournal, Resumable, ConsentPhases
  <2>2. \A k : Sent(k, j) = SentBy(k, "reconsent", j.req, j.op, j.consent) BY <1>5 DEF Sent
  <2> QED BY <1>1, <1>2, <2>1, <2>2 DEF AuthOps
<1>6. CASE j.phase = "ROTATION_PREPARE_PENDING"
  <2>1. Known(l, j.op) /\ j.op \in Ids
    BY <1>6, ConstantsDistinct DEF Made, GoodJournal, Resumable, Rotation
  <2>2. \A k : Sent(k, j) = SentBy(k, "prepare", j.req, j.op, 0) BY <1>6 DEF Sent
  <2> QED BY <1>1, <1>2, <2>1, <2>2 DEF AuthOps
<1>7. CASE j.phase = "ROTATION_CONFIRM_PENDING"
  <2>1. Known(l, j.prop) /\ j.prop \in Ids
    BY <1>7 DEF Made, Known
  <2>2. \A k : Sent(k, j) = SentBy(k, "confirm", j.req, j.prop, 0) BY <1>7 DEF Sent
  <2> QED BY <1>1, <1>2, <2>1, <2>2 DEF AuthOps
<1>8. CASE j.phase = "REVOKE_PENDING"
  <2>1. Known(l, j.op) /\ j.op \in Ids
    BY <1>8 DEF Made, Sendable, Known
  <2>2. \A k : Sent(k, j) = SentBy(k, "revoke", j.req, j.op, 0) BY <1>8 DEF Sent
  <2> QED BY <1>1, <1>2, <2>1, <2>2 DEF AuthOps
<1> QED BY <1>3, <1>4, <1>5, <1>6, <1>7, <1>8 DEF Sendable, Sending, Mutations, PolicyPending

LEMMA SentStable ==
  ASSUME NEW l, NEW k, Grows(l, k), NEW j, GoodJournal(j), Made(l, j)
  PROVE  Made(k, j) /\ Sends(k, j) = Sends(l, j) /\ (Sendable(j) => Sent(k, j) = Sent(l, j))
<1>1. Made(k, j)
  BY DEF Made, Known, Grows
<1>2. ASSUME Sendable(j) PROVE Sent(k, j) = Sent(l, j)
  <2>1. CASE j.phase = "REDEEM_PENDING"
    BY <2>1 DEF Sent
  <2>2. ASSUME NEW op \in AuthOps, NEW c \in Ids, NEW p \in 0..MaxPolicy,
               Known(l, c), \A h : Sent(h, j) = SentBy(h, op, j.req, c, p)
        PROVE  Sent(k, j) = Sent(l, j)
    <3>1. k[c] = l[c] BY <2>2 DEF Known, Grows
    <3> QED BY <2>2, <3>1 DEF SentBy
  <2> QED BY <1>2, <2>1, <2>2, SentFields
<1> QED BY <1>1, <1>2 DEF Sends

\* Journals that name a credential and send nothing.
LEMMA QuietJournals ==
  ASSUME NEW l
  PROVE  /\ Made(l, Blank) /\ Sends(l, Blank) = {}
         /\ \A c : Known(l, c) => Made(l, Preflight(c)) /\ Sends(l, Preflight(c)) = {}
<1>1. Blank.phase = "IDLE" /\ Blank.op = NoId
  BY DEF Blank
<1>2. \A c : Preflight(c).phase = "RECONSENT_POLICY_PENDING" /\ Preflight(c).op = c
  BY DEF Preflight, Blank
<1> QED BY <1>1, <1>2 DEF Made, Sends, Sendable, Sending, Mutations, PolicyPending, NewSession

\* A step of the phone sends nothing, or one request that is old or has a fresh id.
LEMMA PhoneKeepsSent ==
  ASSUME Shape, SentInv, UNCHANGED ledger, drawn \subseteq drawn', NEW r,
         r \in AllSent(ledger) \/ (r.req \notin drawn /\ r.req \in drawn' /\ r.device \in Devices),
         wire' \subseteq wire \cup {r},
         Sends(ledger, journal') \subseteq AllSent(ledger) \cup {r},
         Sends(ledger, ui'.j) \subseteq AllSent(ledger) \cup {r},
         r \in wire' => r.device \in Devices,
         Made(ledger, journal'), Made(ledger, ui'.j),
         vault' # NoId => Known(ledger, vault'),
         worker'.cred # NoId => Known(ledger, worker'.cred),
         ui'.at \in AckLabels /\ ui'.j.phase \in Sending
           => ledger[ui'.j.req] = Sent(ledger, ui'.j)
  PROVE  SentInv'
<1>1. AllSent(ledger)' \subseteq AllSent(ledger) \cup {r}
  BY DEF AllSent
<1>2. OneRequestPerId' /\ IdsWereDrawn'
  BY <1>1 DEF SentInv, OneRequestPerId, IdsWereDrawn
<1>3. LedgerIsFiled' /\ WireNamesPhone'
  BY DEF SentInv, LedgerIsFiled, WireNamesPhone
<1>4. CredentialsKnown'
  BY DEF CredentialsKnown
<1>5. Recognized'
  BY DEF Recognized
<1> QED BY <1>2, <1>3, <1>4, <1>5 DEF SentInv

LEMMA PhoneQuietSent ==
  ASSUME Shape, SentInv, UNCHANGED ledger, drawn \subseteq drawn', wire' \subseteq wire,
         Sends(ledger, journal') \subseteq AllSent(ledger),
         Sends(ledger, ui'.j) \subseteq AllSent(ledger),
         Made(ledger, journal'), Made(ledger, ui'.j),
         vault' # NoId => Known(ledger, vault'),
         worker'.cred # NoId => Known(ledger, worker'.cred),
         ui'.at \in AckLabels /\ ui'.j.phase \in Sending
           => ledger[ui'.j.req] = Sent(ledger, ui'.j)
  PROVE  SentInv'
<1>1. AllSent(ledger)' \subseteq AllSent(ledger)
  BY DEF AllSent
<1>2. OneRequestPerId' /\ IdsWereDrawn'
  BY <1>1 DEF SentInv, OneRequestPerId, IdsWereDrawn
<1>3. LedgerIsFiled' /\ WireNamesPhone'
  BY DEF SentInv, LedgerIsFiled, WireNamesPhone
<1>4. CredentialsKnown'
  BY DEF CredentialsKnown
<1>5. Recognized'
  BY DEF Recognized
<1> QED BY <1>2, <1>3, <1>4, <1>5 DEF SentInv

LEMMA SentFacts ==
  ASSUME Shape, SentInv
  PROVE  /\ GoodJournal(journal) /\ GoodJournal(ui.j)
         /\ Made(ledger, journal) /\ Made(ledger, ui.j)
         /\ Sends(ledger, journal) \subseteq AllSent(ledger)
         /\ Sends(ledger, ui.j) \subseteq AllSent(ledger)
         /\ vault # NoId => Known(ledger, vault)
         /\ worker.cred # NoId => Known(ledger, worker.cred)
         /\ ui.at \in AckLabels /\ ui.j.phase \in Sending => ledger[ui.j.req] = Sent(ledger, ui.j)
BY DEF Shape, GoodUi, GoodJournal, SentInv, CredentialsKnown, Recognized, AllSent

\* What was acknowledged is known to the server.
LEMMA AckedIsKnown ==
  ASSUME NEW l, NEW j, GoodJournal(j), Sendable(j), Made(l, j), l[j.req] = Sent(l, j)
  PROVE  Known(l, j.req)
<1>1. RedeemCall(j.req, j.code, j.dev).op = "redeem"
  BY DEF RedeemCall
<1>2. \A op, c, p : SentBy(l, op, j.req, c, p).op = op
  BY DEF SentBy
<1> QED BY <1>1, <1>2, SentFields DEF Known, AuthOps

\* Sending again what the phone holds.
LEMMA ResendKeeps ==
  ASSUME Shape, SentInv, NEW j, GoodJournal(j), Sendable(j), Made(ledger, j),
         Sends(ledger, j) \subseteq AllSent(ledger), Send(j),
         UNCHANGED <<ledger, journal, vault, drawn>>, worker'.cred = worker.cred
  PROVE  SentInv'
<1> DEFINE r == Sent(ledger, j)
<1>1. r \in AllSent(ledger) /\ Sends(ledger, j) = {r}
  BY DEF Sends
<1>2. Request(j) = r
  BY RequestIsSent DEF Sendable
<1>3. r.device \in Devices
  BY SentFields DEF SentInv, LedgerIsFiled, Known
<1>4. ui'.at = "await" /\ ui'.j = j /\ wire' = wire \cup {r}
  BY <1>2 DEF Send, GoWith
<1> HIDE DEF r
<1>5. SentInv'
  BY <1>1, <1>3, <1>4, SentFacts, PhoneKeepsSent DEF AckLabels
<1> QED BY <1>5

LEMMA ResumeKeeps ==
  ASSUME Shape, SentInv, NEW j, GoodJournal(j), j.phase \in Mutations \cup PolicyPending,
         Made(ledger, j), Sends(ledger, j) \subseteq AllSent(ledger), Resume(j),
         UNCHANGED <<ledger, journal, vault, drawn>>, worker'.cred = worker.cred
  PROVE  SentInv'
<1>1. CASE j.phase \in PolicyPending
  <2>1. ui'.at = "close" /\ ui'.j = j /\ wire' = wire /\ j.phase \notin Sending
    BY <1>1 DEF Resume, GoWith, PolicyPending, Sending
  <2> QED BY <2>1, SentFacts, PhoneQuietSent
<1>2. CASE j.phase = "REVOKE_PENDING"
  <2>1. ui'.at = "closeR" /\ ui'.j = j /\ wire' = wire
    BY <1>2 DEF Resume, GoWith, PolicyPending
  <2> QED BY <2>1, SentFacts, PhoneQuietSent DEF AckLabels
<1>3. CASE j.phase \notin PolicyPending \cup {"REVOKE_PENDING"}
  <2>1. Send(j) BY <1>3 DEF Resume
  <2>2. Sendable(j) BY <1>3 DEF Sendable, Sending
  <2> QED BY <2>1, <2>2, ResendKeeps
<1> QED BY <1>1, <1>2, <1>3

\* A request with a fresh id.
LEMMA FreshKeeps ==
  ASSUME Shape, SentInv, UNCHANGED ledger, NEW n \in Fresh, Draw(n),
         GoodJournal(journal'), journal'.req = n, Made(ledger, journal'),
         ui'.j = journal', ui'.at \notin AckLabels,
         wire' \subseteq wire \cup Sends(ledger, journal'), vault' = vault, worker'.cred = worker.cred
  PROVE  SentInv'
<1>1. n \notin drawn /\ n \in drawn' /\ drawn \subseteq drawn'
  BY DEF Fresh, AnyOf, Draw
<1>2. CASE Sendable(journal')
  <2> DEFINE r == Sent(ledger, journal')
  <2>1. Sends(ledger, journal') = {r}
    BY <1>2 DEF Sends
  <2>2. r.req = n /\ r.device \in Devices
    BY <1>2, SentFields DEF SentInv, LedgerIsFiled, Known
  <2> HIDE DEF r
  <2> QED BY <1>1, <2>1, <2>2, SentFacts, PhoneKeepsSent
<1>3. CASE ~Sendable(journal')
  <2>1. Sends(ledger, journal') = {}
    BY <1>3 DEF Sends
  <2> QED BY <1>1, <2>1, SentFacts, PhoneQuietSent
<1> QED BY <1>2, <1>3

LEMMA SendIsFresh ==
  ASSUME Shape, Send(journal'), GoodJournal(journal'), Sendable(journal')
  PROVE  ui'.j = journal' /\ ui'.at \notin AckLabels /\ wire' = wire \cup Sends(ledger, journal')
BY RequestIsSent DEF Send, GoWith, AckLabels, Sends, Sendable

LEMMA TapsSent ==
  ASSUME Shape, Shape', SentInv, Taps PROVE SentInv'
<1>0. UNCHANGED <<serverVars, vault, worker>>
  BY DEF Taps, PairSame, PairFresh, Retry, Accept, Rotate, Withdraw, RetryRevocation,
         ResetRevokedDevice, Look, NoStorageChange
<1>1. UNCHANGED ledger /\ vault' = vault /\ worker'.cred = worker.cred
  BY <1>0 DEF serverVars, dbVars, credVars
<1>2. GoodJournal(journal') BY DEF Shape
<1>3. ASSUME UNCHANGED <<journal, drawn, wire>>, ui'.j \in Journal, ui'.j.op = NoId,
             ui'.j.phase = "IDLE"
      PROVE  SentInv'
  <2>1. Made(ledger, ui'.j) /\ Sends(ledger, ui'.j) = {} /\ ui'.j.phase \notin Sending
    BY <1>3 DEF Made, Sends, Sendable, Sending, Mutations, PolicyPending, NewSession
  <2> QED BY <1>1, <1>3, <2>1, SentFacts, PhoneQuietSent
<1>4. /\ Blank \in Journal /\ Blank.op = NoId /\ Blank.phase = "IDLE"
      /\ \A k \in Codes : LET b == [Blank EXCEPT !.code = k]
                          IN b \in Journal /\ b.op = NoId /\ b.phase = "IDLE"
  <2>1. Blank \in Journal /\ Blank.phase = "IDLE" BY BlankGood DEF GoodJournal
  <2>2. Blank.op = NoId BY DEF Blank
  <2> QED BY <2>1, <2>2 DEF Journal
<1>5. CASE PairSame
  <2>1. Sendable(journal) /\ Send(journal) /\ UNCHANGED <<journal, drawn>>
    BY <1>5 DEF PairSame, NoStorageChange, Sendable, Sending, Mutations, PolicyPending
  <2> QED BY <1>1, <2>1, SentFacts, ResendKeeps
<1>6. ASSUME NEW k \in Codes, PairFresh(k) PROVE SentInv'
  BY <1>3, <1>4, <1>6 DEF PairFresh, NoStorageChange
<1>7. CASE Retry
  <2>1. /\ Resume(journal) /\ journal.phase \in Mutations \cup PolicyPending
        /\ UNCHANGED <<journal, drawn>>
    BY <1>7 DEF Retry, NoStorageChange
  <2> QED BY <1>1, <2>1, SentFacts, ResumeKeeps
<1>8. CASE Accept
  <2>1. ASSUME journal.phase \in {"DISCLOSURE_READY", "RECONSENT_READY"}, NEW n \in Fresh, Draw(n), NEW j,
               j = [journal EXCEPT !.req = n, !.consent = journal.policy],
               journal' = IF journal.phase = "DISCLOSURE_READY"
                          THEN [j EXCEPT !.phase = "ACTIVATION_PENDING", !.prop = n]
                          ELSE [j EXCEPT !.phase = "RECONSENT_PENDING"],
               Send(journal')
        PROVE  SentInv'
    <3>1. /\ j \in [phase : Phases, req : {n}, boot : Ids \cup {NoId},
                    prop : Ids \cup {NoId}, op : Ids \cup {NoId}, code : Codes \cup {NoCode},
                    dev : Devices \cup {NoDevice}, policy : 0..MaxPolicy,
                    expected : 0..MaxPolicy, consent : 0..MaxPolicy]
          /\ j.boot = journal.boot /\ j.op = journal.op
      BY <2>1 DEF Shape, GoodJournal, Journal
    <3>2. /\ journal'.req = n /\ journal'.boot = journal.boot /\ journal'.op = journal.op
          /\ journal'.phase = (IF journal.phase = "DISCLOSURE_READY" THEN "ACTIVATION_PENDING"
                               ELSE "RECONSENT_PENDING")
      BY <2>1, <3>1
    <3>3. Made(ledger, journal')
      BY <2>1, <3>2, SentFacts DEF Made, NewSession
    <3>4. Sendable(journal')
      BY <3>2 DEF Sendable, Sending, Mutations, PolicyPending
    <3>5. Send(journal') BY <2>1
    <3> QED BY <1>1, <1>2, <2>1, <3>2, <3>3, <3>4, <3>5, SendIsFresh, FreshKeeps
  <2>2. CASE /\ journal.phase \in {"ACTIVATION_PENDING", "RECONSENT_PENDING"}
             /\ Send(journal) /\ UNCHANGED <<journal, drawn>>
    <3>1. Sendable(journal)
      BY <2>2 DEF Sendable, Sending, Mutations, PolicyPending
    <3> QED BY <1>1, <2>2, <3>1, SentFacts, ResendKeeps
  <2> QED BY <1>8, <2>1, <2>2 DEF Accept
<1>9. CASE Rotate
  <2>1. PICK n \in Fresh : /\ Draw(n)
                           /\ journal' = [journal EXCEPT !.phase = "ROTATION_PREPARE_PENDING",
                                                         !.req = n, !.prop = n, !.op = vault]
    BY <1>9 DEF Rotate
  <2>2. /\ journal'.req = n /\ journal'.op = vault /\ journal'.phase = "ROTATION_PREPARE_PENDING"
        /\ vault # NoId
    BY <1>9, <2>1 DEF Rotate, Shape, GoodJournal, Journal
  <2>3. Made(ledger, journal')
    BY <2>2, SentFacts DEF Made, NewSession
  <2>4. Sendable(journal')
    BY <2>2 DEF Sendable, Sending, Mutations, PolicyPending
  <2>5. Send(journal') BY <1>9 DEF Rotate
  <2> QED BY <1>1, <1>2, <2>1, <2>2, <2>3, <2>4, <2>5, SendIsFresh, FreshKeeps
<1>10. CASE Withdraw
  <2>1. CASE journal.phase = "REVOKE_PENDING" /\ vault # NoId
    <3>1. ui'.at = "closeR" /\ ui'.j = journal /\ UNCHANGED <<journal, drawn, wire>>
      BY <1>10, <2>1 DEF Withdraw, GoWith
    <3> QED BY <1>1, <3>1, SentFacts, PhoneQuietSent DEF AckLabels
  <2>2. CASE ~(journal.phase = "REVOKE_PENDING" /\ vault # NoId)
    <3>1. PICK n \in Fresh :
            /\ Draw(n)
            /\ journal' = [(IF vault = NoId THEN Blank ELSE journal) EXCEPT
                             !.phase = "REVOKE_PENDING", !.req = n, !.op = vault]
            /\ GoWith("closeR", journal')
      BY <1>10, <2>2 DEF Withdraw
    <3>2. PICK b \in Journal : journal' = [b EXCEPT !.phase = "REVOKE_PENDING", !.req = n, !.op = vault]
      BY <3>1, BlankGood DEF Shape, GoodJournal
    <3>3. journal'.phase = "REVOKE_PENDING" /\ journal'.req = n /\ journal'.op = vault
      BY <3>2 DEF Journal
    <3>4. Made(ledger, journal')
      BY <3>3, SentFacts DEF Made, NewSession
    <3>5. ui'.j = journal' /\ ui'.at \notin AckLabels /\ wire' = wire
      BY <1>10, <3>1 DEF GoWith, AckLabels, Withdraw
    <3> QED BY <1>1, <1>2, <3>1, <3>3, <3>4, <3>5, FreshKeeps
  <2> QED BY <2>1, <2>2
<1>11. CASE RetryRevocation
  <2>1. Sendable(journal) /\ Send(journal) /\ UNCHANGED <<journal, drawn>>
    BY <1>11 DEF RetryRevocation, NoStorageChange, Sendable, Sending, Mutations, PolicyPending
  <2> QED BY <1>1, <2>1, SentFacts, ResendKeeps
<1>12. CASE ResetRevokedDevice
  BY <1>3, <1>4, <1>12 DEF ResetRevokedDevice, NoStorageChange
<1>13. CASE Look
  <2>1. ui'.j = Blank BY <1>13 DEF Look, Done, NoUi
  <2> QED BY <1>3, <1>4, <1>13, <2>1 DEF Look, NoStorageChange
<1> QED BY <1>5, <1>6, <1>7, <1>8, <1>9, <1>10, <1>11, <1>12, <1>13 DEF Taps

LEMMA AcknowledgedSent ==
  ASSUME Shape, Shape', SentInv, Acknowledged PROVE SentInv'
<1> DEFINE j == ui.j
<1>0. UNCHANGED ledger /\ worker' = worker
  BY DEF Acknowledged, serverVars, dbVars, credVars
<1>1. /\ GoodJournal(j) /\ Made(ledger, j) /\ Sendable(j) /\ j.phase \in Sending
      /\ ledger[j.req] = Sent(ledger, j) /\ Sends(ledger, j) \subseteq AllSent(ledger)
  <2>1. ui.at = "ok" BY DEF Acknowledged
  <2>2. j.phase \in Sending /\ (j.phase = "REVOKE_PENDING" => j.op \in Ids)
    BY <2>1 DEF Shape, GoodUi, Fits
  <2> QED BY <2>1, <2>2, SentFacts, ConstantsDistinct DEF AckLabels, Sendable
<1>2. Known(ledger, j.req)
  BY <1>1, AckedIsKnown
<1>3. ASSUME NEW at, Goto(at), UNCHANGED <<journal, wire, drawn>>, vault' # NoId => Known(ledger, vault')
      PROVE  SentInv'
  <2>1. ui'.j = ui.j
    BY <1>3 DEF Goto, Shape, GoodUi
  <2> QED BY <1>0, <1>1, <1>3, <2>1, SentFacts, PhoneQuietSent
<1>4. CASE j.phase = "REDEEM_PENDING"
  BY <1>3, <1>4, SentFacts DEF Acknowledged
<1>5. CASE j.phase = "ACTIVATION_PENDING"
  <2>1. j.prop = j.req BY <1>1, <1>5 DEF GoodJournal, Resumable
  <2> QED BY <1>2, <1>3, <1>5, <2>1 DEF Acknowledged
<1>6. CASE j.phase = "RECONSENT_PENDING"
  BY <1>3, <1>6, SentFacts DEF Acknowledged
<1>7. CASE j.phase = "ROTATION_PREPARE_PENDING"
  <2>1. PICK n \in Fresh :
          /\ Draw(n)
          /\ journal' = [j EXCEPT !.phase = "ROTATION_CONFIRM_PENDING", !.req = n]
          /\ Send(journal')
          /\ UNCHANGED vault
    BY <1>7 DEF Acknowledged
  <2>2. j \in Journal /\ j.prop = j.req /\ (j.op # NoId => Known(ledger, j.op))
    BY <1>1, <1>7 DEF GoodJournal, Resumable, Made
  <2> HIDE DEF j
  <2>3. /\ journal'.phase = "ROTATION_CONFIRM_PENDING" /\ journal'.req = n
        /\ journal'.op = j.op /\ journal'.prop = j.prop
    BY <2>1, <2>2 DEF Journal
  <2>4. Made(ledger, journal')
    BY <1>2, <2>2, <2>3 DEF Made, NewSession
  <2>5. GoodJournal(journal') BY DEF Shape
  <2>6. Sendable(journal')
    BY <2>3 DEF Sendable, Sending, Mutations, PolicyPending
  <2>7. Send(journal') BY <2>1
  <2> QED BY <1>0, <2>1, <2>3, <2>4, <2>5, <2>6, <2>7, SendIsFresh, FreshKeeps
<1>8. CASE j.phase = "ROTATION_CONFIRM_PENDING"
  BY <1>1, <1>3, <1>8 DEF Acknowledged, Made
<1>9. CASE j.phase = "REVOKE_PENDING"
  BY <1>3, <1>9 DEF Acknowledged
<1> QED BY <1>1, <1>4, <1>5, <1>6, <1>7, <1>8, <1>9 DEF Sending, Mutations, PolicyPending

LEMMA PolicyFetchedSent ==
  ASSUME Shape, Shape', SentInv, PolicyFetched PROVE SentInv'
<1> DEFINE j == ui.j
<1>0. UNCHANGED <<ledger, worker, vault, wire, drawn>>
  BY DEF PolicyFetched, serverVars, dbVars, credVars
<1>1. /\ GoodJournal(j) /\ j \in Journal /\ Made(ledger, j) /\ ui.at = "fetch"
      /\ j.phase \in PolicyPending \cup {"ACTIVATION_PENDING", "REDEEM_PENDING"}
      /\ Sends(ledger, j) \subseteq AllSent(ledger)
  BY SentFacts DEF Shape, GoodUi, GoodJournal, Fits, PolicyFetched
<1>2. j.phase \in {"ACTIVATION_PENDING", "REDEEM_PENDING"} => Known(ledger, j.req)
  BY <1>1, SentFacts, AckedIsKnown DEF AckLabels, Sendable, Sending, Mutations, PolicyPending
<1>3. ASSUME Done, journal'.phase \notin Sending, Made(ledger, journal')
      PROVE  SentInv'
  <2>1. Sends(ledger, journal') = {}
    BY <1>3 DEF Sends, Sendable
  <2>2. ui'.j = Blank /\ ui'.at = "refresh"
    BY <1>3 DEF Done, NoUi
  <2> QED BY <1>0, <1>3, <2>1, <2>2, SentFacts, QuietJournals, PhoneQuietSent DEF AckLabels
<1>4. CASE j.phase = "REDEEM_PENDING"
  <2>1. /\ journal' = [j EXCEPT !.phase = "DISCLOSURE_READY", !.req = NoId,
                         !.code = NoCode, !.policy = policy]
        /\ Done
    BY <1>4 DEF PolicyFetched
  <2>2. j.boot = j.req BY <1>1, <1>4 DEF GoodJournal, Resumable
  <2> HIDE DEF j
  <2>3. journal'.phase = "DISCLOSURE_READY" /\ journal'.boot = j.boot /\ journal'.op = j.op
    BY <1>1, <2>1 DEF Journal
  <2> QED BY <1>1, <1>2, <1>3, <1>4, <2>1, <2>2, <2>3
       DEF Made, NewSession, Sending, Mutations, PolicyPending
<1>5. CASE j.phase = "ACTIVATION_POLICY_PENDING"
  <2>1. journal' = [j EXCEPT !.phase = "DISCLOSURE_READY", !.policy = policy] /\ Done
    BY <1>5 DEF PolicyFetched
  <2> HIDE DEF j
  <2>3. journal'.phase = "DISCLOSURE_READY" /\ journal'.boot = j.boot /\ journal'.op = j.op
    BY <1>1, <2>1 DEF Journal
  <2> QED BY <1>1, <1>3, <1>5, <2>1, <2>3 DEF Made, NewSession, Sending, Mutations, PolicyPending
<1>6. CASE j.phase = "RECONSENT_POLICY_PENDING"
  <2>1. journal' = [j EXCEPT !.phase = "RECONSENT_READY", !.policy = policy] /\ Done
    BY <1>6 DEF PolicyFetched
  <2> HIDE DEF j
  <2>3. journal'.phase = "RECONSENT_READY" /\ journal'.op = j.op
    BY <1>1, <2>1 DEF Journal
  <2> QED BY <1>1, <1>3, <1>6, <2>1, <2>3 DEF Made, NewSession, Sending, Mutations, PolicyPending
<1>7. CASE j.phase = "ACTIVATION_PENDING" /\ j.consent # policy
  <2>1. /\ journal' = [Preflight(j.prop) EXCEPT !.phase = "RECONSENT_READY", !.policy = policy]
        /\ Done
    BY <1>7 DEF PolicyFetched
  <2>2. j.prop = j.req /\ j.req \in Ids BY <1>1, <1>7 DEF GoodJournal, Resumable
  <2> HIDE DEF j
  <2>3. journal'.phase = "RECONSENT_READY" /\ journal'.op = j.prop
    BY <2>1, <2>2, PreflightGood, Zero DEF GoodJournal, Journal
  <2> QED BY <1>2, <1>3, <1>7, <2>1, <2>2, <2>3 DEF Made, NewSession, Sending, Mutations, PolicyPending
<1>8. CASE j.phase = "ACTIVATION_PENDING" /\ j.consent = policy
  <2>1. Goto("clear") /\ UNCHANGED journal
    BY <1>8 DEF PolicyFetched
  <2>2. ui'.j = ui.j BY <2>1 DEF Goto, Shape, GoodUi
  <2> QED BY <1>0, <1>1, <2>1, <2>2, SentFacts, PhoneQuietSent DEF AckLabels
<1> QED BY <1>1, <1>4, <1>5, <1>6, <1>7, <1>8 DEF PolicyPending

LEMMA UiStepsSent ==
  ASSUME Shape, Shape', SentInv, UiSteps PROVE SentInv'
<1>0. UNCHANGED <<serverVars, worker>>
  BY DEF UiSteps, Launch, Refresh, GiveUp, Acknowledged, RecoverFromConsentRequired, JournalPreflight,
         CloseGate, Purge, PolicyFetched, ClearJournal, WriteIdle, OpenGate, FinishRevocation,
         WipeVault, WipeJournal, WipeData, ForgetRevocation, JournalRedeem, NoStorageChange
<1>1. UNCHANGED ledger /\ worker'.cred = worker.cred
  BY <1>0 DEF serverVars, dbVars, credVars
<1>2. \A at : Goto(at) => ui'.j = ui.j /\ ui'.at = at
  BY DEF Goto, Shape, GoodUi
<1>3. Done => ui'.j = Blank /\ ui'.at = "refresh"
  BY DEF Done, NoUi
<1>4. /\ ui.at = "vaulted" => ui.j.phase = "ACTIVATION_PENDING"
      /\ ui.j.phase = "ACTIVATION_PENDING" => ui.j.prop = ui.j.req
      /\ Sendable(ui.j) => (ui.j.phase \in Sending)
      /\ ui.j.phase = "ACTIVATION_PENDING" => Sendable(ui.j)
  BY DEF Shape, GoodUi, Fits, Resumable, Sendable, Sending, Mutations, PolicyPending
\* The journal is kept or left blank, the operation keeps its own or ends.
<1>5. ASSUME UNCHANGED <<wire, drawn>>, journal' \in {journal, Blank, ui.j}, vault' \in {vault, NoId},
             \/ ui'.j = ui.j /\ (ui.at \in AckLabels \/ ui'.at \notin AckLabels)
             \/ ui'.j = Blank
             \/ ui'.j = journal /\ ui'.at \notin AckLabels
      PROVE  SentInv'
  <2>1. Blank.phase \notin Sending
    BY DEF Blank, Sending, Mutations
  <2>2. Made(ledger, journal') /\ Sends(ledger, journal') \subseteq AllSent(ledger)
    BY <1>5, SentFacts, QuietJournals
  <2>3. Made(ledger, ui'.j) /\ Sends(ledger, ui'.j) \subseteq AllSent(ledger)
    BY <1>5, SentFacts, QuietJournals
  <2>4. ui'.at \in AckLabels /\ ui'.j.phase \in Sending => ledger[ui'.j.req] = Sent(ledger, ui'.j)
    BY <1>5, <2>1, SentFacts
  <2> QED BY <1>1, <1>5, <2>2, <2>3, <2>4, SentFacts, PhoneQuietSent
<1>6. CASE Launch
  <2>1. CASE RequiresPurge
    BY <1>5, <1>6, <2>1 DEF Launch
  <2>2. CASE ~RequiresPurge /\ vault # NoId /\ journal.phase = "IDLE" /\ ~LocalConsent
    <3>1. /\ journal' = Preflight(vault) /\ ui'.j = Preflight(vault) /\ vault' = vault
          /\ UNCHANGED <<wire, drawn>>
      BY <1>6, <2>2 DEF Launch
    <3>2. Preflight(vault).phase \notin Sending
      BY DEF Preflight, Blank, Sending, Mutations, PolicyPending
    <3> QED BY <1>1, <2>2, <3>1, <3>2, SentFacts, QuietJournals, PhoneQuietSent
  <2>3. CASE ~RequiresPurge /\ ~(vault # NoId /\ journal.phase = "IDLE" /\ ~LocalConsent)
    BY <1>5, <1>6, <2>3 DEF Launch, AckLabels
  <2> QED BY <2>1, <2>2, <2>3
<1>7. CASE Refresh
  <2>1. CASE ui.then = "resume" /\ ui.j.phase \in Mutations \cup PolicyPending
    <3>1. Resume(ui.j) /\ UNCHANGED <<journal, vault, drawn>>
      BY <1>7, <2>1 DEF Refresh
    <3> QED BY <1>1, <2>1, <3>1, SentFacts, ResumeKeeps
  <2>2. CASE ~(ui.then = "resume" /\ ui.j.phase \in Mutations \cup PolicyPending)
    BY <1>5, <1>7, <2>2 DEF Refresh, NoUi
  <2> QED BY <2>1, <2>2
<1>8. CASE GiveUp \/ OpenGate \/ FinishRevocation
  BY <1>3, <1>5, <1>8 DEF GiveUp, OpenGate, FinishRevocation, NoStorageChange
<1>9. CASE RecoverFromConsentRequired
  <2>0. UNCHANGED <<wire, drawn, vault>>
    BY <1>9 DEF RecoverFromConsentRequired
  <2>1. CASE journal.phase = "ACTIVATION_PENDING"
    <3>1. /\ journal' = [journal EXCEPT !.phase = "ACTIVATION_POLICY_PENDING", !.req = NoId,
                           !.policy = 0, !.expected = 0, !.prop = NoId, !.consent = 0, !.op = NoId]
          /\ GoWith("close", journal')
      BY <1>9, <2>1 DEF RecoverFromConsentRequired
    <3>2. /\ journal'.phase = "ACTIVATION_POLICY_PENDING" /\ journal'.boot = journal.boot
          /\ journal'.op = NoId
      BY <3>1 DEF Shape, GoodJournal, Journal
    <3>3. Made(ledger, journal')
      BY <2>1, <3>2, SentFacts DEF Made, NewSession
    <3>4. journal'.phase \notin Sending /\ Sends(ledger, journal') = {}
      BY <3>2 DEF Sends, Sendable, Sending, Mutations, PolicyPending
    <3>5. ui'.j = journal' BY <3>1 DEF GoWith
    <3> QED BY <1>1, <2>0, <3>3, <3>4, <3>5, SentFacts, PhoneQuietSent
  <2>2. CASE journal.phase \in {"RECONSENT_PENDING", "ROTATION_PREPARE_PENDING"}
    <3>1. journal' = Preflight(Bearer(journal)) /\ GoWith("close", journal')
      BY <1>9, <2>2 DEF RecoverFromConsentRequired
    <3>2. Known(ledger, Bearer(journal))
      BY <2>2, SentFacts, ConstantsDistinct DEF Made, GoodJournal, Resumable, ConsentPhases, Rotation, Bearer
    <3>3. Preflight(Bearer(journal)).phase \notin Sending
      BY DEF Preflight, Blank, Sending, Mutations, PolicyPending
    <3>4. ui'.j = journal' BY <3>1 DEF GoWith
    <3> QED BY <1>1, <2>0, <3>1, <3>2, <3>3, <3>4, SentFacts, QuietJournals, PhoneQuietSent
  <2>3. CASE journal.phase \notin {"ACTIVATION_PENDING", "RECONSENT_PENDING", "ROTATION_PREPARE_PENDING"}
    BY <1>3, <1>5, <1>9, <2>3 DEF RecoverFromConsentRequired
  <2> QED BY <2>1, <2>2, <2>3
<1>10. CASE JournalPreflight
  <2>1. Known(ledger, ui.j.prop)
    BY <1>4, <1>10, SentFacts, AckedIsKnown DEF JournalPreflight, AckLabels
  <2>2. /\ journal' = Preflight(ui.j.prop) /\ ui'.j = ui.j /\ ui'.at = "close" /\ ui.at = "vaulted"
        /\ UNCHANGED <<wire, drawn, vault>>
    BY <1>2, <1>10 DEF JournalPreflight
  <2> QED BY <1>1, <2>1, <2>2, SentFacts, QuietJournals, PhoneQuietSent DEF AckLabels
<1>11. CASE CloseGate
  BY <1>2, <1>5, <1>11 DEF CloseGate, AckLabels
<1>12. CASE Purge
  <2>1. CASE ui.at = "purge" /\ ui.then = "boot"
    <3>1. ui'.j = ui.j /\ ui'.at = "refresh"
      BY <1>12, <2>1 DEF Purge, Shape, GoodUi
    <3> QED BY <1>5, <1>12, <2>1, <3>1 DEF Purge, AckLabels
  <2>2. CASE ui.at = "purge" /\ ui.then # "boot"
    BY <1>2, <1>5, <1>12, <2>2 DEF Purge, AckLabels
  <2>3. CASE ui.at = "purgeR" /\ ui.j.op = NoId
    BY <1>2, <1>5, <1>12, <2>3 DEF Purge, AckLabels
  <2>4. CASE ui.at = "purgeR" /\ ui.j.op # NoId
    <3>1. Send(ui.j) /\ UNCHANGED <<journal, vault, drawn>>
      BY <1>12, <2>4 DEF Purge
    <3>2. Sendable(ui.j)
      BY <2>4 DEF Sendable, Shape, GoodUi, Fits, Sending, Mutations, PolicyPending
    <3> QED BY <1>1, <3>1, <3>2, SentFacts, ResendKeeps
  <2> QED BY <1>12, <2>1, <2>2, <2>3, <2>4 DEF Purge
<1>13. CASE ClearJournal
  BY <1>2, <1>5, <1>13 DEF ClearJournal, AckLabels
<1>14. CASE WriteIdle
  <2>1. journal' = ToIdle(ui.j) /\ UNCHANGED <<wire, drawn, vault>>
    BY <1>14 DEF WriteIdle
  <2>2. journal'.phase = "IDLE" /\ journal'.op = NoId
    BY <2>1, IdleGood DEF Shape, GoodUi
  <2>3. Made(ledger, journal') /\ Sends(ledger, journal') = {}
    BY <2>2 DEF Made, Sends, Sendable, Sending, Mutations, PolicyPending, NewSession
  <2>4. \/ ui'.j = Blank /\ ui'.at = "refresh"
        \/ ui'.j = ui.j /\ ui'.at = "open" /\ ui.at = "idling"
    BY <1>2, <1>3, <1>14 DEF WriteIdle
  <2> QED BY <1>1, <2>1, <2>3, <2>4, SentFacts, QuietJournals, PhoneQuietSent DEF AckLabels
<1>15. CASE WipeVault \/ WipeJournal \/ WipeData
  BY <1>2, <1>5, <1>15 DEF WipeVault, WipeJournal, WipeData, AckLabels
<1>16. CASE ForgetRevocation
  BY <1>2, <1>3, <1>5, <1>16 DEF ForgetRevocation, AckLabels
<1>17. CASE JournalRedeem
  <2>1. PICK n \in Fresh, d \in NewPhone :
          /\ Draw(n)
          /\ journal' = [Blank EXCEPT !.phase = "REDEEM_PENDING", !.req = n, !.boot = n,
                                      !.code = ui.j.code, !.dev = d]
    BY <1>17 DEF JournalRedeem
  <2>2. journal'.phase = "REDEEM_PENDING" /\ journal'.req = n /\ journal'.op = Blank.op
    BY <2>1, BlankGood DEF GoodJournal, Journal
  <2>3. Made(ledger, journal') /\ Sendable(journal')
    BY <2>2 DEF Made, NewSession, Blank, Sendable, Sending, Mutations, PolicyPending
  <2>4. Send(journal') /\ vault' = vault BY <1>17 DEF JournalRedeem
  <2>5. GoodJournal(journal') BY DEF Shape
  <2> QED BY <1>1, <2>1, <2>2, <2>3, <2>4, <2>5, SendIsFresh, FreshKeeps
<1> QED BY <1>6, <1>7, <1>8, <1>9, <1>10, <1>11, <1>12, <1>13, <1>14, <1>15, <1>16, <1>17,
     AcknowledgedSent, PolicyFetchedSent DEF UiSteps

\* What the worker can write: its credential comes from the vault, its journals
\* from its credential.
LEMMA WorkerWrites ==
  ASSUME Shape, WorkerSteps
  PROVE  /\ worker'.cred \in {worker.cred, vault, NoId}
         /\ vault' \in {vault, NoId}
         /\ \/ journal' \in {journal, Blank}
            \/ /\ worker.cred \in Ids /\ journal'.op = worker.cred
               /\ journal'.boot = NoId /\ journal'.prop = NoId
               /\ journal'.phase \in {"RECONSENT_POLICY_PENDING", "RECONSENT_READY"}
<1>2. worker \in Workers /\ (worker.at \notin {"off"} \cup WipeLabels => worker.cred \in Ids)
  BY DEF Shape, GoodWorker
<1>3. worker'.cred \in {worker.cred, vault, NoId}
  <2>0. NoWorker.cred = NoId /\ \A at, c, u : [NoWorker EXCEPT !.at = at, !.cred = c, !.under = u].cred = c
    BY DEF NoWorker
  <2>1. \A at : WGoto(at) => worker'.cred = worker.cred
    BY <1>2 DEF WGoto, Workers
  <2>2. CASE WorkerStarts
    <3>1. PICK at : worker' = [NoWorker EXCEPT !.at = at, !.cred = vault, !.under = journal.consent]
      BY <2>2 DEF WorkerStarts
    <3> QED BY <2>0, <3>1
  <2>3. CASE Heartbeat
    BY <1>2, <2>0, <2>1, <2>3 DEF Heartbeat, GateThen, WorkerRests, Workers
  <2>4. CASE Scan \/ Enqueue
    BY <1>2, <2>0, <2>4 DEF Scan, Enqueue, GateThen, Workers
  <2>5. CASE Upload
    BY <2>1, <2>5 DEF Upload
  <2>6. CASE WorkerStops \/ WorkerFetchesPolicy
    BY <2>0, <2>6 DEF WorkerStops, WorkerFetchesPolicy, WorkerRests
  <2>7. CASE DemandConsent
    BY <1>2, <2>7 DEF DemandConsent, Workers
  <2>8. CASE WorkerCloses
    BY <2>0, <2>1, <2>8 DEF WorkerCloses, WorkerRests
  <2>9. CASE WorkerErases
    BY <2>0, <2>1, <2>9 DEF WorkerErases, WorkerRests
  <2> QED BY <2>2, <2>3, <2>4, <2>5, <2>6, <2>7, <2>8, <2>9 DEF WorkerSteps
<1>4. vault' \in {vault, NoId}
  BY DEF WorkerSteps, WorkerStarts, Heartbeat, Scan, Enqueue, Upload, WorkerStops, DemandConsent,
         WorkerCloses, WorkerFetchesPolicy, WorkerErases, NoStorageChange
<1>5. CASE DemandConsent \/ WorkerFetchesPolicy
  <2>1. worker.cred \in Ids
    BY <1>2, <1>5 DEF DemandConsent, WorkerFetchesPolicy, WipeLabels
  <2>2. /\ worker.expected \in 0..MaxPolicy /\ Preflight(worker.cred) \in Journal
        /\ Preflight(worker.cred).phase = "RECONSENT_POLICY_PENDING"
    BY <1>2, <2>1, PreflightGood, Zero DEF Workers, GoodJournal
  <2>3. /\ Preflight(worker.cred).op = worker.cred
        /\ Preflight(worker.cred).boot = NoId /\ Preflight(worker.cred).prop = NoId
    BY DEF Preflight, Blank
  <2>4. /\ journal'.op = worker.cred /\ journal'.boot = NoId /\ journal'.prop = NoId
        /\ journal'.phase \in {"RECONSENT_POLICY_PENDING", "RECONSENT_READY"}
    <3>1. CASE DemandConsent
      BY <2>2, <2>3, <3>1 DEF DemandConsent, Journal
    <3>2. CASE WorkerFetchesPolicy
      BY <2>2, <2>3, <3>2 DEF WorkerFetchesPolicy, Journal
    <3> QED BY <1>5, <3>1, <3>2
  <2> QED BY <1>3, <1>4, <2>1, <2>4
<1>6. ~(DemandConsent \/ WorkerFetchesPolicy) => journal' \in {journal, Blank}
  BY DEF WorkerSteps, WorkerStarts, Heartbeat, Scan, Enqueue, Upload, WorkerStops,
         WorkerCloses, WorkerErases, NoStorageChange
<1> QED BY <1>3, <1>4, <1>5, <1>6

LEMMA WorkerSent ==
  ASSUME Shape, Shape', SentInv, WorkerSteps PROVE SentInv'
<1>0. UNCHANGED <<serverVars, ui, stage, wire, drawn, withdrawn>>
  BY DEF WorkerSteps, WorkerStarts, Heartbeat, Scan, Enqueue, Upload, WorkerStops, DemandConsent,
         WorkerCloses, WorkerFetchesPolicy, WorkerErases, WorkerOnly
<1>1. UNCHANGED ledger
  BY <1>0 DEF serverVars, dbVars, credVars
<1>2. Made(ledger, journal') /\ Sends(ledger, journal') \subseteq AllSent(ledger)
  BY WorkerWrites, SentFacts, QuietJournals, ConstantsDistinct
  DEF Made, NewSession, Sends, Sendable, Sending, Mutations, PolicyPending
<1> QED BY <1>0, <1>1, <1>2, WorkerWrites, SentFacts, PhoneQuietSent

\* The server records the request it is served, whoever still waits for it.
LEMMA ServeSent ==
  ASSUME Shape, Shape', SentInv, NEW m \in wire, Serve(m)
  PROVE  SentInv' /\ Grows(ledger, ledger')
<1>1. GoodCall(m) /\ m.req \in Ids /\ m.op # "none"
  BY CallFields DEF Shape, GoodCall, Ops, AuthOps
<1>2. \/ ledger' = ledger /\ ledger[m.req] = m
      \/ ledger[m.req].op = "none" /\ ledger' = [ledger EXCEPT ![m.req] = m]
  BY <1>1, ServeKeeps DEF Shape
<1>3. /\ \A i \in Ids \ {m.req} : ledger'[i] = ledger[i]
      /\ ledger'[m.req] = m
  BY <1>1, <1>2 DEF Shape, Server, TypeOK
<1>4. Grows(ledger, ledger')
  <2> SUFFICES ASSUME NEW c \in Ids, ledger[c].op # "none" PROVE ledger'[c] = ledger[c]
    BY DEF Grows
  <2>1. ledger \in [Ids -> Call] BY DEF Shape, Server, TypeOK
  <2> QED BY <1>1, <1>2, <2>1
<1>5. UNCHANGED <<journal, vault, worker, drawn>> /\ wire' = wire \ {m}
  BY DEF Serve, Answered
<1>6. \/ ui' = ui
      \/ ui.at = "await" /\ Request(ui.j) = m /\ ui'.j = ui.j /\ ui'.at = "ok"
  BY DEF Serve, Answered, Goto, Shape, GoodUi
<1>7. ui'.j = ui.j
  BY <1>6
<1>8. /\ Made(ledger', journal) /\ Sends(ledger', journal) = Sends(ledger, journal)
      /\ Made(ledger', ui.j) /\ Sends(ledger', ui.j) = Sends(ledger, ui.j)
      /\ Sendable(ui.j) => Sent(ledger', ui.j) = Sent(ledger, ui.j)
  BY <1>4, SentFacts, SentStable
<1>9. AllSent(ledger)' \subseteq AllSent(ledger)
  <2>1. m \in AllSent(ledger) BY DEF AllSent
  <2>2. ASSUME NEW i \in Ids, ledger'[i].op # "none" PROVE ledger'[i] \in AllSent(ledger)
    BY <1>3, <2>1, <2>2 DEF AllSent
  <2>3. AllSent(ledger)' = wire' \cup Sends(ledger', journal') \cup Sends(ledger', ui'.j)
                             \cup {ledger'[i] : i \in {i \in Ids : ledger'[i].op # "none"}}
    BY DEF AllSent
  <2>4. /\ wire' \subseteq AllSent(ledger)
        /\ Sends(ledger', journal') \subseteq AllSent(ledger)
        /\ Sends(ledger', ui'.j) \subseteq AllSent(ledger)
    BY <1>5, <1>7, <1>8, SentFacts DEF AllSent
  <2> QED BY <2>2, <2>3, <2>4
<1>10. OneRequestPerId' /\ IdsWereDrawn'
  BY <1>5, <1>9 DEF SentInv, OneRequestPerId, IdsWereDrawn
<1>11. LedgerIsFiled'
  BY <1>1, <1>3 DEF SentInv, LedgerIsFiled, WireNamesPhone
<1>12. WireNamesPhone'
  BY <1>5 DEF SentInv, WireNamesPhone
<1>13. CredentialsKnown'
  <2>1. \A c : Known(ledger, c) => Known(ledger', c)
    BY <1>4 DEF Known, Grows
  <2> QED BY <1>5, <1>7, <1>8, <2>1, SentFacts DEF CredentialsKnown
<1>14. Recognized'
  <2> SUFFICES ASSUME ui'.at \in AckLabels, ui'.j.phase \in Sending
               PROVE  ledger'[ui'.j.req] = Sent(ledger', ui'.j)
    BY DEF Recognized
  <2>1. Sendable(ui.j)
    <3>1. CASE ui.at = "await"
      BY <1>7, <3>1, ConstantsDistinct DEF Shape, GoodUi, Fits, Sendable
    <3>2. CASE ui' = ui
      <4>1. ui.j.phase = "REVOKE_PENDING" => ui.at = "ok"
        BY <3>2 DEF Shape, GoodUi, Fits, AckLabels, PolicyPending
      <4> QED BY <1>7, <4>1, ConstantsDistinct DEF Shape, GoodUi, Fits, Sendable
    <3> QED BY <1>6, <3>1, <3>2
  <2>2. CASE ui' = ui
    <3>1. ledger[ui.j.req] = Sent(ledger, ui.j)
      BY <2>2, SentFacts
    <3>2. Known(ledger, ui.j.req)
      BY <2>1, <3>1, SentFacts, AckedIsKnown
    <3> QED BY <1>4, <1>8, <2>1, <2>2, <3>1, <3>2 DEF Known, Grows
  <2>3. CASE ui.at = "await" /\ Request(ui.j) = m /\ ui'.j = ui.j
    <3>1. m = Sent(ledger, ui.j)
      BY <2>1, <2>3, SentFacts, RequestIsSent DEF Sendable
    <3>2. m.req = ui.j.req
      BY <2>1, <3>1, SentFacts, SentFields
    <3> QED BY <1>3, <1>8, <2>1, <2>3, <3>1, <3>2
  <2> QED BY <1>6, <2>2, <2>3
<1> QED BY <1>4, <1>10, <1>11, <1>12, <1>13, <1>14 DEF SentInv

LEMMA WorldSent ==
  ASSUME Shape, Shape', SentInv,
         Crash \/ ServerSteps \/ \E m \in wire : Serve(m) \/ ServeStale(m) \/ Lose(m)
  PROVE  SentInv'
<1>1. CASE Crash
  <2>1. /\ UNCHANGED <<ledger, journal, vault, wire, drawn>> /\ ui'.j = Blank /\ ui'.at = "off"
        /\ worker'.cred = NoId
    BY <1>1 DEF Crash, NoStorageChange, serverVars, dbVars, credVars, NoUi, WorkerRests, NoWorker
  <2> QED BY <2>1, SentFacts, QuietJournals, PhoneQuietSent DEF AckLabels
<1>2. CASE ServerSteps
  <2>1. UNCHANGED <<ledger, journal, vault, wire, drawn, ui, worker>>
    BY <1>2, ServerStepKeeps DEF Shape, ServerSteps, phoneVars
  <2> QED BY <2>1, SentFacts, PhoneQuietSent
<1>3. ASSUME NEW m \in wire, ServeStale(m) PROVE SentInv'
  <2>1. /\ UNCHANGED <<ledger, journal, vault, drawn, worker>> /\ wire' \subseteq wire
        /\ ui'.j = ui.j /\ (ui' = ui \/ ui'.at = "stale")
    BY <1>3 DEF ServeStale, Answered, dbVars, credVars, Goto, Shape, GoodUi
  <2> QED BY <2>1, SentFacts, PhoneQuietSent DEF AckLabels
<1>4. ASSUME NEW m \in wire, Lose(m) PROVE SentInv'
  <2>1. UNCHANGED <<ledger, journal, vault, drawn, worker, ui>> /\ wire' \subseteq wire
    BY <1>4 DEF Lose, serverVars, dbVars, credVars, phoneVars
  <2> QED BY <2>1, SentFacts, PhoneQuietSent
<1> QED BY <1>1, <1>2, <1>3, <1>4, ServeSent

LEMMA SentInit == PhoneInit => SentInv
<1> SUFFICES ASSUME PhoneInit PROVE SentInv
  OBVIOUS
<1>1. /\ \A i \in Ids : ledger[i] = NoCall(i) /\ ledger[i].op = "none" /\ ledger[i].req = i
      /\ wire = {} /\ journal = Blank /\ ui.j = Blank /\ ui.at = "off" /\ vault = NoId /\ worker.cred = NoId
  BY DEF PhoneInit, Init, NoCall, NoUi, NoWorker
<1>2. AllSent(ledger) = {}
  BY <1>1, QuietJournals DEF AllSent
<1> QED BY <1>1, <1>2, QuietJournals
     DEF SentInv, OneRequestPerId, IdsWereDrawn, LedgerIsFiled, WireNamesPhone, CredentialsKnown,
         Recognized, AckLabels

LEMMA SentStep == Shape /\ SentInv /\ [PhoneNext]_allVars => SentInv'
<1> SUFFICES ASSUME Shape, SentInv, [PhoneNext]_allVars PROVE SentInv'
  OBVIOUS
<1>1. Shape' BY ShapeStep
<1>2. CASE UNCHANGED allVars
  <2>1. UNCHANGED <<ledger, journal, vault, wire, drawn, ui, worker>>
    BY <1>2 DEF allVars, phoneVars, serverVars, dbVars, credVars
  <2> QED BY <2>1, SentFacts, PhoneQuietSent
<1> QED BY <1>1, <1>2, TapsSent, UiStepsSent, WorkerSent, WorldSent DEF PhoneNext

-------------------------------------------------------------------------------
(* The queue holds calls of enrolled phones.                                  *)

Row == [dev : Devices, under : 0..MaxPolicy, since : 0..MaxPolicy]

\* Only Enqueue adds a row.
LEMMA WhoQueues ==
  ASSUME [PhoneNext]_allVars
  PROVE  rows' \in {rows, {}} \/ Enqueue
<1>1. CASE Taps
  BY <1>1 DEF Taps, PairSame, PairFresh, Retry, Accept, Rotate, Withdraw, RetryRevocation,
              ResetRevokedDevice, Look, NoStorageChange
<1>2. CASE UiSteps
  BY <1>2 DEF UiSteps, Launch, Refresh, GiveUp, Acknowledged, RecoverFromConsentRequired,
              JournalPreflight, CloseGate, Purge, PolicyFetched, ClearJournal, WriteIdle, OpenGate,
              FinishRevocation, WipeVault, WipeJournal, WipeData, ForgetRevocation, JournalRedeem,
              NoStorageChange
<1>3. CASE WorkerSteps
  BY <1>3 DEF WorkerSteps, WorkerStarts, Heartbeat, Scan, Upload, WorkerStops, DemandConsent,
              WorkerCloses, WorkerFetchesPolicy, WorkerErases, NoStorageChange
<1>4. CASE Crash \/ ServerSteps \/ \E m \in wire : Serve(m) \/ ServeStale(m) \/ Lose(m)
  BY <1>4 DEF Crash, ServerSteps, Serve, ServeStale, Lose, Answered, NoStorageChange, phoneVars
<1>5. CASE UNCHANGED allVars
  BY <1>5 DEF allVars, phoneVars
<1> QED BY <1>1, <1>2, <1>3, <1>4, <1>5 DEF PhoneNext

LEMMA QueueTyped ==
  ASSUME Shape, SentInv, rows \subseteq Row, [PhoneNext]_allVars
  PROVE  rows' \subseteq Row
<1>1. CASE Enqueue
  <2>1. worker.at = "enqueue" /\ worker \in Workers /\ worker.cred \in Ids
    BY <1>1 DEF Enqueue, Shape, GoodWorker, WipeLabels
  <2>2. Known(ledger, worker.cred)
    BY <2>1, SentFacts, ConstantsDistinct
  <2>3. Home(worker.cred) \in Devices
    BY <2>2 DEF SentInv, LedgerIsFiled, Known, Home
  <2>4. [dev |-> Home(worker.cred), under |-> worker.under, since |-> worker.since] \in Row
    BY <2>1, <2>3 DEF Row, Workers
  <2> QED BY <1>1, <2>4 DEF Enqueue
<1> QED BY <1>1, WhoQueues

PhoneIInv == Shape /\ SentInv /\ rows \subseteq Row

LEMMA PhoneInvariant == PhoneSpec => []PhoneIInv
<1>1. PhoneInit => PhoneIInv
  BY ShapeInit, SentInit DEF PhoneIInv, PhoneInit
<1>2. PhoneIInv /\ [PhoneNext]_allVars => PhoneIInv'
  BY ShapeStep, SentStep, QueueTyped DEF PhoneIInv
<1> QED BY <1>1, <1>2, PTL DEF PhoneSpec

\* Wherever a crash cuts an operation, the journal it leaves can be resumed: its
\* phase comes with every id, secret and policy that the perform functions insist on.
THEOREM JournalsResume == PhoneSpec => []PhoneInv
<1>1. PhoneIInv => PhoneInv
  <2> SUFFICES ASSUME PhoneIInv PROVE PhoneInv
    OBVIOUS
  <2>1. PhoneTypeOK
    <3>1. wire \subseteq Call
      BY DEF PhoneIInv, Shape, GoodCall
    <3> QED BY <3>1 DEF PhoneIInv, Shape, GoodJournal, GoodUi, GoodWorker, Prefs, Workers, Thens,
                        Row, PhoneTypeOK
  <2>2. JournalResumable
    BY ConstantsDistinct
    DEF PhoneIInv, Shape, GoodJournal, Resumable, JournalResumable, NewSession, Rotation, ConsentPhases
  <2> QED BY <2>1, <2>2 DEF PhoneInv
<1> QED BY <1>1, PhoneInvariant, PTL

\* A request id stands for one request, whatever is lost, served late, sent again
\* after a crash, or resumed from the journal: the ledger never holds another one.
THEOREM RetriesAreIdempotent == PhoneSpec => []RequestsNeverConflict
<1>1. PhoneIInv => RequestsNeverConflict
  <2> SUFFICES ASSUME PhoneIInv, NEW m \in wire \cup Journaled
               PROVE  ledger[m.req] \in {NoCall(m.req), m}
    BY DEF RequestsNeverConflict
  <2>1. Shape /\ SentInv BY DEF PhoneIInv
  <2>2. m \in AllSent(ledger) /\ m.req \in Ids
    <3>1. CASE m \in wire
      BY <2>1, <3>1, CallFields DEF AllSent, Shape, GoodCall
    <3>2. CASE m \in Journaled
      <4>1. Sendable(journal) /\ m = Request(journal)
        BY <3>2 DEF Journaled, Sendable, Sending, Mutations, PolicyPending
      <4>2. m = Sent(ledger, journal) /\ m.req = journal.req /\ journal.req \in Ids
        BY <2>1, <4>1, SentFacts, SentFields, RequestIsSent DEF Sendable
      <4> QED BY <4>1, <4>2 DEF AllSent, Sends
    <3> QED BY <3>1, <3>2
  <2>3. CASE ledger[m.req].op = "none"
    BY <2>1, <2>2, <2>3 DEF SentInv, LedgerIsFiled
  <2>4. CASE ledger[m.req].op # "none"
    <3>1. ledger[m.req] \in AllSent(ledger) /\ ledger[m.req].req = m.req
      BY <2>1, <2>2, <2>4 DEF AllSent, SentInv, LedgerIsFiled
    <3> QED BY <2>1, <2>2, <3>1 DEF SentInv, OneRequestPerId
  <2> QED BY <2>3, <2>4
<1> QED BY <1>1, PhoneInvariant, PTL

-------------------------------------------------------------------------------
(* Erasure.  While an operation or the worker withdraws or erases, what has    *)
(* been purged stays purged: the worker collects only through an open gate,    *)
(* and nothing but a new enrolment takes the mark of a revocation back.        *)

Purged == rows = {} /\ prefs.revoked /\ worker.at # "enqueue"
Withdrawing(u) == \/ u.at \in {"revJ", "revE"}
                  \/ u.at \in {"await", "ok", "stale"} /\ u.j.phase = "REVOKE_PENDING"
AboutToPurge(u) ==
  \/ u.at \in {"off", "closeR", "purgeR", "wipe", "wipeJ"}
  \/ u.at = "refresh" /\ u.then = "resume" /\ u.j.phase = "REVOKE_PENDING"

MarkedIsEmpty == prefs.revoked /\ ~prefs.pending => rows = {} /\ worker.at # "enqueue"
WithdrawnIsPurged == Withdrawing(ui) => Purged
PendingIsPurged == journal.phase = "REVOKE_PENDING" => Purged \/ AboutToPurge(ui)
WipeExcludesWorker ==
  /\ ui.at \in {"wipeJ", "wipeD", "wiped", "redeem"} =>
       vault = NoId /\ worker.at \in {"off"} \cup WipeLabels /\ worker.cred = NoId
  /\ ui.at \in {"wipeJ", "wipeD"} => worker.at = "off"
  /\ ui.at \in {"wiped", "redeem"} => rows = {}
WorkerWiped == worker.at = "wipeE" => rows = {}
PastPending == ui.at \in {"open", "wipeD", "wiped", "redeem"} => journal.phase # "REVOKE_PENDING"
MarkedBeforePurge == ui.at = "purgeR" => prefs.revoked

EraseInv == /\ MarkedIsEmpty /\ WithdrawnIsPurged /\ PendingIsPurged /\ WipeExcludesWorker
            /\ WorkerWiped /\ PastPending /\ MarkedBeforePurge

\* What a step of the worker can do to an erasure.
LEMMA WorkerFrame ==
  ASSUME Shape, WorkerSteps
  PROVE  /\ ui' = ui
         /\ prefs.revoked => prefs'.revoked
         /\ prefs'.revoked /\ ~prefs'.pending
              => (prefs.revoked /\ ~prefs.pending) \/ worker.at = "wipeE"
         /\ worker'.at = "enqueue" => worker.at = "scan" /\ ~prefs.revoked /\ prefs' = prefs
         /\ rows' \in {rows, {}} \/ worker.at = "enqueue"
         /\ journal'.phase = "REVOKE_PENDING" => journal' = journal
         /\ worker'.at = "wipeE" => rows' = {}
         /\ vault = NoId /\ worker.cred = NoId /\ worker.at \in {"off"} \cup WipeLabels
              => vault' = NoId /\ worker'.cred = NoId /\ worker'.at \in {"off"} \cup WipeLabels
         /\ ~(UiHoldsMutex /\ worker.at = "off")
<1>0. /\ worker \in Workers /\ prefs \in Prefs
      /\ NoWorker.at = "off" /\ NoWorker.cred = NoId
      /\ \A at : WGoto(at) => worker'.at = at /\ worker'.cred = worker.cred
  BY DEF Shape, GoodWorker, NoWorker, WGoto, Workers
<1>1. ui' = ui
  BY DEF WorkerSteps, WorkerStarts, Heartbeat, Scan, Enqueue, Upload, WorkerStops, DemandConsent,
         WorkerCloses, WorkerFetchesPolicy, WorkerErases, WorkerOnly
<1>2. CASE WorkerStarts
  <2>1. PICK at \in {"wipe", "close", "closeR", "demand", "beat"} :
          /\ worker' = [NoWorker EXCEPT !.at = at, !.cred = vault, !.under = journal.consent]
          /\ at = "wipe" \/ vault # NoId
    BY <1>2 DEF WorkerStarts
  <2>2. worker'.at = at /\ worker'.cred = vault
    BY <2>1 DEF NoWorker
  <2>3. MutexFree /\ UNCHANGED <<journal, vault, prefs, rows>>
    BY <1>2 DEF WorkerStarts, NoStorageChange
  <2> QED BY <1>1, <2>1, <2>2, <2>3 DEF MutexFree, WipeLabels
<1>3. CASE Heartbeat
  <2>1. worker.at \in {"beat", "last"} /\ UNCHANGED <<journal, vault, prefs, rows>>
    BY <1>3 DEF Heartbeat, NoStorageChange
  <2>2. worker'.at \in {"wipe", "demand", "scan", "off"}
    BY <1>0, <1>3 DEF Heartbeat, GateThen, WorkerRests, Workers
  <2> QED BY <1>1, <2>1, <2>2 DEF WipeLabels
<1>4. CASE Scan
  <2>1. worker.at = "scan" /\ UNCHANGED <<journal, vault, prefs, rows>>
    BY <1>4 DEF Scan, NoStorageChange
  <2>2. worker'.at \in {"enqueue", "off"} /\ (worker'.at = "enqueue" => ~prefs.revoked)
    BY <1>0, <1>4 DEF Scan, GateThen, GateOpen, Workers
  <2> QED BY <1>1, <2>1, <2>2 DEF WipeLabels
<1>5. CASE Enqueue
  <2>1. worker.at = "enqueue" /\ UNCHANGED <<journal, vault, prefs>>
    BY <1>5 DEF Enqueue
  <2>2. worker'.at \in {"upload", "off"}
    BY <1>0, <1>5 DEF Enqueue, GateThen, Workers
  <2> QED BY <1>1, <2>1, <2>2 DEF WipeLabels
<1>6. CASE Upload
  <2>1. /\ worker.at = "upload" /\ UNCHANGED <<journal, vault, prefs>> /\ rows' \in {rows, {}}
        /\ worker'.at \in {"wipe", "demand", "last"}
    BY <1>0, <1>6 DEF Upload
  <2> QED BY <1>1, <2>1 DEF WipeLabels
<1>7. CASE WorkerStops
  <2>1. /\ worker.at \in {"beat", "scan", "upload", "last", "policy"} /\ worker' = NoWorker
        /\ UNCHANGED <<journal, vault, prefs, rows>>
    BY <1>7 DEF WorkerStops, WorkerRests, NoStorageChange
  <2> QED BY <1>0, <1>1, <2>1 DEF WipeLabels
<1>8. CASE DemandConsent \/ WorkerFetchesPolicy
  <2>1. /\ worker.at \in {"demand", "policy"} /\ worker'.at \in {"close", "off"}
        /\ UNCHANGED <<vault, prefs, rows>>
    BY <1>0, <1>8 DEF DemandConsent, WorkerFetchesPolicy, WorkerRests, Workers
  <2>2. worker.cred \in Ids /\ worker.expected \in 0..MaxPolicy
    BY <2>1 DEF Shape, GoodWorker, WipeLabels, Workers
  <2>3. Preflight(worker.cred) \in Journal /\ Preflight(worker.cred).phase = "RECONSENT_POLICY_PENDING"
    BY <2>2, PreflightGood DEF GoodJournal
  <2>4. journal'.phase # "REVOKE_PENDING"
    <3>1. CASE DemandConsent
      BY <2>3, <3>1 DEF DemandConsent, Journal
    <3>2. CASE WorkerFetchesPolicy
      BY <2>3, <3>2 DEF WorkerFetchesPolicy, Journal
    <3> QED BY <1>8, <3>1, <3>2
  <2> QED BY <1>1, <2>1, <2>4 DEF WipeLabels
<1>9. CASE WorkerCloses
  <2>1. /\ worker.at \in {"closeR", "close", "purge", "reset"} /\ UNCHANGED <<journal, vault>>
        /\ rows' \in {rows, {}} /\ worker'.at \in {"close", "purge", "reset", "policy", "off"}
    BY <1>0, <1>9 DEF WorkerCloses, WorkerRests
  <2>2. /\ prefs.revoked => prefs'.revoked
        /\ prefs'.revoked /\ ~prefs'.pending => prefs.revoked /\ ~prefs.pending
    BY <1>0, <1>9 DEF WorkerCloses, Closed, Prefs
  <2> QED BY <1>1, <2>1, <2>2 DEF WipeLabels
<1>10. CASE WorkerErases
  <2>1. /\ worker.at \in WipeLabels /\ vault' \in {vault, NoId} /\ journal' \in {journal, Blank}
        /\ rows' \in {rows, {}} /\ worker'.at \in {"wipeV", "wipeJ", "wipeD", "wipeE", "off"}
        /\ worker'.at = "wipeE" => rows' = {}
        /\ worker'.cred \in {worker.cred, NoId}
    BY <1>0, <1>10 DEF WorkerErases, WorkerRests, WipeLabels
  <2>2. /\ prefs.revoked => prefs'.revoked
        /\ prefs'.revoked /\ ~prefs'.pending => (prefs.revoked /\ ~prefs.pending) \/ worker.at = "wipeE"
    BY <1>0, <1>10 DEF WorkerErases, Erasing, Prefs
  <2>3. Blank.phase # "REVOKE_PENDING" BY BlankGood
  <2> QED BY <1>1, <2>1, <2>2, <2>3 DEF WipeLabels
<1> QED BY <1>2, <1>3, <1>4, <1>5, <1>6, <1>7, <1>8, <1>9, <1>10 DEF WorkerSteps

LEMMA WorkerErasure ==
  ASSUME Shape, EraseInv, WorkerSteps PROVE EraseInv'
<1>1. Purged => Purged'
  BY WorkerFrame DEF Purged
<1>2. MarkedIsEmpty'
  BY WorkerFrame DEF EraseInv, MarkedIsEmpty, WorkerWiped
<1>3. WithdrawnIsPurged' /\ PendingIsPurged'
  BY <1>1, WorkerFrame DEF EraseInv, WithdrawnIsPurged, PendingIsPurged
<1>4. WipeExcludesWorker'
  BY WorkerFrame DEF EraseInv, WipeExcludesWorker, UiHoldsMutex, WipeLabels
<1>5. WorkerWiped' /\ PastPending' /\ MarkedBeforePurge'
  BY WorkerFrame DEF EraseInv, WorkerWiped, PastPending, MarkedBeforePurge
<1> QED BY <1>2, <1>3, <1>4, <1>5 DEF EraseInv

\* Steps that only move the operation on.
LEMMA QuietErasure ==
  ASSUME EraseInv, UNCHANGED <<journal, prefs, rows, vault, worker>>,
         Withdrawing(ui') => Withdrawing(ui) \/ Purged,
         journal.phase = "REVOKE_PENDING" /\ AboutToPurge(ui) => AboutToPurge(ui'),
         ui'.at \notin {"wipeJ", "wipeD", "wiped", "redeem", "open", "purgeR"}
  PROVE  EraseInv'
<1>1. Purged' = Purged
  BY DEF Purged
<1>2. MarkedIsEmpty' /\ WorkerWiped'
  BY DEF EraseInv, MarkedIsEmpty, WorkerWiped
<1>3. WithdrawnIsPurged' /\ PendingIsPurged'
  BY <1>1 DEF EraseInv, WithdrawnIsPurged, PendingIsPurged
<1>4. WipeExcludesWorker' /\ PastPending' /\ MarkedBeforePurge'
  BY DEF WipeExcludesWorker, PastPending, MarkedBeforePurge
<1> QED BY <1>2, <1>3, <1>4 DEF EraseInv

\* An operation begun by a tap finds a pending withdrawal purged.
LEMMA TapsErasure ==
  ASSUME Shape, Shape', EraseInv, Taps PROVE EraseInv'
<1>0. UNCHANGED <<prefs, rows, vault, worker>> /\ ui.at = "idle"
  BY DEF Taps, PairSame, PairFresh, Retry, Accept, Rotate, Withdraw, RetryRevocation,
         ResetRevokedDevice, Look, NoStorageChange, Idle
<1>1. /\ ~AboutToPurge(ui) /\ (journal.phase = "REVOKE_PENDING" => Purged)
  BY <1>0 DEF EraseInv, PendingIsPurged, AboutToPurge
<1>2. ASSUME NEW j, Send(j) PROVE ui'.at = "await" /\ ui'.j = j
  BY <1>2 DEF Send, GoWith
<1>3. ASSUME UNCHANGED journal, ui'.at = "await" => ui'.j = journal,
             ui'.at \in {"await", "close", "closeR", "wipe", "refresh"}
      PROVE  EraseInv'
  BY <1>0, <1>1, <1>3, QuietErasure DEF Withdrawing
<1>4. ASSUME journal'.phase # "REVOKE_PENDING", ui'.j = journal', ui'.at = "await"
      PROVE  EraseInv'
  <2>1. Purged' = Purged BY <1>0 DEF Purged
  <2>2. MarkedIsEmpty' /\ WorkerWiped'
    BY <1>0 DEF EraseInv, MarkedIsEmpty, WorkerWiped
  <2> QED BY <1>4, <2>2 DEF EraseInv, WithdrawnIsPurged, Withdrawing, PendingIsPurged, WipeExcludesWorker,
                            PastPending, MarkedBeforePurge
<1>5. CASE PairSame \/ RetryRevocation
  BY <1>2, <1>3, <1>5 DEF PairSame, RetryRevocation, NoStorageChange
<1>6. ASSUME NEW k \in Codes, PairFresh(k) PROVE EraseInv'
  BY <1>3, <1>6 DEF PairFresh, NoStorageChange
<1>7. CASE Retry
  <2>1. ui'.at \in {"await", "close", "closeR"} /\ ui'.j = journal
    BY <1>7 DEF Retry, Resume, Send, GoWith
  <2> QED BY <1>3, <1>7, <2>1 DEF Retry, NoStorageChange
<1>8. CASE Accept
  <2>1. ASSUME journal.phase \in {"DISCLOSURE_READY", "RECONSENT_READY"}, NEW n, NEW j \in Journal,
               journal' = IF journal.phase = "DISCLOSURE_READY"
                          THEN [j EXCEPT !.phase = "ACTIVATION_PENDING", !.prop = n]
                          ELSE [j EXCEPT !.phase = "RECONSENT_PENDING"],
               Send(journal')
        PROVE  EraseInv'
    <3>1. journal'.phase # "REVOKE_PENDING"
      BY <2>1 DEF Journal
    <3>2. Send(journal') BY <2>1
    <3> QED BY <1>2, <1>4, <3>1, <3>2
  <2>2. CASE /\ journal.phase \in {"ACTIVATION_PENDING", "RECONSENT_PENDING"}
             /\ Send(journal) /\ UNCHANGED <<journal, drawn>>
    BY <1>2, <1>3, <2>2
  <2>3. ASSUME NEW n \in Fresh PROVE [journal EXCEPT !.req = n, !.consent = journal.policy] \in Journal
    BY <2>3 DEF Fresh, AnyOf, Shape, GoodJournal, Journal
  <2> QED BY <1>8, <2>1, <2>2, <2>3 DEF Accept
<1>9. CASE Rotate
  <2>1. PICK n \in Fresh : journal' = [journal EXCEPT !.phase = "ROTATION_PREPARE_PENDING",
                                                      !.req = n, !.prop = n, !.op = vault]
    BY <1>9 DEF Rotate
  <2>2. journal'.phase = "ROTATION_PREPARE_PENDING"
    BY <2>1 DEF Shape, GoodJournal, Journal
  <2>3. journal'.phase # "REVOKE_PENDING"
    BY <2>2
  <2>4. Send(journal') BY <1>9 DEF Rotate
  <2>5. ui'.at = "await" /\ ui'.j = journal'
    BY <1>2, <2>4
  <2> QED BY ONLY <1>4, <2>3, <2>5
<1>10. CASE Withdraw
  <2>0. \A j : GoWith("closeR", j) => ui'.at = "closeR"
    BY DEF GoWith
  <2>1. ui'.at = "closeR"
    BY <1>10, <2>0 DEF Withdraw
  <2>2. MarkedIsEmpty' /\ WorkerWiped'
    BY <1>0 DEF EraseInv, MarkedIsEmpty, WorkerWiped
  <2> QED BY <2>1, <2>2 DEF EraseInv, WithdrawnIsPurged, Withdrawing, PendingIsPurged, AboutToPurge,
                            WipeExcludesWorker, PastPending, MarkedBeforePurge
<1>11. CASE ResetRevokedDevice
  BY <1>3, <1>11 DEF ResetRevokedDevice, NoStorageChange
<1>12. CASE Look
  BY <1>3, <1>12 DEF Look, Done, NoUi, NoStorageChange
<1> QED BY <1>5, <1>6, <1>7, <1>8, <1>9, <1>10, <1>11, <1>12 DEF Taps

LEMMA UiErasure ==
  ASSUME Shape, Shape', EraseInv, UiSteps PROVE EraseInv'
<1> USE DEF EraseInv
<1>0. /\ worker' = worker /\ prefs \in Prefs /\ Blank.phase = "IDLE" /\ NoWorker.at = "off" /\ NoWorker.cred = NoId
      /\ (worker.at = "off" => worker = NoWorker)
  BY BlankGood DEF UiSteps, Launch, Refresh, GiveUp, Acknowledged, RecoverFromConsentRequired,
         JournalPreflight, CloseGate, Purge, PolicyFetched, ClearJournal, WriteIdle, OpenGate,
         FinishRevocation, WipeVault, WipeJournal, WipeData, ForgetRevocation, JournalRedeem,
         NoStorageChange, Shape, GoodWorker, NoWorker
<1>1. /\ \A at : Goto(at) => ui'.at = at /\ ui'.j = ui.j /\ ui'.then = ui.then
      /\ Done => ui'.at = "refresh"
  BY DEF Goto, Done, NoUi, Shape, GoodUi
<1>2. \A j : Send(j) => ui'.at = "await" /\ ui'.j = j
  BY DEF Send, GoWith
\* The operation moves on and leaves no withdrawal in the journal.
<1>3. ASSUME UNCHANGED <<prefs, rows>>, journal'.phase # "REVOKE_PENDING", ~Withdrawing(ui'),
             ui'.at \notin {"wipeJ", "wipeD", "wiped", "redeem", "purgeR"}
      PROVE  EraseInv'
  <2>1. MarkedIsEmpty' /\ WorkerWiped'
    BY <1>0, <1>3 DEF MarkedIsEmpty, WorkerWiped
  <2>2. WithdrawnIsPurged' /\ PendingIsPurged'
    BY <1>3 DEF WithdrawnIsPurged, PendingIsPurged, Withdrawing
  <2>3. WipeExcludesWorker' /\ PastPending' /\ MarkedBeforePurge'
    BY <1>3 DEF WipeExcludesWorker, PastPending, MarkedBeforePurge
  <2> QED BY <2>1, <2>2, <2>3
\* The operation moves on; the journal is the same and nothing is purged here.
<1>4. ASSUME UNCHANGED <<prefs, rows, journal>>, ~AboutToPurge(ui), Withdrawing(ui') => Withdrawing(ui),
             ui'.at \notin {"wipeJ", "wipeD", "wiped", "redeem", "open", "purgeR"}
      PROVE  EraseInv'
  <2>1. MarkedIsEmpty' /\ WorkerWiped' /\ Purged' = Purged
    BY <1>0, <1>4 DEF MarkedIsEmpty, WorkerWiped, Purged
  <2>2. WithdrawnIsPurged' /\ PendingIsPurged'
    BY <1>4, <2>1 DEF WithdrawnIsPurged, PendingIsPurged
  <2>3. WipeExcludesWorker' /\ PastPending' /\ MarkedBeforePurge'
    BY <1>4 DEF WipeExcludesWorker, PastPending, MarkedBeforePurge
  <2> QED BY <2>1, <2>2, <2>3
<1>5. CASE Launch
  <2>0. rows' = rows /\ vault' = vault BY <1>5 DEF Launch
  <2>1. CASE RequiresPurge
    <3>1. ui'.at = "wipe" /\ journal' = journal /\ prefs' = ClosedForRevoke(prefs)
      BY <1>5, <2>1 DEF Launch
    <3>2. prefs'.pending
      BY <1>0, <3>1 DEF ClosedForRevoke, Closed, Prefs
    <3> QED BY <1>0, <2>0, <3>1, <3>2
         DEF MarkedIsEmpty, WithdrawnIsPurged, Withdrawing, PendingIsPurged, AboutToPurge,
             WipeExcludesWorker, WorkerWiped, PastPending, MarkedBeforePurge
  <2>2. CASE ~RequiresPurge /\ vault # NoId /\ journal.phase = "IDLE" /\ ~LocalConsent
    <3>1. /\ journal' = Preflight(vault) /\ ui'.at = "close" /\ prefs' = prefs
      BY <1>5, <2>2 DEF Launch
    <3>2. Preflight(vault).phase # "REVOKE_PENDING"
      BY DEF Preflight, Blank
    <3> QED BY <1>3, <2>0, <3>1, <3>2 DEF Withdrawing
  <2>3. CASE ~RequiresPurge /\ ~(vault # NoId /\ journal.phase = "IDLE" /\ ~LocalConsent)
    <3>1. /\ ui' = [at |-> "refresh", j |-> journal, then |-> "resume"]
          /\ UNCHANGED <<journal, prefs>>
      BY <1>5, <2>3 DEF Launch
    <3> QED BY <1>0, <2>0, <3>1
         DEF MarkedIsEmpty, WithdrawnIsPurged, Withdrawing, PendingIsPurged, AboutToPurge,
             WipeExcludesWorker, WorkerWiped, PastPending, MarkedBeforePurge
  <2> QED BY <2>1, <2>2, <2>3
<1>6. CASE Refresh
  <2>1. /\ ui.at = "refresh" /\ UNCHANGED <<rows, vault, journal>>
        /\ prefs' = prefs \/ (journal.phase = "IDLE" /\ ~prefs'.revoked)
    BY <1>6 DEF Refresh, Reopens, LocalConsent, Opened
  <2>2. ui'.at \in {"await", "close", "closeR", "idle"} /\ ~Withdrawing(ui')
    <3>1. CASE ui.then = "resume" /\ ui.j.phase \in Mutations \cup PolicyPending
      BY <1>2, <1>6, <3>1 DEF Refresh, Resume, GoWith, Withdrawing
    <3>2. CASE ~(ui.then = "resume" /\ ui.j.phase \in Mutations \cup PolicyPending)
      BY <1>6, <3>2 DEF Refresh, NoUi, Withdrawing
    <3> QED BY <3>1, <3>2
  <2>3. AboutToPurge(ui) => ui'.at = "closeR"
    <3> SUFFICES ASSUME AboutToPurge(ui) PROVE ui'.at = "closeR"
      OBVIOUS
    <3>1. ui.then = "resume" /\ ui.j.phase = "REVOKE_PENDING"
      BY <2>1 DEF AboutToPurge
    <3> QED BY <1>6, <3>1 DEF Refresh, Resume, GoWith, Mutations, PolicyPending
  <2>4. MarkedIsEmpty' /\ WorkerWiped'
    BY <1>0, <2>1 DEF MarkedIsEmpty, WorkerWiped
  <2>5. PendingIsPurged'
    BY <1>0, <2>1, <2>3 DEF PendingIsPurged, AboutToPurge, Purged
  <2> QED BY <2>2, <2>4, <2>5 DEF WithdrawnIsPurged, WipeExcludesWorker, PastPending, MarkedBeforePurge
<1>7. CASE GiveUp
  BY <1>1, <1>4, <1>7 DEF GiveUp, NoStorageChange, AboutToPurge, Withdrawing
<1>8. CASE Acknowledged
  <2>1. ui.at = "ok" /\ UNCHANGED <<prefs, rows>>
    BY <1>8 DEF Acknowledged
  <2>2. CASE ui.j.phase = "ROTATION_PREPARE_PENDING"
    <3>1. PICK n \in Fresh :
            /\ journal' = [ui.j EXCEPT !.phase = "ROTATION_CONFIRM_PENDING", !.req = n]
            /\ Send(journal')
      BY <1>8, <2>2 DEF Acknowledged
    <3>2. journal'.phase = "ROTATION_CONFIRM_PENDING" /\ ui'.at = "await" /\ ui'.j = journal'
      BY <3>1 DEF Shape, GoodUi, Journal, Send, GoWith
    <3> QED BY <1>3, <2>1, <3>2 DEF Withdrawing
  <2>3. CASE ui.j.phase # "ROTATION_PREPARE_PENDING"
    <3>1. ui.j.phase \in Sending
      BY <2>1 DEF Shape, GoodUi, Fits
    <3>2. journal' = journal /\ ui'.at \in {"fetch", "vaulted", "clear", "revJ"}
          /\ (ui'.at = "revJ" => ui.j.phase = "REVOKE_PENDING")
      <4>1. CASE ui.j.phase = "REDEEM_PENDING"
        BY <1>1, <1>8, <4>1 DEF Acknowledged
      <4>2. CASE ui.j.phase = "ACTIVATION_PENDING"
        BY <1>1, <1>8, <4>2 DEF Acknowledged
      <4>3. CASE ui.j.phase = "RECONSENT_PENDING"
        BY <1>1, <1>8, <4>3 DEF Acknowledged
      <4>4. CASE ui.j.phase = "ROTATION_CONFIRM_PENDING"
        BY <1>1, <1>8, <4>4 DEF Acknowledged
      <4>5. CASE ui.j.phase = "REVOKE_PENDING"
        BY <1>1, <1>8, <4>5 DEF Acknowledged
      <4> QED BY <2>3, <3>1, <4>1, <4>2, <4>3, <4>4, <4>5 DEF Sending, Mutations, PolicyPending
    <3> QED BY <1>4, <2>1, <3>2 DEF Withdrawing, AboutToPurge
  <2> QED BY <2>2, <2>3
<1>9. CASE RecoverFromConsentRequired
  <2>1. ui.at = "stale" /\ UNCHANGED <<prefs, rows>>
    BY <1>9 DEF RecoverFromConsentRequired
  <2>2. CASE journal.phase = "ACTIVATION_PENDING"
    <3>1. journal' = [journal EXCEPT !.phase = "ACTIVATION_POLICY_PENDING", !.req = NoId,
                        !.policy = 0, !.expected = 0, !.prop = NoId, !.consent = 0, !.op = NoId]
      BY <1>9, <2>2 DEF RecoverFromConsentRequired
    <3>2. journal'.phase # "REVOKE_PENDING"
      BY <3>1 DEF Shape, GoodJournal, Journal
    <3>3. ui'.at = "close" BY <1>9, <2>2 DEF RecoverFromConsentRequired, GoWith
    <3> QED BY <1>3, <2>1, <3>2, <3>3 DEF Withdrawing
  <2>3. CASE journal.phase \in {"RECONSENT_PENDING", "ROTATION_PREPARE_PENDING"}
    <3>1. journal' = Preflight(Bearer(journal)) /\ ui'.at = "close"
      BY <1>9, <2>3 DEF RecoverFromConsentRequired, GoWith
    <3>2. Preflight(Bearer(journal)).phase # "REVOKE_PENDING"
      BY DEF Preflight, Blank
    <3> QED BY <1>3, <2>1, <3>1, <3>2 DEF Withdrawing
  <2>4. CASE journal.phase \notin {"ACTIVATION_PENDING", "RECONSENT_PENDING", "ROTATION_PREPARE_PENDING"}
    BY <1>1, <1>4, <1>9, <2>1, <2>4 DEF RecoverFromConsentRequired, Withdrawing, AboutToPurge
  <2> QED BY <2>2, <2>3, <2>4
<1>10. CASE JournalPreflight
  <2>1. Preflight(ui.j.prop).phase # "REVOKE_PENDING"
    BY DEF Preflight, Blank
  <2> QED BY <1>1, <1>3, <1>10, <2>1 DEF JournalPreflight, Withdrawing
<1>11. CASE CloseGate
  <2>1. CASE ui.at = "close"
    <3>1. /\ UNCHANGED <<journal, rows>> /\ ui'.at = "purge"
          /\ prefs'.revoked = prefs.revoked /\ prefs'.pending = prefs.pending
      BY <1>0, <1>1, <1>11, <2>1 DEF CloseGate, Closed, Prefs
    <3>2. MarkedIsEmpty' /\ WorkerWiped' /\ Purged' = Purged
      BY <1>0, <3>1 DEF MarkedIsEmpty, WorkerWiped, Purged
    <3> QED BY <2>1, <3>1, <3>2
         DEF WithdrawnIsPurged, Withdrawing, PendingIsPurged, AboutToPurge, WipeExcludesWorker,
             PastPending, MarkedBeforePurge
  <2>2. CASE ui.at = "closeR"
    <3>1. /\ UNCHANGED <<journal, rows>> /\ ui'.at = "purgeR" /\ prefs'.revoked /\ prefs'.pending
      BY <1>0, <1>1, <1>11, <2>2 DEF CloseGate, ClosedForRevoke, Closed, Prefs
    <3> QED BY <1>0, <3>1
         DEF MarkedIsEmpty, WithdrawnIsPurged, Withdrawing, PendingIsPurged, AboutToPurge,
             WipeExcludesWorker, WorkerWiped, PastPending, MarkedBeforePurge
  <2> QED BY <1>11, <2>1, <2>2 DEF CloseGate
<1>12. CASE Purge
  <2>1. /\ journal' = journal /\ rows' = {} /\ worker.at = "off"
        /\ prefs'.revoked = prefs.revoked /\ prefs'.pending = prefs.pending
    BY <1>0, <1>12 DEF Purge, MutexFree, Prefs
  <2>2. \/ ui.at = "purge" /\ ui'.at \in {"refresh", "fetch"}
        \/ ui.at = "purgeR" /\ ui'.at \in {"revJ", "await"}
    <3>1. ui.at = "purge" /\ ui.then = "boot" => ui'.at = "refresh"
      BY <1>12 DEF Purge, Shape, GoodUi
    <3> QED BY <1>1, <1>2, <1>12, <3>1 DEF Purge
  <2>3. ui.at = "purgeR" => Purged'
    BY <1>0, <2>1 DEF MarkedBeforePurge, Purged
  <2>4. Purged => Purged'
    BY <1>0, <2>1 DEF Purged
  <2> QED BY <1>0, <2>1, <2>2, <2>3, <2>4
       DEF MarkedIsEmpty, WithdrawnIsPurged, Withdrawing, PendingIsPurged, AboutToPurge,
           WipeExcludesWorker, WorkerWiped, PastPending, MarkedBeforePurge
<1>13. CASE PolicyFetched
  <2>1. ui.at = "fetch" /\ UNCHANGED <<prefs, rows>>
    BY <1>13 DEF PolicyFetched
  <2>2. CASE Done
    <3>1. journal'.phase \in {"DISCLOSURE_READY", "RECONSENT_READY"} \/ journal' = journal
      <4>1. ui.j \in Journal /\ \A c : [Preflight(c) EXCEPT !.phase = "RECONSENT_READY", !.policy = policy].phase = "RECONSENT_READY"
        BY DEF Shape, GoodUi, Preflight, Blank
      <4>2. /\ [ui.j EXCEPT !.phase = "DISCLOSURE_READY", !.req = NoId, !.code = NoCode,
                            !.policy = policy].phase = "DISCLOSURE_READY"
            /\ [ui.j EXCEPT !.phase = "DISCLOSURE_READY", !.policy = policy].phase = "DISCLOSURE_READY"
            /\ [ui.j EXCEPT !.phase = "RECONSENT_READY", !.policy = policy].phase = "RECONSENT_READY"
        BY <4>1 DEF Journal
      <4> QED BY <1>13, <4>1, <4>2 DEF PolicyFetched
    <3>2. CASE journal' = journal
      BY <1>1, <1>4, <2>1, <2>2, <3>2 DEF Withdrawing, AboutToPurge
    <3>3. CASE journal'.phase \in {"DISCLOSURE_READY", "RECONSENT_READY"}
      BY <1>1, <1>3, <2>1, <2>2, <3>3 DEF Withdrawing
    <3> QED BY <3>1, <3>2, <3>3
  <2>3. CASE Goto("clear") /\ UNCHANGED journal
    BY <1>1, <1>4, <2>1, <2>3 DEF Withdrawing, AboutToPurge
  <2> QED BY <1>13, <2>2, <2>3 DEF PolicyFetched
<1>14. CASE ClearJournal
  <2>1. CASE ui.at = "clear"
    BY <1>0, <1>1, <1>3, <1>14, <2>1 DEF ClearJournal, Withdrawing
  <2>2. CASE ui.at = "revJ"
    <3>1. UNCHANGED <<prefs, rows>> /\ journal'.phase = "IDLE" /\ ui'.at = "revE"
      BY <1>0, <1>1, <1>14, <2>2 DEF ClearJournal
    <3>2. Purged'
      BY <1>0, <2>2, <3>1 DEF WithdrawnIsPurged, Withdrawing, Purged
    <3>3. MarkedIsEmpty' /\ WorkerWiped'
      BY <1>0, <3>1 DEF MarkedIsEmpty, WorkerWiped
    <3> QED BY <3>1, <3>2, <3>3
         DEF WithdrawnIsPurged, PendingIsPurged, WipeExcludesWorker, PastPending, MarkedBeforePurge
  <2> QED BY <1>14, <2>1, <2>2 DEF ClearJournal
<1>15. CASE WriteIdle
  <2>1. journal'.phase = "IDLE"
    BY <1>15, IdleGood DEF WriteIdle, Shape, GoodUi
  <2> QED BY <1>1, <1>3, <1>15, <2>1 DEF WriteIdle, Withdrawing
<1>16. CASE OpenGate
  <2>1. /\ ui.at = "open" /\ ui'.at = "refresh" /\ UNCHANGED <<journal, rows>> /\ ~prefs'.revoked
        /\ journal.phase # "REVOKE_PENDING"
    BY <1>1, <1>16 DEF OpenGate, Opened, PastPending
  <2> QED BY <1>0, <2>1
       DEF MarkedIsEmpty, WithdrawnIsPurged, Withdrawing, PendingIsPurged, AboutToPurge,
           WipeExcludesWorker, WorkerWiped, PastPending, MarkedBeforePurge
<1>17. CASE FinishRevocation
  <2>1. /\ ui'.at = "refresh" /\ UNCHANGED <<journal, rows>> /\ prefs'.revoked = prefs.revoked /\ Purged
    BY <1>0, <1>1, <1>17 DEF FinishRevocation, Prefs, WithdrawnIsPurged, Withdrawing
  <2>2. Purged'
    BY <1>0, <2>1 DEF Purged
  <2> QED BY <1>0, <2>1, <2>2
       DEF MarkedIsEmpty, WithdrawnIsPurged, Withdrawing, PendingIsPurged, Purged,
           WipeExcludesWorker, WorkerWiped, PastPending, MarkedBeforePurge
<1>18. CASE WipeVault
  <2>1. /\ ui'.at = "wipeJ" /\ UNCHANGED <<journal, rows, prefs>> /\ vault' = NoId /\ worker = NoWorker
    BY <1>0, <1>1, <1>18 DEF WipeVault, MutexFree
  <2>2. MarkedIsEmpty' /\ WorkerWiped'
    BY <1>0, <2>1 DEF MarkedIsEmpty, WorkerWiped
  <2> QED BY <1>0, <2>1, <2>2
       DEF WithdrawnIsPurged, Withdrawing, PendingIsPurged, AboutToPurge,
           WipeExcludesWorker, PastPending, MarkedBeforePurge
<1>19. CASE WipeJournal
  <2>1. /\ ui'.at = "wipeD" /\ UNCHANGED <<vault, rows, prefs>> /\ journal'.phase = "IDLE"
        /\ vault = NoId /\ worker.at = "off" /\ worker.cred = NoId
    BY <1>0, <1>1, <1>19 DEF WipeJournal, WipeExcludesWorker
  <2>2. MarkedIsEmpty' /\ WorkerWiped'
    BY <1>0, <2>1 DEF MarkedIsEmpty, WorkerWiped
  <2> QED BY <1>0, <2>1, <2>2
       DEF WithdrawnIsPurged, Withdrawing, PendingIsPurged,
           WipeExcludesWorker, PastPending, MarkedBeforePurge
<1>20. CASE WipeData
  <2>1. /\ ui'.at = "wiped" /\ UNCHANGED <<vault, journal>> /\ rows' = {}
        /\ vault = NoId /\ worker.at = "off" /\ worker.cred = NoId /\ journal.phase # "REVOKE_PENDING"
    BY <1>0, <1>1, <1>20 DEF WipeData, WipeExcludesWorker, PastPending
  <2> QED BY <1>0, <2>1
       DEF MarkedIsEmpty, WithdrawnIsPurged, Withdrawing, PendingIsPurged, WorkerWiped,
           WipeExcludesWorker, PastPending, MarkedBeforePurge
<1>21. CASE ForgetRevocation
  <2>1. /\ ui'.at \in {"refresh", "redeem"} /\ UNCHANGED <<vault, journal, rows>> /\ rows = {}
        /\ vault = NoId /\ worker.at \in {"off"} \cup WipeLabels /\ worker.cred = NoId
        /\ journal.phase # "REVOKE_PENDING"
    BY <1>0, <1>1, <1>21 DEF ForgetRevocation, WipeExcludesWorker, PastPending
  <2> QED BY <1>0, <2>1
       DEF MarkedIsEmpty, WithdrawnIsPurged, Withdrawing, PendingIsPurged, WorkerWiped,
           WipeExcludesWorker, PastPending, MarkedBeforePurge, WipeLabels
<1>22. CASE JournalRedeem
  <2>1. PICK n \in Fresh, d \in NewPhone :
          journal' = [Blank EXCEPT !.phase = "REDEEM_PENDING", !.req = n, !.boot = n,
                                   !.code = ui.j.code, !.dev = d]
    BY <1>22 DEF JournalRedeem
  <2>2. journal'.phase = "REDEEM_PENDING" /\ ui'.at = "await" /\ ui'.j = journal'
    BY <1>22, <2>1, BlankGood DEF GoodJournal, Journal, JournalRedeem, Send, GoWith
  <2> QED BY <1>3, <1>22, <2>2 DEF JournalRedeem, Withdrawing
<1> QED BY <1>5, <1>6, <1>7, <1>8, <1>9, <1>10, <1>11, <1>12, <1>13, <1>14, <1>15, <1>16, <1>17, <1>18,
     <1>19, <1>20, <1>21, <1>22 DEF UiSteps

LEMMA WorldErasure ==
  ASSUME Shape, EraseInv, Crash \/ ServerSteps \/ \E m \in wire : Serve(m) \/ ServeStale(m) \/ Lose(m)
  PROVE  EraseInv'
<1>1. CASE Crash
  <2>1. UNCHANGED <<journal, vault, prefs, rows>> /\ ui'.at = "off" /\ worker'.at = "off"
    BY <1>1 DEF Crash, NoStorageChange, WorkerRests, NoUi, NoWorker
  <2>2. MarkedIsEmpty' /\ WorkerWiped'
    BY <2>1 DEF EraseInv, MarkedIsEmpty, WorkerWiped
  <2> QED BY <2>1, <2>2
       DEF EraseInv, WithdrawnIsPurged, Withdrawing, PendingIsPurged, AboutToPurge,
           WipeExcludesWorker, PastPending, MarkedBeforePurge
<1>2. ASSUME NEW m, NEW at \in {"ok", "stale"}, Answered(m, at) PROVE EraseInv'
  <2>1. UNCHANGED <<journal, prefs, rows, vault, worker>>
    BY <1>2 DEF Answered
  <2>2. CASE ui' = ui
    BY <2>1, <2>2
    DEF EraseInv, MarkedIsEmpty, WithdrawnIsPurged, PendingIsPurged, Purged, WipeExcludesWorker,
        WorkerWiped, PastPending, MarkedBeforePurge
  <2>3. CASE ui.at = "await" /\ Goto(at)
    <3>1. ui'.at = at /\ ui'.j = ui.j
      BY <2>3 DEF Goto, Shape, GoodUi
    <3> QED BY <1>2, <2>1, <2>3, <3>1, QuietErasure DEF Withdrawing, AboutToPurge
  <2> QED BY <1>2, <2>2, <2>3 DEF Answered
<1>3. ASSUME NEW m \in wire, Serve(m) \/ ServeStale(m) PROVE EraseInv'
  BY <1>2, <1>3 DEF Serve, ServeStale
<1>4. ASSUME UNCHANGED phoneVars PROVE EraseInv'
  BY <1>4
  DEF phoneVars, EraseInv, MarkedIsEmpty, WithdrawnIsPurged, PendingIsPurged, Purged,
      WipeExcludesWorker, WorkerWiped, PastPending, MarkedBeforePurge
<1>5. CASE ServerSteps
  BY <1>4, <1>5 DEF ServerSteps
<1>6. ASSUME NEW m \in wire, Lose(m) PROVE EraseInv'
  BY <1>4, <1>6 DEF Lose
<1> QED BY <1>1, <1>3, <1>5, <1>6

LEMMA EraseInit == PhoneInit => EraseInv
<1> SUFFICES ASSUME PhoneInit PROVE EraseInv
  OBVIOUS
<1>1. /\ rows = {} /\ ~prefs.revoked /\ ui.at = "off" /\ worker.at = "off" /\ journal.phase = "IDLE"
  BY BlankGood DEF PhoneInit, NoUi, NoWorker
<1> QED BY <1>1 DEF EraseInv, MarkedIsEmpty, WithdrawnIsPurged, Withdrawing, PendingIsPurged,
                    WipeExcludesWorker, WorkerWiped, PastPending, MarkedBeforePurge

LEMMA EraseStep == Shape /\ EraseInv /\ [PhoneNext]_allVars => EraseInv'
<1> SUFFICES ASSUME Shape, EraseInv, [PhoneNext]_allVars PROVE EraseInv'
  OBVIOUS
<1>1. Shape'
  BY ShapeStep
<1>2. CASE UNCHANGED allVars
  BY <1>2
  DEF allVars, phoneVars, EraseInv, MarkedIsEmpty, WithdrawnIsPurged, PendingIsPurged, Purged,
      WipeExcludesWorker, WorkerWiped, PastPending, MarkedBeforePurge
<1>3. CASE Taps
  BY <1>1, <1>3, TapsErasure
<1>4. CASE UiSteps
  BY <1>1, <1>4, UiErasure
<1>5. CASE WorkerSteps
  BY <1>5, WorkerErasure
<1>6. CASE Crash \/ ServerSteps \/ \E m \in wire : Serve(m) \/ ServeStale(m) \/ Lose(m)
  BY <1>6, WorldErasure
<1> QED BY <1>2, <1>3, <1>4, <1>5, <1>6 DEF PhoneNext

\* A phone that calls itself revoked, and is not in the middle of an erasure, holds
\* no queued call: whichever of the view model and the worker erased it, however
\* their steps interleaved, and wherever the process died.
THEOREM ErasedWhenRevoked == PhoneSpec => []RevokedMeansPurged
<1>1. PhoneInit => Shape /\ EraseInv
  BY ShapeInit, EraseInit
<1>2. Shape /\ EraseInv /\ [PhoneNext]_allVars => (Shape /\ EraseInv)'
  BY ShapeStep, EraseStep
<1>3. EraseInv => RevokedMeansPurged
  BY DEF EraseInv, MarkedIsEmpty, RevokedMeansPurged
<1> QED BY <1>1, <1>2, <1>3, PTL DEF PhoneSpec

-------------------------------------------------------------------------------
(* Consent.  Every credential the phone holds anywhere was given to the same   *)
(* phone, a new enrolment starts with none, and a consent the journal keeps is *)
(* one the ledger holds for that phone.                                        *)

Creds(j) == {j.boot, j.prop, j.op}
Held == {vault, worker.cred} \cup Creds(journal) \cup Creds(ui.j)
Accepted(l, p, d) == \E i \in Ids : /\ l[i].op \in {"activate", "reconsent"}
                                    /\ l[i].policy = p /\ l[i].device = d

\* The journals that vouch for a consent given earlier.
Carries(j) == j.phase \in Rotation \cup {"IDLE"} /\ j.consent # 0

\* A proposed secret is unknown to the server only while its request is pending.
Proposals(l, j) ==
  /\ j.boot # NoId /\ j.phase # "REDEEM_PENDING" => Known(l, j.boot)
  /\ j.prop # NoId /\ j.phase \notin {"ACTIVATION_PENDING", "ROTATION_PREPARE_PENDING"} => Known(l, j.prop)

ReadyJournal == ui.at = "idle" /\ stage = "READY"
                  => journal.phase \in {"IDLE", "RECONSENT_POLICY_PENDING", "RECONSENT_READY"}
OnePhone(l) == \A a, b \in Held : Known(l, a) /\ Known(l, b) => l[a].device = l[b].device
Redeeming ==
  \A j, k \in {journal, ui.j} : j.phase = "REDEEM_PENDING" => Held \subseteq {NoId, j.boot} /\ ~Carries(k)
ConsentsAccepted(l) ==
  \A j \in {journal, ui.j}, c \in Held :
    Carries(j) /\ Known(l, c) => Accepted(l, j.consent, l[c].device)

GateInv == /\ Proposals(ledger, journal) /\ Proposals(ledger, ui.j) /\ ReadyJournal
           /\ OnePhone(ledger) /\ Redeeming /\ ConsentsAccepted(ledger)

LEMMA HeldFacts ==
  /\ vault \in Held /\ worker.cred \in Held
  /\ Creds(journal) \subseteq Held /\ Creds(ui.j) \subseteq Held
  /\ ~Known(ledger, NoId)
  /\ Creds(Blank) = {NoId} /\ \A c : Creds(Preflight(c)) = {NoId, c}
<1>1. Blank.boot = NoId /\ Blank.prop = NoId /\ Blank.op = NoId
  BY DEF Blank
<1>2. \A c : Preflight(c).boot = NoId /\ Preflight(c).prop = NoId /\ Preflight(c).op = c
  BY DEF Preflight, Blank
<1> QED BY <1>1, <1>2, ConstantsDistinct DEF Held, Creds, Known

\* A step of the phone that takes up no credential the server knows, and no consent.
LEMMA PhoneKeepsGate ==
  ASSUME GateInv, UNCHANGED ledger, ReadyJournal', Redeeming',
         Proposals(ledger, journal'), Proposals(ledger, ui'.j),
         \A c \in Held' : Known(ledger, c) => c \in Held,
         \A j \in {journal', ui'.j} : Carries(j) => \E k \in {journal, ui.j} : Carries(k) /\ k.consent = j.consent
  PROVE  GateInv'
<1>1. OnePhone(ledger)'
  BY DEF GateInv, OnePhone, Known
<1>2. ConsentsAccepted(ledger)'
  <2> SUFFICES ASSUME NEW j \in {journal', ui'.j}, NEW c \in Held', Carries(j), Known(ledger, c)
               PROVE  Accepted(ledger, j.consent, ledger[c].device)
    BY DEF ConsentsAccepted, Accepted, Carries, Known
  <2>1. PICK k \in {journal, ui.j} : Carries(k) /\ k.consent = j.consent
    OBVIOUS
  <2> QED BY <2>1 DEF GateInv, ConsentsAccepted
<1>3. Proposals(ledger, journal)' /\ Proposals(ledger, ui.j)'
  BY DEF Proposals, Known
<1> QED BY <1>1, <1>2, <1>3 DEF GateInv

\* The journals of such a step: old ones, or new ones with nothing new in them.
Inherits(j) ==
  \/ j \in {journal, ui.j}
  \/ /\ j.phase # "REDEEM_PENDING"
     /\ Creds(j) \subseteq Held \cup {NoId} /\ Proposals(ledger, j)
     /\ Carries(j) => \E k \in {journal, ui.j} : Carries(k) /\ k.consent = j.consent

LEMMA QuietGate ==
  ASSUME GateInv, UNCHANGED ledger, ReadyJournal',
         Inherits(journal'), Inherits(ui'.j),
         vault' \in Held \cup {NoId}, worker'.cred \in Held \cup {NoId}
  PROVE  GateInv'
<1>1. Held' \subseteq Held \cup {NoId}
  <2>1. Creds(journal') \subseteq Held \cup {NoId} /\ Creds(ui'.j) \subseteq Held \cup {NoId}
    BY HeldFacts DEF Inherits
  <2>2. Held' = {vault', worker'.cred} \cup Creds(journal') \cup Creds(ui'.j)
    BY DEF Held, Creds
  <2> QED BY <2>1, <2>2
<1>2. \A j \in {journal', ui'.j} : Carries(j) => \E k \in {journal, ui.j} : Carries(k) /\ k.consent = j.consent
  BY DEF Inherits
<1>3. Redeeming'
  <2> SUFFICES ASSUME NEW j \in {journal', ui'.j}, NEW k \in {journal', ui'.j}, j.phase = "REDEEM_PENDING"
               PROVE  Held' \subseteq {NoId, j.boot} /\ ~Carries(k)
    BY DEF Redeeming, Carries
  <2>1. j \in {journal, ui.j}
    BY DEF Inherits
  <2> QED BY <1>1, <1>2, <2>1 DEF GateInv, Redeeming
<1>4. Proposals(ledger, journal') /\ Proposals(ledger, ui'.j)
  BY DEF Inherits, GateInv
<1>5. \A c \in Held' : Known(ledger, c) => c \in Held
  BY <1>1, HeldFacts
<1> QED BY <1>2, <1>3, <1>4, <1>5, PhoneKeepsGate

LEMMA QuietInherits ==
  /\ Inherits(Blank) /\ Inherits(journal) /\ Inherits(ui.j)
  /\ \A c \in Held : Inherits(Preflight(c))
<1>1. /\ Blank.boot = NoId /\ Blank.prop = NoId /\ Blank.phase = "IDLE" /\ Blank.consent = 0
      /\ \A c : /\ Preflight(c).boot = NoId /\ Preflight(c).prop = NoId
                /\ Preflight(c).phase = "RECONSENT_POLICY_PENDING"
  BY DEF Preflight, Blank
<1> QED BY <1>1, HeldFacts DEF Inherits, Proposals, Carries, Rotation

\* A request under a fresh id.
LEMMA FreshGate ==
  ASSUME Shape, SentInv, GateInv, UNCHANGED ledger, NEW n \in Fresh,
         ui'.j = journal', ui'.at # "idle", vault' = vault, worker'.cred = worker.cred,
         journal'.phase # "REDEEM_PENDING", Creds(journal') \subseteq Held \cup {NoId, n},
         Proposals(ledger, journal'),
         Carries(journal') => Carries(journal) /\ journal.consent = journal'.consent
  PROVE  GateInv'
<1>1. ~Known(ledger, n)
  BY DEF Fresh, AnyOf, SentInv, LedgerIsFiled, IdsWereDrawn, AllSent, Known
<1>2. \A c \in Held' : Known(ledger, c) => c \in Held
  <2>1. Held' = {vault', worker'.cred} \cup Creds(journal')
    BY DEF Held, Creds
  <2> QED BY <1>1, <2>1, HeldFacts
<1>3. Redeeming' /\ ReadyJournal'
  BY DEF Redeeming, ReadyJournal
<1> QED BY <1>2, <1>3, PhoneKeepsGate

\* Field by field: what the journals written by the operations inherit.
LEMMA InheritsFields ==
  ASSUME NEW j, NEW k \in {journal, ui.j}, GateInv,
         j.boot \in {k.boot, NoId}, j.op \in Held \cup {NoId}, j.prop \in {k.prop, NoId},
         j.phase \notin {"REDEEM_PENDING", "IDLE"} \cup Rotation,
         k.phase # "REDEEM_PENDING" \/ j.boot = NoId \/ Known(ledger, j.boot),
         j.phase = "ACTIVATION_PENDING" \/ j.prop = NoId
           \/ k.phase \notin {"ACTIVATION_PENDING", "ROTATION_PREPARE_PENDING"}
  PROVE  Inherits(j)
<1>1. Proposals(ledger, k)
  BY DEF GateInv
<1>2. Creds(k) \subseteq Held
  BY HeldFacts
<1> QED BY <1>1, <1>2 DEF Inherits, Proposals, Carries, Creds

LEMMA TapsGate ==
  ASSUME Shape, Shape', SentInv, GateInv, Taps PROVE GateInv'
<1>0. UNCHANGED <<serverVars, vault, worker, stage>> /\ ui.at = "idle"
  BY DEF Taps, PairSame, PairFresh, Retry, Accept, Rotate, Withdraw, RetryRevocation,
         ResetRevokedDevice, Look, NoStorageChange, Idle
<1>1. UNCHANGED ledger /\ vault' = vault /\ worker'.cred = worker.cred
  BY <1>0 DEF serverVars, dbVars, credVars
<1>2. \A j : Send(j) => ui'.at = "await" /\ ui'.j = j
  BY DEF Send, GoWith
<1>3. journal \in Journal
  BY DEF Shape, GoodJournal
<1>4. ASSUME Inherits(journal'), Inherits(ui'.j), ui'.at # "idle" PROVE GateInv'
  BY <1>1, <1>4, HeldFacts, QuietGate DEF ReadyJournal
<1>5. CASE PairSame \/ RetryRevocation
  BY <1>2, <1>4, <1>5, QuietInherits DEF PairSame, RetryRevocation, NoStorageChange
<1>6. \A k \in Codes : Inherits([Blank EXCEPT !.code = k])
  <2> SUFFICES ASSUME NEW k \in Codes PROVE Inherits([Blank EXCEPT !.code = k])
    OBVIOUS
  <2> DEFINE b == [Blank EXCEPT !.code = k]
  <2>1. b.boot = NoId /\ b.prop = NoId /\ b.op = NoId /\ b.phase = "IDLE" /\ b.consent = 0
    BY DEF Blank
  <2> HIDE DEF b
  <2>2. Inherits(b)
    BY <2>1 DEF Inherits, Proposals, Carries, Creds
  <2> QED BY <2>2 DEF b
<1>7. ASSUME NEW k \in Codes, PairFresh(k) PROVE GateInv'
  <2>1. ui'.j = [Blank EXCEPT !.code = k] /\ ui'.at = "wipe" /\ journal' = journal
    BY <1>7 DEF PairFresh, NoStorageChange
  <2> QED BY <1>4, <1>6, <2>1, QuietInherits
<1>8. CASE Retry
  <2>1. ui'.at \in {"await", "close", "closeR"} /\ ui'.j = journal
    BY <1>8 DEF Retry, Resume, Send, GoWith
  <2> QED BY <1>4, <1>8, <2>1, QuietInherits DEF Retry, NoStorageChange
<1>9. CASE Accept
  <2>1. ASSUME journal.phase \in {"DISCLOSURE_READY", "RECONSENT_READY"}, NEW n \in Fresh, NEW j,
               j = [journal EXCEPT !.req = n, !.consent = journal.policy],
               journal' = IF journal.phase = "DISCLOSURE_READY"
                          THEN [j EXCEPT !.phase = "ACTIVATION_PENDING", !.prop = n]
                          ELSE [j EXCEPT !.phase = "RECONSENT_PENDING"],
               Send(journal')
        PROVE  GateInv'
    <3>1. j \in Journal /\ j.boot = journal.boot /\ j.op = journal.op /\ j.prop = journal.prop
      BY <1>3, <2>1 DEF Fresh, AnyOf, Journal
    <3>2. Send(journal') BY <2>1
    <3>3. CASE journal.phase = "DISCLOSURE_READY"
      <4>1. /\ journal'.phase = "ACTIVATION_PENDING" /\ journal'.boot = journal.boot
            /\ journal'.op = journal.op /\ journal'.prop = n
        BY <2>1, <3>1, <3>3 DEF Journal
      <4>2. Proposals(ledger, journal') /\ ~Carries(journal')
        BY <3>3, <4>1 DEF GateInv, Proposals, Carries, Rotation
      <4>3. Creds(journal') \subseteq Held \cup {NoId, n}
        BY <4>1, HeldFacts DEF Creds
      <4> QED BY <1>1, <1>2, <2>1, <3>2, <4>1, <4>2, <4>3, FreshGate
    <3>4. CASE journal.phase = "RECONSENT_READY"
      <4>1. /\ journal'.phase = "RECONSENT_PENDING" /\ journal'.boot = journal.boot
            /\ journal'.op = journal.op /\ journal'.prop = journal.prop
        BY <2>1, <3>1, <3>4 DEF Journal
      <4>2. Inherits(journal')
        BY <3>4, <4>1, HeldFacts, InheritsFields DEF Rotation, Creds
      <4> QED BY <1>2, <1>4, <3>2, <4>2
    <3> QED BY <2>1, <3>3, <3>4
  <2>2. CASE /\ journal.phase \in {"ACTIVATION_PENDING", "RECONSENT_PENDING"}
             /\ Send(journal) /\ UNCHANGED <<journal, drawn>>
    BY <1>2, <1>4, <2>2, QuietInherits
  <2> QED BY <1>9, <2>1, <2>2 DEF Accept
<1>10. CASE Rotate
  <2>1. PICK n \in Fresh : journal' = [journal EXCEPT !.phase = "ROTATION_PREPARE_PENDING",
                                                      !.req = n, !.prop = n, !.op = vault]
    BY <1>10 DEF Rotate
  <2>2. /\ journal'.phase = "ROTATION_PREPARE_PENDING" /\ journal'.prop = n /\ journal'.op = vault
        /\ journal'.boot = journal.boot /\ journal'.consent = journal.consent
        /\ journal.phase = "IDLE"
    BY <1>3, <1>10, <2>1 DEF Journal, Rotate
  <2>3. Proposals(ledger, journal') /\ (Carries(journal') => Carries(journal))
    BY <2>2 DEF GateInv, Proposals, Carries
  <2>4. Creds(journal') \subseteq Held \cup {NoId, n}
    BY <2>2, HeldFacts DEF Creds
  <2>5. Send(journal')
    BY <1>10 DEF Rotate
  <2>6. ui'.j = journal' /\ ui'.at # "idle"
    BY <1>2, <2>5
  <2>7. journal'.phase # "REDEEM_PENDING"
    BY <2>2
  <2> QED BY <1>1, <2>2, <2>3, <2>4, <2>6, <2>7, FreshGate
<1>11. CASE Withdraw
  <2>1. CASE journal.phase = "REVOKE_PENDING" /\ vault # NoId
    <3>1. ui'.at = "closeR" /\ ui'.j = journal /\ journal' = journal
      BY <1>11, <2>1 DEF Withdraw, GoWith
    <3> QED BY <1>4, <3>1, QuietInherits
  <2>2. CASE ~(journal.phase = "REVOKE_PENDING" /\ vault # NoId)
    <3>1. PICK n \in Fresh :
            /\ journal' = [(IF vault = NoId THEN Blank ELSE journal) EXCEPT
                             !.phase = "REVOKE_PENDING", !.req = n, !.op = vault]
            /\ GoWith("closeR", journal')
      BY <1>11, <2>2 DEF Withdraw
    <3>2. ui'.j = journal' /\ ui'.at = "closeR"
      BY <3>1 DEF GoWith
    <3>3. PICK b \in {Blank, journal} :
            journal' = [b EXCEPT !.phase = "REVOKE_PENDING", !.req = n, !.op = vault]
      BY <3>1
    <3>4. b \in Journal
      BY <1>3, BlankGood DEF GoodJournal
    <3>5. /\ journal'.phase = "REVOKE_PENDING" /\ journal'.op = vault
          /\ journal'.boot = b.boot /\ journal'.prop = b.prop
      BY <3>3, <3>4 DEF Journal
    <3>6. Blank.boot = NoId /\ Blank.prop = NoId
      BY DEF Blank
    <3>7. journal.phase \in {"IDLE", "RECONSENT_POLICY_PENDING", "RECONSENT_READY"}
      BY <1>11 DEF GateInv, ReadyJournal, Withdraw, Idle
    <3>8. Inherits(journal')
      BY <3>5, <3>6, <3>7, HeldFacts, InheritsFields DEF Rotation
    <3> QED BY <1>4, <3>2, <3>8
  <2> QED BY <2>1, <2>2
<1>12. CASE ResetRevokedDevice
  BY <1>4, <1>12, QuietInherits DEF ResetRevokedDevice, NoStorageChange
<1>13. CASE Look
  <2>1. ui'.j = Blank /\ ui'.at = "refresh"
    BY <1>13 DEF Look, Done, NoUi
  <2> QED BY <1>4, <1>13, <2>1, QuietInherits DEF Look, NoStorageChange
<1> QED BY <1>5, <1>7, <1>8, <1>9, <1>10, <1>11, <1>12, <1>13 DEF Taps

LEMMA AcknowledgedGate ==
  ASSUME Shape, Shape', SentInv, GateInv, Acknowledged PROVE GateInv'
<1>0. UNCHANGED ledger /\ worker' = worker
  BY DEF Acknowledged, serverVars, dbVars, credVars
<1>1. /\ ui.j.phase \in Sending /\ Sendable(ui.j) /\ GoodJournal(ui.j) /\ ui.j \in Journal
      /\ Made(ledger, ui.j) /\ ledger[ui.j.req] = Sent(ledger, ui.j)
  <2>1. ui.at = "ok"
    BY DEF Acknowledged
  <2>2. ui.j.phase \in Sending /\ (ui.j.phase = "REVOKE_PENDING" => ui.j.op \in Ids)
    BY <2>1 DEF Shape, GoodUi, Fits
  <2> QED BY <2>1, <2>2, SentFacts, ConstantsDistinct DEF AckLabels, Sendable, GoodJournal
<1>2. ASSUME NEW at, Goto(at), at # "idle", journal' = journal, vault' \in {vault, NoId, ui.j.prop}
      PROVE  GateInv'
  <2>1. ui'.j = ui.j /\ ui'.at = at
    BY <1>2 DEF Goto, Shape, GoodUi
  <2>2. vault' \in Held \cup {NoId} /\ worker'.cred \in Held \cup {NoId}
    BY <1>0, <1>2, HeldFacts DEF Creds
  <2>3. ReadyJournal'
    BY <1>2, <2>1 DEF ReadyJournal
  <2> QED BY <1>0, <1>2, <2>1, <2>2, <2>3, QuietInherits, QuietGate
<1>3. CASE ui.j.phase = "REDEEM_PENDING"
  BY <1>2, <1>3 DEF Acknowledged
<1>4. CASE ui.j.phase = "ACTIVATION_PENDING"
  BY <1>2, <1>4 DEF Acknowledged
<1>5. CASE ui.j.phase = "RECONSENT_PENDING"
  BY <1>2, <1>5 DEF Acknowledged
<1>6. CASE ui.j.phase = "ROTATION_CONFIRM_PENDING"
  BY <1>2, <1>6 DEF Acknowledged
<1>7. CASE ui.j.phase = "REVOKE_PENDING"
  BY <1>2, <1>7 DEF Acknowledged
<1>8. CASE ui.j.phase = "ROTATION_PREPARE_PENDING"
  <2>1. PICK n \in Fresh : /\ journal' = [ui.j EXCEPT !.phase = "ROTATION_CONFIRM_PENDING", !.req = n]
                           /\ Send(journal') /\ vault' = vault
    BY <1>8 DEF Acknowledged
  <2>2. /\ journal'.phase = "ROTATION_CONFIRM_PENDING" /\ journal'.boot = ui.j.boot
        /\ journal'.prop = ui.j.prop /\ journal'.op = ui.j.op /\ journal'.consent = ui.j.consent
    BY <1>1, <2>1 DEF Journal
  <2>3. Known(ledger, ui.j.prop)
    BY <1>1, <1>8, AckedIsKnown DEF GoodJournal, Resumable
  <2>4. Inherits(journal')
    <3>1. Creds(journal') \subseteq Held
      BY <2>2, HeldFacts DEF Creds
    <3>2. Proposals(ledger, journal')
      BY <1>8, <2>2, <2>3 DEF GateInv, Proposals
    <3>3. Carries(journal') => Carries(ui.j)
      BY <1>8, <2>2 DEF Carries, Rotation
    <3>4. journal'.phase # "REDEEM_PENDING"
      BY <2>2
    <3> QED BY <2>2, <3>1, <3>2, <3>3, <3>4 DEF Inherits
  <2>5. ui'.at = "await" /\ ui'.j = journal'
    BY <2>1 DEF Send, GoWith
  <2>6. Inherits(ui'.j) /\ ReadyJournal'
    BY <2>4, <2>5 DEF ReadyJournal
  <2> QED BY <1>0, <2>1, <2>4, <2>6, HeldFacts, QuietGate
<1> QED BY <1>1, <1>3, <1>4, <1>5, <1>6, <1>7, <1>8 DEF Sending, Mutations, PolicyPending

LEMMA PolicyFetchedGate ==
  ASSUME Shape, Shape', SentInv, GateInv, PolicyFetched PROVE GateInv'
<1>0. UNCHANGED <<ledger, worker, vault>>
  BY DEF PolicyFetched, serverVars, dbVars, credVars
<1>1. /\ GoodJournal(ui.j) /\ ui.j \in Journal /\ Made(ledger, ui.j) /\ ui.at = "fetch"
      /\ ui.j.phase \in PolicyPending \cup {"ACTIVATION_PENDING", "REDEEM_PENDING"}
  BY SentFacts DEF Shape, GoodUi, GoodJournal, Fits, PolicyFetched
<1>2. ASSUME Done, Inherits(journal') PROVE GateInv'
  <2>1. ui'.j = Blank /\ ui'.at = "refresh"
    BY <1>2 DEF Done, NoUi
  <2>2. ReadyJournal'
    BY <2>1 DEF ReadyJournal
  <2> QED BY <1>0, <1>2, <2>1, <2>2, HeldFacts, QuietInherits, QuietGate
\* The policy is filled in.
<1>3. ASSUME Done, journal'.phase \in {"DISCLOSURE_READY", "RECONSENT_READY"},
             journal'.boot = ui.j.boot, journal'.prop = ui.j.prop, journal'.op = ui.j.op,
             ui.j.phase # "REDEEM_PENDING" \/ Known(ledger, ui.j.boot),
             ui.j.phase # "ACTIVATION_PENDING"
      PROVE  GateInv'
  <2>1. ui.j.phase \notin {"ACTIVATION_PENDING", "ROTATION_PREPARE_PENDING"}
    BY <1>1, <1>3 DEF PolicyPending
  <2>2. Inherits(journal')
    BY <1>3, <2>1, HeldFacts, InheritsFields DEF Creds, Rotation
  <2> QED BY <1>2, <1>3, <2>2
<1>4. CASE ui.j.phase = "REDEEM_PENDING"
  <2>1. /\ journal' = [ui.j EXCEPT !.phase = "DISCLOSURE_READY", !.req = NoId,
                         !.code = NoCode, !.policy = policy]
        /\ Done
    BY <1>4 DEF PolicyFetched
  <2>2. Known(ledger, ui.j.boot)
    BY <1>1, <1>4, SentFacts, AckedIsKnown
    DEF GoodJournal, Resumable, AckLabels, Sendable, Sending, Mutations, PolicyPending
  <2>3. /\ journal'.phase = "DISCLOSURE_READY" /\ journal'.boot = ui.j.boot
        /\ journal'.op = ui.j.op /\ journal'.prop = ui.j.prop
    BY <1>1, <2>1 DEF Journal
  <2> QED BY <1>3, <1>4, <2>1, <2>2, <2>3
<1>5. CASE ui.j.phase = "ACTIVATION_POLICY_PENDING"
  <2>1. journal' = [ui.j EXCEPT !.phase = "DISCLOSURE_READY", !.policy = policy] /\ Done
    BY <1>5 DEF PolicyFetched
  <2>2. /\ journal'.phase = "DISCLOSURE_READY" /\ journal'.boot = ui.j.boot
        /\ journal'.op = ui.j.op /\ journal'.prop = ui.j.prop
    BY <1>1, <2>1 DEF Journal
  <2> QED BY <1>3, <1>5, <2>1, <2>2
<1>6. CASE ui.j.phase = "RECONSENT_POLICY_PENDING"
  <2>1. journal' = [ui.j EXCEPT !.phase = "RECONSENT_READY", !.policy = policy] /\ Done
    BY <1>6 DEF PolicyFetched
  <2>2. /\ journal'.phase = "RECONSENT_READY" /\ journal'.boot = ui.j.boot
        /\ journal'.op = ui.j.op /\ journal'.prop = ui.j.prop
    BY <1>1, <2>1 DEF Journal
  <2> QED BY <1>3, <1>6, <2>1, <2>2
<1>7. CASE ui.j.phase = "ACTIVATION_PENDING" /\ ui.j.consent # policy
  <2>1. /\ journal' = [Preflight(ui.j.prop) EXCEPT !.phase = "RECONSENT_READY", !.policy = policy]
        /\ Done
    BY <1>7 DEF PolicyFetched
  <2>2. ui.j.prop \in Ids
    BY <1>1, <1>7 DEF GoodJournal, Resumable
  <2>3. /\ Preflight(ui.j.prop) \in Journal /\ Preflight(ui.j.prop).boot = NoId
        /\ Preflight(ui.j.prop).prop = NoId /\ Preflight(ui.j.prop).op = ui.j.prop
    BY <2>2, PreflightGood, Zero DEF GoodJournal, Preflight, Blank
  <2>4. /\ journal'.phase = "RECONSENT_READY" /\ journal'.boot = NoId
        /\ journal'.prop = NoId /\ journal'.op = ui.j.prop
    BY <2>1, <2>3 DEF Journal
  <2>5. Inherits(journal')
    BY <2>4, HeldFacts, InheritsFields DEF Creds, Rotation
  <2> QED BY <1>2, <2>1, <2>5
<1>8. CASE ui.j.phase = "ACTIVATION_PENDING" /\ ui.j.consent = policy
  <2>1. Goto("clear") /\ journal' = journal
    BY <1>8 DEF PolicyFetched
  <2>2. ui'.j = ui.j /\ ui'.at = "clear"
    BY <2>1 DEF Goto, Shape, GoodUi
  <2>3. ReadyJournal'
    BY <2>2 DEF ReadyJournal
  <2> QED BY <1>0, <2>1, <2>2, <2>3, HeldFacts, QuietInherits, QuietGate
<1> QED BY <1>1, <1>4, <1>5, <1>6, <1>7, <1>8 DEF PolicyPending

\* The acknowledged consent becomes the one the phone keeps.
LEMMA WriteIdleGate ==
  ASSUME Shape, Shape', SentInv, GateInv, WriteIdle PROVE GateInv'
<1>0. UNCHANGED <<ledger, worker, vault>>
  BY DEF WriteIdle, serverVars, dbVars, credVars
<1>1. /\ GoodJournal(ui.j) /\ ui.j \in Journal /\ Made(ledger, ui.j) /\ ui.at = "idling"
      /\ ui.j.phase \in {"RECONSENT_PENDING", "ROTATION_CONFIRM_PENDING", "ACTIVATION_PENDING"}
      /\ ledger[ui.j.req] = Sent(ledger, ui.j) /\ ui.j.req \in Ids
  <2>1. ui.at = "idling"
    BY DEF WriteIdle
  <2>2. ui.j.phase \in {"RECONSENT_PENDING", "ROTATION_CONFIRM_PENDING", "ACTIVATION_PENDING"}
    BY <2>1 DEF Shape, GoodUi, Fits
  <2> QED BY <2>1, <2>2, SentFacts
       DEF AckLabels, Sending, Mutations, PolicyPending, GoodJournal, Resumable, Rotation
<1>2. /\ journal' = ToIdle(ui.j) /\ journal'.phase = "IDLE" /\ journal'.consent = ui.j.consent
      /\ journal'.boot = NoId /\ journal'.prop = NoId /\ journal'.op = NoId
  BY <1>1 DEF WriteIdle, ToIdle, Blank
<1>3. \/ ui'.j = Blank /\ ui'.at = "refresh"
      \/ ui'.j = ui.j /\ ui'.at = "open"
  BY DEF WriteIdle, Done, NoUi, Goto, Shape, GoodUi
<1>4. Held' \subseteq Held \cup {NoId}
  <2>1. Creds(journal') \subseteq {NoId} /\ Creds(ui'.j) \subseteq Held \cup {NoId}
    BY <1>2, <1>3, HeldFacts DEF Creds
  <2>2. Held' = {vault', worker'.cred} \cup Creds(journal') \cup Creds(ui'.j)
    BY DEF Held, Creds
  <2> QED BY <1>0, <2>1, <2>2, HeldFacts
<1>5. ASSUME ui.j.consent # 0, NEW c \in Held, Known(ledger, c)
      PROVE  Accepted(ledger, ui.j.consent, ledger[c].device)
  <2>1. ASSUME NEW op \in {"activate", "reconsent"}, NEW b \in Creds(ui.j), Known(ledger, b),
               Sent(ledger, ui.j) = SentBy(ledger, op, ui.j.req, b, ui.j.consent)
        PROVE  Accepted(ledger, ui.j.consent, ledger[c].device)
    <3>1. /\ ledger[ui.j.req].op = op /\ ledger[ui.j.req].policy = ui.j.consent
          /\ ledger[ui.j.req].device = ledger[b].device
      BY <1>1, <2>1 DEF SentBy
    <3>2. ledger[b].device = ledger[c].device
      BY <1>5, <2>1, HeldFacts DEF GateInv, OnePhone
    <3> QED BY <1>1, <3>1, <3>2 DEF Accepted
  <2>2. CASE ui.j.phase = "ACTIVATION_PENDING"
    <3>1. Known(ledger, ui.j.boot) /\ ui.j.boot \in Creds(ui.j)
      BY <1>1, <2>2 DEF Made, NewSession, Creds
    <3>2. Sent(ledger, ui.j) = SentBy(ledger, "activate", ui.j.req, ui.j.boot, ui.j.consent)
      BY <2>2 DEF Sent
    <3> QED BY <2>1, <3>1, <3>2
  <2>3. CASE ui.j.phase = "RECONSENT_PENDING"
    <3>1. Known(ledger, ui.j.op) /\ ui.j.op \in Creds(ui.j)
      BY <1>1, <2>3, ConstantsDistinct DEF Made, GoodJournal, Resumable, ConsentPhases, Creds
    <3>2. Sent(ledger, ui.j) = SentBy(ledger, "reconsent", ui.j.req, ui.j.op, ui.j.consent)
      BY <2>3 DEF Sent
    <3> QED BY <2>1, <3>1, <3>2
  <2>4. CASE ui.j.phase = "ROTATION_CONFIRM_PENDING"
    BY <1>5, <2>4 DEF GateInv, ConsentsAccepted, Carries, Rotation
  <2> QED BY <1>1, <2>2, <2>3, <2>4
<1>6. ConsentsAccepted(ledger)'
  <2> SUFFICES ASSUME NEW j \in {journal', ui'.j}, NEW c \in Held', Carries(j), Known(ledger, c)
               PROVE  Accepted(ledger, j.consent, ledger[c].device)
    BY <1>0 DEF ConsentsAccepted, Accepted, Carries, Known
  <2>1. j.consent = ui.j.consent /\ j.consent # 0
    BY <1>2, <1>3 DEF Carries, Blank
  <2>2. c \in Held
    BY <1>4, HeldFacts
  <2> QED BY <1>5, <2>1, <2>2
<1>7. OnePhone(ledger)'
  BY <1>0, <1>4, HeldFacts DEF GateInv, OnePhone, Known
<1>8. Proposals(ledger, journal)' /\ Proposals(ledger, ui.j)'
  BY <1>0, <1>2, <1>3 DEF GateInv, Proposals, Known, Blank
<1>9. Redeeming' /\ ReadyJournal'
  BY <1>1, <1>2, <1>3, BlankGood DEF Redeeming, ReadyJournal
<1> QED BY <1>6, <1>7, <1>8, <1>9 DEF GateInv

\* A new enrolment begins with nothing held.
LEMMA JournalRedeemGate ==
  ASSUME Shape, Shape', SentInv, EraseInv, GateInv, JournalRedeem PROVE GateInv'
<1>1. PICK n \in Fresh, d \in NewPhone :
        journal' = [Blank EXCEPT !.phase = "REDEEM_PENDING", !.req = n, !.boot = n,
                                 !.code = ui.j.code, !.dev = d]
  BY DEF JournalRedeem
<1>2. /\ journal'.phase = "REDEEM_PENDING" /\ journal'.boot = n /\ journal'.op = NoId
      /\ journal'.prop = NoId
  <2>1. Blank \in Journal /\ Blank.op = NoId /\ Blank.prop = NoId
    BY BlankGood DEF GoodJournal, Blank
  <2> QED BY <1>1, <2>1 DEF Journal
<1>3. UNCHANGED ledger /\ vault' = NoId /\ worker'.cred = NoId
  BY DEF JournalRedeem, serverVars, dbVars, credVars, EraseInv, WipeExcludesWorker
<1>4. ui'.j = journal' /\ ui'.at = "await"
  BY DEF JournalRedeem, Send, GoWith
<1>5. Held' = {NoId, n}
  <2>1. Held' = {vault', worker'.cred} \cup Creds(journal') \cup Creds(ui'.j)
    BY DEF Held, Creds
  <2> QED BY <1>2, <1>3, <1>4, <2>1 DEF Creds
<1>6. ~Known(ledger, n)
  BY DEF Fresh, AnyOf, SentInv, LedgerIsFiled, IdsWereDrawn, AllSent, Known
<1>7. ~Carries(journal')
  BY <1>2 DEF Carries, Rotation
<1>8. Redeeming' /\ ReadyJournal'
  BY <1>2, <1>4, <1>5, <1>7 DEF Redeeming, ReadyJournal, Carries
<1>9. Proposals(ledger, journal') /\ Proposals(ledger, ui'.j)
  BY <1>2, <1>4 DEF Proposals
<1> QED BY <1>3, <1>4, <1>5, <1>6, <1>7, <1>8, <1>9, HeldFacts, PhoneKeepsGate

LEMMA ReadyIsIdle == StageNow' = "READY" => journal'.phase = "IDLE"
<1> SUFFICES ASSUME journal'.phase # "IDLE" PROVE StageNow' # "READY"
  OBVIOUS
<1>1. CASE prefs'.revoked
  BY <1>1 DEF StageNow
<1>2. CASE ~prefs'.revoked
  BY <1>2 DEF StageNow
<1> QED BY <1>1, <1>2

LEMMA UiGate ==
  ASSUME Shape, Shape', SentInv, EraseInv, GateInv, UiSteps PROVE GateInv'
<1>0. UNCHANGED <<serverVars, worker>>
  BY DEF UiSteps, Launch, Refresh, GiveUp, Acknowledged, RecoverFromConsentRequired, JournalPreflight,
         CloseGate, Purge, PolicyFetched, ClearJournal, WriteIdle, OpenGate, FinishRevocation,
         WipeVault, WipeJournal, WipeData, ForgetRevocation, JournalRedeem, NoStorageChange
<1>1. UNCHANGED ledger /\ worker'.cred = worker.cred
  BY <1>0 DEF serverVars, dbVars, credVars
<1>2. \A at : Goto(at) => ui'.j = ui.j /\ ui'.at = at
  BY DEF Goto, Shape, GoodUi
<1>3. Done => ui'.j = Blank /\ ui'.at = "refresh"
  BY DEF Done, NoUi
<1>4. \A j : Send(j) => ui'.at = "await" /\ ui'.j = j
  BY DEF Send, GoWith
<1>5. ASSUME vault' \in {vault, NoId}, Inherits(journal'), Inherits(ui'.j), ui'.at # "idle"
      PROVE  GateInv'
  BY <1>1, <1>5, HeldFacts, QuietGate DEF ReadyJournal
\* The journal is kept or left blank, the operation keeps its own or ends.
<1>6. ASSUME vault' \in {vault, NoId}, journal' \in {journal, Blank}, ui'.j \in {ui.j, Blank, journal},
             ui'.at # "idle"
      PROVE  GateInv'
  BY <1>5, <1>6, QuietInherits
<1>7. CASE Launch
  <2>0. vault' = vault BY <1>7 DEF Launch
  <2>1. CASE RequiresPurge
    BY <1>6, <1>7, <2>0, <2>1 DEF Launch
  <2>2. CASE ~RequiresPurge /\ vault # NoId /\ journal.phase = "IDLE" /\ ~LocalConsent
    <3>1. journal' = Preflight(vault) /\ ui'.j = Preflight(vault) /\ ui'.at = "close"
      BY <1>7, <2>2 DEF Launch
    <3> QED BY <1>5, <2>0, <3>1, HeldFacts, QuietInherits
  <2>3. CASE ~RequiresPurge /\ ~(vault # NoId /\ journal.phase = "IDLE" /\ ~LocalConsent)
    BY <1>6, <1>7, <2>0, <2>3 DEF Launch
  <2> QED BY <2>1, <2>2, <2>3
<1>8. CASE Refresh
  <2>0. UNCHANGED <<vault, journal>> BY <1>8 DEF Refresh
  <2>1. CASE ui.then = "resume" /\ ui.j.phase \in Mutations \cup PolicyPending
    <3>1. ui'.at \in {"await", "close", "closeR"} /\ ui'.j = ui.j
      BY <1>4, <1>8, <2>1 DEF Refresh, Resume, GoWith
    <3> QED BY <1>6, <2>0, <3>1
  <2>2. CASE ~(ui.then = "resume" /\ ui.j.phase \in Mutations \cup PolicyPending)
    <3>1. ui'.j = Blank
      BY <1>8, <2>2 DEF Refresh, NoUi
    <3>2. ReadyJournal'
      BY <1>8, ReadyIsIdle DEF Refresh, ReadyJournal
    <3> QED BY <1>1, <2>0, <3>1, <3>2, HeldFacts, QuietInherits, QuietGate
  <2> QED BY <2>1, <2>2
<1>9. CASE GiveUp \/ OpenGate \/ FinishRevocation \/ ForgetRevocation
  BY <1>2, <1>3, <1>6, <1>9 DEF GiveUp, OpenGate, FinishRevocation, ForgetRevocation, NoStorageChange
<1>10. CASE RecoverFromConsentRequired
  <2>0. vault' = vault BY <1>10 DEF RecoverFromConsentRequired
  <2>1. CASE journal.phase = "ACTIVATION_PENDING"
    <3>1. /\ journal' = [journal EXCEPT !.phase = "ACTIVATION_POLICY_PENDING", !.req = NoId,
                           !.policy = 0, !.expected = 0, !.prop = NoId, !.consent = 0, !.op = NoId]
          /\ GoWith("close", journal')
      BY <1>10, <2>1 DEF RecoverFromConsentRequired
    <3>2. /\ journal'.phase = "ACTIVATION_POLICY_PENDING" /\ journal'.boot = journal.boot
          /\ journal'.op = NoId /\ journal'.prop = NoId
      BY <3>1 DEF Shape, GoodJournal, Journal
    <3>3. Inherits(journal')
      BY <2>1, <3>2, InheritsFields DEF Rotation
    <3>4. ui'.j = journal' /\ ui'.at = "close"
      BY <3>1 DEF GoWith
    <3> QED BY <1>5, <2>0, <3>3, <3>4
  <2>2. CASE journal.phase \in {"RECONSENT_PENDING", "ROTATION_PREPARE_PENDING"}
    <3>1. journal' = Preflight(Bearer(journal)) /\ ui'.j = journal' /\ ui'.at = "close"
      BY <1>10, <2>2 DEF RecoverFromConsentRequired, GoWith
    <3>2. Bearer(journal) \in Held
      BY HeldFacts DEF Bearer, Creds
    <3> QED BY <1>5, <2>0, <3>1, <3>2, QuietInherits
  <2>3. CASE journal.phase \notin {"ACTIVATION_PENDING", "RECONSENT_PENDING", "ROTATION_PREPARE_PENDING"}
    BY <1>3, <1>6, <1>10, <2>0, <2>3 DEF RecoverFromConsentRequired
  <2> QED BY <2>1, <2>2, <2>3
<1>11. CASE JournalPreflight
  <2>1. /\ journal' = Preflight(ui.j.prop) /\ ui'.j = ui.j /\ ui'.at = "close" /\ vault' = vault
    BY <1>2, <1>11 DEF JournalPreflight
  <2>2. ui.j.prop \in Held
    BY HeldFacts DEF Creds
  <2> QED BY <1>5, <2>1, <2>2, QuietInherits
<1>12. CASE CloseGate \/ ClearJournal
  BY <1>2, <1>6, <1>12 DEF CloseGate, ClearJournal
<1>13. CASE Purge
  <2>1. ui'.j = ui.j /\ ui'.at # "idle"
    <3>1. ui.at = "purge" /\ ui.then = "boot" => ui'.j = ui.j /\ ui'.at = "refresh"
      BY <1>13 DEF Purge, Shape, GoodUi
    <3> QED BY <1>2, <1>4, <1>13, <3>1 DEF Purge
  <2> QED BY <1>6, <1>13, <2>1 DEF Purge
<1>14. CASE WipeVault \/ WipeJournal \/ WipeData
  BY <1>2, <1>6, <1>14 DEF WipeVault, WipeJournal, WipeData
<1> QED BY <1>7, <1>8, <1>9, <1>10, <1>11, <1>12, <1>13, <1>14, AcknowledgedGate, PolicyFetchedGate,
     WriteIdleGate, JournalRedeemGate DEF UiSteps

LEMMA WorkerGate ==
  ASSUME Shape, GateInv, WorkerSteps PROVE GateInv'
<1>1. UNCHANGED <<ui, stage>> /\ ledger' = ledger
  BY DEF WorkerSteps, WorkerStarts, Heartbeat, Scan, Enqueue, Upload, WorkerStops, DemandConsent,
         WorkerCloses, WorkerFetchesPolicy, WorkerErases, WorkerOnly, serverVars, dbVars, credVars
<1>2. Inherits(journal') /\ Inherits(ui'.j)
  <2>1. CASE journal' \in {journal, Blank}
    BY <1>1, <2>1, QuietInherits
  <2>2. ASSUME journal'.op = worker.cred, journal'.boot = NoId, journal'.prop = NoId,
               journal'.phase \in {"RECONSENT_POLICY_PENDING", "RECONSENT_READY"}
        PROVE  Inherits(journal')
    BY <2>2, HeldFacts, InheritsFields DEF Rotation
  <2> QED BY <1>1, <2>1, <2>2, QuietInherits, WorkerWrites
<1>3. ReadyJournal'
  BY <1>1, WorkerWrites, BlankGood DEF GateInv, ReadyJournal
<1> QED BY <1>1, <1>2, <1>3, WorkerWrites, HeldFacts, QuietGate

\* A credential becomes known to the server by the request that proposed it: it is
\* the phone's first one, or of the phone of another one the phone holds.
LEMMA Newcomer ==
  ASSUME Shape, SentInv, GateInv, NEW m \in wire, m.req \in Held, m.req \in Ids, ~Known(ledger, m.req)
  PROVE  \/ \E j \in {journal, ui.j} : j.phase = "REDEEM_PENDING" /\ m.req = j.boot
         \/ \E b \in Held : Known(ledger, b) /\ m.device = ledger[b].device
<1>1. PICK j \in {journal, ui.j} :
        \/ j.phase = "REDEEM_PENDING" /\ m.req = j.boot
        \/ j.phase \in {"ACTIVATION_PENDING", "ROTATION_PREPARE_PENDING"} /\ m.req = j.prop
  <2>1. m.req \notin {vault, worker.cred, journal.op, ui.j.op}
    BY SentFacts, ConstantsDistinct DEF Made
  <2>2. \/ m.req \in {journal.boot, journal.prop}
        \/ m.req \in {ui.j.boot, ui.j.prop}
    BY <2>1 DEF Held, Creds
  <2> QED BY <2>2, ConstantsDistinct DEF GateInv, Proposals
<1>2. CASE j.phase = "REDEEM_PENDING" /\ m.req = j.boot
  BY <1>2
<1>3. CASE j.phase \in {"ACTIVATION_PENDING", "ROTATION_PREPARE_PENDING"} /\ m.req = j.prop
  <2>1. /\ GoodJournal(j) /\ Made(ledger, j) /\ Sendable(j) /\ m.req = j.req
        /\ Sends(ledger, j) \subseteq AllSent(ledger) /\ Creds(j) \subseteq Held
    BY <1>3, SentFacts, HeldFacts
    DEF GoodJournal, Resumable, Sendable, Sending, Mutations, PolicyPending
  <2>2. Sent(ledger, j).req = j.req
    BY <2>1, SentFields
  <2>3. m = Sent(ledger, j)
    BY <2>1, <2>2 DEF SentInv, OneRequestPerId, AllSent, Sends
  <2>4. CASE j.phase = "ACTIVATION_PENDING"
    <3>1. m.device = ledger[j.boot].device
      BY <2>3, <2>4 DEF Sent, SentBy
    <3>2. Known(ledger, j.boot) /\ j.boot \in Held
      BY <2>1, <2>4 DEF Made, NewSession, Creds
    <3> QED BY <3>1, <3>2
  <2>5. CASE j.phase = "ROTATION_PREPARE_PENDING"
    <3>1. m.device = ledger[j.op].device
      BY <2>3, <2>5 DEF Sent, SentBy
    <3>2. Known(ledger, j.op) /\ j.op \in Held
      BY <2>1, <2>5, ConstantsDistinct DEF Made, GoodJournal, Resumable, Rotation, Creds
    <3> QED BY <3>1, <3>2
  <2> QED BY <1>3, <2>4, <2>5
<1> QED BY <1>1, <1>2, <1>3

LEMMA ServeGate ==
  ASSUME Shape, Shape', SentInv, GateInv, NEW m \in wire, Serve(m) PROVE GateInv'
<1>1. GoodCall(m) /\ m.req \in Ids /\ m.op # "none"
  BY CallFields DEF Shape, GoodCall, Ops, AuthOps
<1>2. \/ ledger' = ledger /\ ledger[m.req] = m
      \/ ledger[m.req].op = "none" /\ ledger' = [ledger EXCEPT ![m.req] = m]
  BY <1>1, ServeKeeps DEF Shape
<1>3. ledger'[m.req] = m /\ \A i \in Ids \ {m.req} : ledger'[i] = ledger[i]
  BY <1>1, <1>2 DEF Shape, Server, TypeOK
<1>4. Grows(ledger, ledger')
  BY ServeSent
<1>5. UNCHANGED <<journal, vault, worker, stage>> /\ ui'.j = ui.j /\ (ui' = ui \/ ui'.at = "ok")
  BY DEF Serve, Answered, Goto, Shape, GoodUi
<1>6. Held' = Held
  BY <1>5 DEF Held, Creds
<1>7. \A c : Known(ledger, c) => Known(ledger', c) /\ ledger'[c] = ledger[c]
  BY <1>4 DEF Known, Grows
<1>8. \A c \in Held : Known(ledger', c) => Known(ledger, c) \/ (c = m.req /\ ~Known(ledger, c))
  BY <1>3 DEF Known
<1>9. \A p, d : Accepted(ledger, p, d) => Accepted(ledger', p, d)
  BY <1>4 DEF Accepted, Grows
\* Unless the newcomer is the first credential, it is as good as an older one.
<1>10. ASSUME NEW c \in Held, c = m.req, ~Known(ledger, c)
       PROVE  \/ /\ \A b \in Held : Known(ledger', b) => b = c
                 /\ \A j \in {journal, ui.j} : ~Carries(j)
              \/ \E b \in Held : Known(ledger, b) /\ ledger'[c].device = ledger[b].device
  <2>1. CASE \E j \in {journal, ui.j} : j.phase = "REDEEM_PENDING" /\ c = j.boot
    <3>1. Held \subseteq {NoId, c} /\ \A j \in {journal, ui.j} : ~Carries(j)
      BY <2>1 DEF GateInv, Redeeming
    <3> QED BY <3>1, ConstantsDistinct DEF Known
  <2>2. CASE \E b \in Held : Known(ledger, b) /\ m.device = ledger[b].device
    BY <1>3, <1>10, <2>2
  <2> QED BY <1>1, <1>10, <2>1, <2>2, Newcomer
<1>11. OnePhone(ledger)'
  <2> SUFFICES ASSUME NEW a \in Held, NEW b \in Held, Known(ledger', a), Known(ledger', b)
               PROVE  ledger'[a].device = ledger'[b].device
    BY <1>6 DEF OnePhone, Known
  <2>1. \A x, y \in Held : Known(ledger, x) /\ Known(ledger, y) => ledger[x].device = ledger[y].device
    BY DEF GateInv, OnePhone
  <2> QED BY <1>7, <1>8, <1>10, <2>1
<1>12. ConsentsAccepted(ledger)'
  <2> SUFFICES ASSUME NEW j \in {journal, ui.j}, NEW c \in Held, Carries(j), Known(ledger', c)
               PROVE  Accepted(ledger', j.consent, ledger'[c].device)
    BY <1>5, <1>6 DEF ConsentsAccepted, Accepted, Carries, Known
  <2>1. \A b \in Held : Known(ledger, b) => Accepted(ledger', j.consent, ledger[b].device)
    BY <1>9 DEF GateInv, ConsentsAccepted
  <2> QED BY <1>7, <1>8, <1>10, <2>1
<1>13. Proposals(ledger, journal)' /\ Proposals(ledger, ui.j)'
  BY <1>5, <1>7 DEF GateInv, Proposals, Known
<1>14. Redeeming' /\ ReadyJournal'
  BY <1>5, <1>6 DEF GateInv, Redeeming, ReadyJournal, Carries
<1> QED BY <1>11, <1>12, <1>13, <1>14 DEF GateInv

LEMMA WorldGate ==
  ASSUME Shape, Shape', SentInv, GateInv,
         Crash \/ ServerSteps \/ \E m \in wire : Serve(m) \/ ServeStale(m) \/ Lose(m)
  PROVE  GateInv'
<1>1. ASSUME UNCHANGED <<ledger, journal, vault, stage>>, worker'.cred \in {worker.cred, NoId},
             ui' = ui \/ (ui'.j \in {ui.j, Blank} /\ ui'.at # "idle")
      PROVE  GateInv'
  <2>1. ReadyJournal'
    BY <1>1 DEF GateInv, ReadyJournal
  <2> QED BY <1>1, <2>1, HeldFacts, QuietInherits, QuietGate
<1>2. CASE Crash
  <2>1. /\ UNCHANGED <<ledger, journal, vault, stage>> /\ ui'.j = Blank /\ ui'.at = "off"
        /\ worker'.cred = NoId
    BY <1>2 DEF Crash, NoStorageChange, serverVars, dbVars, credVars, NoUi, WorkerRests, NoWorker
  <2> QED BY <1>1, <2>1
<1>3. CASE ServerSteps
  <2>1. UNCHANGED <<ledger, journal, vault, stage, ui, worker>>
    BY <1>3, ServerStepKeeps DEF Shape, ServerSteps, phoneVars
  <2> QED BY <1>1, <2>1
<1>4. ASSUME NEW m \in wire, ServeStale(m) PROVE GateInv'
  <2>1. /\ UNCHANGED <<ledger, journal, vault, stage, worker>>
        /\ ui' = ui \/ (ui'.j = ui.j /\ ui'.at = "stale")
    BY <1>4 DEF ServeStale, Answered, dbVars, credVars, Goto, Shape, GoodUi
  <2> QED BY <1>1, <2>1
<1>5. ASSUME NEW m \in wire, Lose(m) PROVE GateInv'
  <2>1. UNCHANGED <<ledger, journal, vault, stage, worker, ui>>
    BY <1>5 DEF Lose, serverVars, dbVars, credVars, phoneVars
  <2> QED BY <1>1, <2>1
<1> QED BY <1>2, <1>3, <1>4, <1>5, ServeGate

LEMMA GateInit == PhoneInit => GateInv
<1> SUFFICES ASSUME PhoneInit PROVE GateInv
  OBVIOUS
<1>1. /\ journal = Blank /\ ui.j = Blank /\ ui.at = "off" /\ vault = NoId /\ worker.cred = NoId
  BY DEF PhoneInit, NoUi, NoWorker
<1>2. /\ Blank.boot = NoId /\ Blank.prop = NoId /\ Blank.op = NoId
      /\ Blank.phase = "IDLE" /\ Blank.consent = 0
  BY DEF Blank
<1>3. Held = {NoId}
  BY <1>1, HeldFacts DEF Held
<1> QED BY <1>1, <1>2, <1>3, HeldFacts
     DEF GateInv, Proposals, ReadyJournal, OnePhone, Redeeming, ConsentsAccepted, Carries

LEMMA GateStep == Shape /\ SentInv /\ EraseInv /\ GateInv /\ [PhoneNext]_allVars => GateInv'
<1> SUFFICES ASSUME Shape, SentInv, EraseInv, GateInv, [PhoneNext]_allVars PROVE GateInv'
  OBVIOUS
<1>1. Shape'
  BY ShapeStep
<1>2. CASE UNCHANGED allVars
  <2>1. UNCHANGED <<ledger, journal, vault, stage, ui, worker>>
    BY <1>2 DEF allVars, phoneVars, serverVars, dbVars, credVars
  <2> QED BY <2>1, HeldFacts, QuietInherits, QuietGate DEF GateInv, ReadyJournal
<1> QED BY <1>1, <1>2, TapsGate, UiGate, WorkerGate, WorldGate DEF PhoneNext

\* While the gate is open and the phone has a session, the server holds the
\* acceptance of that very policy by that very phone: no crash, late answer, worker
\* or rotation lets the phone collect on a consent that was never recorded.
THEOREM CollectsOnRecordedConsent == PhoneSpec => []GateNeedsRecordedConsent
<1> DEFINE Inv == Shape /\ SentInv /\ EraseInv /\ GateInv
<1>1. PhoneInit => Inv
  BY ShapeInit, SentInit, EraseInit, GateInit
<1>2. Inv /\ [PhoneNext]_allVars => Inv'
  BY ShapeStep, SentStep, EraseStep, GateStep
<1>3. Inv => GateNeedsRecordedConsent
  <2> SUFFICES ASSUME Inv, GateOpen, vault # NoId
               PROVE  \E i \in Ids : /\ ledger[i].op \in {"activate", "reconsent"}
                                     /\ ledger[i].policy = journal.consent
                                     /\ ledger[i].device = Home(vault)
    BY DEF GateNeedsRecordedConsent
  <2>1. Carries(journal)
    BY DEF GateOpen, LocalConsent, Carries
  <2>2. Known(ledger, vault)
    BY SentFacts
  <2> QED BY <2>1, <2>2, HeldFacts DEF GateInv, ConsentsAccepted, Accepted, Home
<1> QED BY <1>1, <1>2, <1>3, PTL DEF PhoneSpec

-------------------------------------------------------------------------------
(* The queue.  What is collected under a consent is uploaded under it or not   *)
(* at all: a phone asks for a later consent only after it has stopped and      *)
(* purged, so the server holds the consent of the queue until then, or none.   *)

Consenting == {"ACTIVATION_PENDING", "RECONSENT_PENDING"}
ConsentOps == {"activate", "reconsent"}
Ready      == {"DISCLOSURE_READY", "RECONSENT_READY"}
Collecting == {"beat", "scan", "enqueue"}

\* The journals whose consent the server was given.
Vouches(l, j) == Carries(j) \/ (j.phase \in Consenting /\ l[j.req] = Sent(l, j))

\* Calls of phone d are queued under the consent to policy u, or may yet be.
Covers(l, u, d) ==
  \/ \E r \in rows : r.under = u /\ r.dev = d
  \/ worker.at \in Collecting /\ worker.under = u /\ l[worker.cred].device = d
  \/ \E j \in {journal, ui.j}, c \in Held :
       Vouches(l, j) /\ j.consent = u /\ Known(l, c) /\ l[c].device = d

\* The acceptances that the server may yet be sent.
ConsentCalls(l) ==
  {m \in wire \cup Sends(l, journal) \cup Sends(l, ui.j) : m.op \in ConsentOps}

Still == rows = {} /\ worker.at \notin Collecting
FetchesStill == /\ ui.at = "fetch" /\ ui.j.phase # "REDEEM_PENDING" => Still /\ ~prefs.accepted
                /\ ui.at = "purge" => ~prefs.accepted
ReadyIsStill == journal.phase \in Ready => Still
ResetIsEmpty == worker.at \in {"reset", "policy"} => rows = {}
StillInv == FetchesStill /\ ReadyIsStill /\ ResetIsEmpty

EnrolsWithNothing ==
  \A j, k \in {journal, ui.j} : j.phase = "REDEEM_PENDING" =>
    vault = NoId /\ worker.cred = NoId /\ rows = {} /\ k.prop = NoId
QueueOfPhone(l) == \A r \in rows, c \in Held : Known(l, c) => r.dev = l[c].device
Published ==
  /\ \A j \in {journal, ui.j} : j.policy <= policy /\ j.consent <= policy
  /\ \A m \in wire : m.policy <= policy
ConsentsAgree(l) ==
  \A u \in 0..MaxPolicy, d \in Devices : Covers(l, u, d) =>
    /\ u <= policy /\ receipt[d] \in {0, u}
    /\ \A m \in ConsentCalls(l) : m.device = d => m.policy <= u

QueueInv == /\ StillInv /\ EnrolsWithNothing /\ QueueOfPhone(ledger) /\ Published
            /\ ConsentsAgree(ledger)

\* Only an acceptance names a policy.
LEMMA SentPolicy ==
  ASSUME NEW l, NEW j, GoodJournal(j), Sendable(j)
  PROVE  /\ Sent(l, j).policy \in {0, j.consent}
         /\ Sent(l, j).op \in ConsentOps => j.phase \in Consenting
         /\ j.phase \in Consenting => Sent(l, j).op \in ConsentOps /\ Sent(l, j).policy = j.consent
<1>1. \A op, i, c, p : SentBy(l, op, i, c, p).op = op /\ SentBy(l, op, i, c, p).policy = p
  BY DEF SentBy
<1>2. RedeemCall(j.req, j.code, j.dev).op = "redeem" /\ RedeemCall(j.req, j.code, j.dev).policy = 0
  BY DEF RedeemCall
<1>3. CASE j.phase = "REDEEM_PENDING"
  BY <1>2, <1>3 DEF Sent, ConsentOps, Consenting
<1>4. CASE j.phase = "ACTIVATION_PENDING"
  BY <1>1, <1>4 DEF Sent, ConsentOps, Consenting
<1>5. CASE j.phase = "RECONSENT_PENDING"
  BY <1>1, <1>5 DEF Sent, ConsentOps, Consenting
<1>6. CASE j.phase = "ROTATION_PREPARE_PENDING"
  BY <1>1, <1>6 DEF Sent, ConsentOps, Consenting
<1>7. CASE j.phase = "ROTATION_CONFIRM_PENDING"
  BY <1>1, <1>7 DEF Sent, ConsentOps, Consenting
<1>8. CASE j.phase = "REVOKE_PENDING"
  BY <1>1, <1>8 DEF Sent, ConsentOps, Consenting
<1> QED BY <1>3, <1>4, <1>5, <1>6, <1>7, <1>8 DEF Sendable, Sending, Mutations, PolicyPending

\* What a step of the worker can do to the queue.
LEMMA WorkerQueues ==
  ASSUME Shape, WorkerSteps
  PROVE  /\ prefs'.accepted => prefs.accepted
         /\ worker'.at \in Collecting =>
              /\ journal' = journal /\ journal.phase = "IDLE" /\ prefs.accepted
              /\ \/ /\ worker.at \in Collecting
                    /\ worker'.under = worker.under /\ worker'.cred = worker.cred
                 \/ Carries(journal) /\ worker'.under = journal.consent /\ worker'.cred = vault
         /\ worker'.at \in {"reset", "policy"} => rows' = {} \/ (worker.at = "reset" /\ rows' = rows)
         /\ \/ journal' \in {journal, Blank}
            \/ journal'.phase \in {"RECONSENT_POLICY_PENDING", "RECONSENT_READY"}
         /\ journal'.phase \in Ready =>
              journal' = journal \/ (worker.at = "policy" /\ worker'.at = "off" /\ rows' = rows)
         /\ journal' # journal => journal'.policy \in {0, policy} /\ journal'.consent = 0
<1>0. /\ worker \in Workers /\ prefs \in Prefs
      /\ NoWorker.at = "off" /\ NoWorker.cred = NoId
      /\ \A at : WGoto(at) => worker'.at = at /\ worker'.cred = worker.cred
  BY DEF Shape, GoodWorker, NoWorker, WGoto, Workers
<1>1. CASE WorkerStarts
  <2>1. PICK at \in {"wipe", "close", "closeR", "demand", "beat"} :
          /\ worker' = [NoWorker EXCEPT !.at = at, !.cred = vault, !.under = journal.consent]
          /\ at = "beat" => GateOpen
    BY <1>1 DEF WorkerStarts
  <2>2. worker'.at = at /\ worker'.cred = vault /\ worker'.under = journal.consent
    BY <2>1 DEF NoWorker
  <2>3. UNCHANGED <<journal, prefs, rows>>
    BY <1>1 DEF WorkerStarts, NoStorageChange
  <2>4. GateOpen => journal.phase = "IDLE" /\ prefs.accepted /\ Carries(journal)
    BY DEF GateOpen, LocalConsent, Carries
  <2> QED BY <2>1, <2>2, <2>3, <2>4 DEF Collecting
<1>2. CASE Heartbeat
  <2>1. worker.at \in {"beat", "last"} /\ UNCHANGED <<journal, prefs, rows>>
    BY <1>2 DEF Heartbeat, NoStorageChange
  <2>2. /\ worker'.at \in {"wipe", "demand", "scan", "off"}
        /\ worker'.at = "scan" => GateOpen /\ worker.at = "beat"
                                  /\ worker'.under = worker.under /\ worker'.cred = worker.cred
    BY <1>0, <1>2 DEF Heartbeat, GateThen, WorkerRests, Workers
  <2> QED BY <2>1, <2>2 DEF Collecting, GateOpen, LocalConsent
<1>3. CASE Scan
  <2>1. worker.at = "scan" /\ UNCHANGED <<journal, prefs, rows>>
    BY <1>3 DEF Scan, NoStorageChange
  <2>2. /\ worker'.at \in {"enqueue", "off"}
        /\ worker'.at = "enqueue" => GateOpen /\ worker'.under = worker.under /\ worker'.cred = worker.cred
    BY <1>0, <1>3 DEF Scan, GateThen, Workers
  <2> QED BY <2>1, <2>2 DEF Collecting, GateOpen, LocalConsent
<1>4. CASE Enqueue
  <2>1. UNCHANGED <<journal, prefs>> /\ worker'.at \in {"upload", "off"}
    BY <1>0, <1>4 DEF Enqueue, GateThen, Workers
  <2> QED BY <2>1 DEF Collecting
<1>5. CASE Upload
  <2>1. UNCHANGED <<journal, prefs>> /\ worker'.at \in {"wipe", "demand", "last"}
    BY <1>0, <1>5 DEF Upload
  <2> QED BY <2>1 DEF Collecting
<1>6. CASE WorkerStops
  <2>1. worker' = NoWorker /\ UNCHANGED <<journal, prefs, rows>>
    BY <1>6 DEF WorkerStops, WorkerRests, NoStorageChange
  <2> QED BY <1>0, <2>1 DEF Collecting
<1>7. CASE DemandConsent \/ WorkerFetchesPolicy
  <2>1. worker.cred \in Ids /\ worker.expected \in 0..MaxPolicy
    BY <1>7 DEF Shape, GoodWorker, WipeLabels, Workers, DemandConsent, WorkerFetchesPolicy
  <2>2. /\ Preflight(worker.cred) \in Journal /\ Preflight(worker.cred).phase = "RECONSENT_POLICY_PENDING"
        /\ Preflight(worker.cred).policy = 0 /\ Preflight(worker.cred).consent = 0
    BY <2>1, PreflightGood DEF GoodJournal, Preflight, Blank
  <2>3. CASE DemandConsent
    <3>1. /\ journal'.phase = "RECONSENT_POLICY_PENDING" /\ journal'.policy = 0 /\ journal'.consent = 0
          /\ worker'.at = "close" /\ UNCHANGED <<prefs, rows>>
      BY <1>0, <2>2, <2>3 DEF DemandConsent, Journal, Workers
    <3> QED BY <3>1 DEF Collecting, Ready
  <2>4. CASE WorkerFetchesPolicy
    <3>1. /\ journal'.phase = "RECONSENT_READY" /\ journal'.policy = policy /\ journal'.consent = 0
          /\ worker' = NoWorker /\ worker.at = "policy" /\ UNCHANGED <<prefs, rows>>
      BY <2>2, <2>4 DEF WorkerFetchesPolicy, WorkerRests, Journal
    <3> QED BY <1>0, <3>1 DEF Collecting
  <2> QED BY <1>7, <2>3, <2>4
<1>8. CASE WorkerCloses
  <2>1. /\ journal' = journal /\ worker'.at \in {"close", "purge", "reset", "policy", "off"}
        /\ worker'.at = "reset" => rows' = {}
        /\ worker'.at = "policy" => worker.at = "reset" /\ rows' = rows
    BY <1>0, <1>8 DEF WorkerCloses, WorkerRests
  <2>2. prefs'.accepted => prefs.accepted
    BY <1>0, <1>8 DEF WorkerCloses, Closed, Prefs
  <2> QED BY <2>1, <2>2 DEF Collecting
<1>9. CASE WorkerErases
  <2>1. journal' \in {journal, Blank} /\ worker'.at \in {"wipeV", "wipeJ", "wipeD", "wipeE", "off"}
    BY <1>0, <1>9 DEF WorkerErases, WorkerRests
  <2>2. prefs'.accepted => prefs.accepted
    BY <1>0, <1>9 DEF WorkerErases, Erasing, Prefs
  <2>3. Blank.phase = "IDLE" /\ Blank.policy = 0 /\ Blank.consent = 0
    BY DEF Blank
  <2> QED BY <2>1, <2>2, <2>3 DEF Collecting, Ready
<1> QED BY <1>1, <1>2, <1>3, <1>4, <1>5, <1>6, <1>7, <1>8, <1>9 DEF WorkerSteps

\* What a step of the view model can do to the queue.
LEMMA TapsQueue ==
  ASSUME Shape, Taps
  PROVE  /\ UNCHANGED <<worker, rows, prefs, vault>> /\ ui'.at \notin {"fetch", "purge"}
         /\ journal'.phase \in Ready => journal' = journal
<1>0. UNCHANGED <<worker, rows, prefs, vault>>
  BY DEF Taps, PairSame, PairFresh, Retry, Accept, Rotate, Withdraw, RetryRevocation,
         ResetRevokedDevice, Look, NoStorageChange
<1>1. /\ \A j : Send(j) => ui'.at = "await"
      /\ \A at, j : GoWith(at, j) => ui'.at = at
      /\ journal \in Journal /\ Blank \in Journal
  BY BlankGood DEF Send, GoWith, Shape, GoodJournal
<1>2. CASE PairSame \/ RetryRevocation
  BY <1>0, <1>1, <1>2 DEF PairSame, RetryRevocation, NoStorageChange
<1>3. ASSUME NEW k \in Codes, PairFresh(k)
      PROVE  ui'.at \notin {"fetch", "purge"} /\ journal' = journal
  BY <1>3 DEF PairFresh, NoStorageChange
<1>4. CASE Retry
  <2>1. ui'.at \in {"await", "close", "closeR"}
    BY <1>4 DEF Retry, Resume, Send, GoWith
  <2> QED BY <1>0, <1>4, <2>1 DEF Retry, NoStorageChange
<1>5. CASE Accept
  <2>1. ui'.at = "await"
    BY <1>1, <1>5 DEF Accept
  <2>2. ASSUME NEW j \in Journal, NEW n,
               journal' = IF journal.phase = "DISCLOSURE_READY"
                          THEN [j EXCEPT !.phase = "ACTIVATION_PENDING", !.prop = n]
                          ELSE [j EXCEPT !.phase = "RECONSENT_PENDING"]
        PROVE  journal'.phase \notin Ready
    BY <2>2 DEF Journal, Ready
  <2>3. ASSUME NEW n \in Fresh PROVE [journal EXCEPT !.req = n, !.consent = journal.policy] \in Journal
    BY <1>1, <2>3 DEF Fresh, AnyOf, Journal
  <2> QED BY <1>0, <1>5, <2>1, <2>2, <2>3 DEF Accept
<1>6. CASE Rotate
  <2>1. PICK n \in Fresh : journal' = [journal EXCEPT !.phase = "ROTATION_PREPARE_PENDING",
                                                      !.req = n, !.prop = n, !.op = vault]
    BY <1>6 DEF Rotate
  <2>2. journal'.phase = "ROTATION_PREPARE_PENDING"
    BY <1>1, <2>1 DEF Journal
  <2>3. ui'.at = "await"
    BY <1>1, <1>6 DEF Rotate
  <2> QED BY <1>0, <2>2, <2>3 DEF Ready
<1>7. CASE Withdraw
  <2>1. ui'.at = "closeR"
    BY <1>1, <1>7 DEF Withdraw
  <2>2. journal' = journal \/ \E b \in Journal : \E n :
          journal' = [b EXCEPT !.phase = "REVOKE_PENDING", !.req = n, !.op = vault]
    BY <1>1, <1>7 DEF Withdraw
  <2>3. journal' = journal \/ journal'.phase = "REVOKE_PENDING"
    BY <2>2 DEF Journal
  <2> QED BY <1>0, <2>1, <2>3 DEF Ready
<1>8. CASE ResetRevokedDevice \/ Look
  BY <1>0, <1>8 DEF ResetRevokedDevice, Look, Done, NoUi, NoStorageChange
<1> QED BY <1>0, <1>2, <1>3, <1>4, <1>5, <1>6, <1>7, <1>8 DEF Taps

LEMMA UiQueues ==
  ASSUME Shape, Shape', UiSteps
  PROVE  /\ UNCHANGED worker /\ rows' \in {rows, {}}
         /\ ui'.at = "fetch" /\ ui'.j.phase # "REDEEM_PENDING" =>
              /\ rows' = {} /\ worker.at = "off"
              /\ ui.at = "purge" /\ prefs'.accepted = prefs.accepted
         /\ ui'.at = "purge" => ~prefs'.accepted
         /\ journal'.phase \in Ready => journal' = journal \/ (PolicyFetched /\ ui'.at = "refresh")
<1>0. UNCHANGED worker /\ rows' \in {rows, {}} /\ prefs \in Prefs
  BY DEF UiSteps, Launch, Refresh, GiveUp, Acknowledged, RecoverFromConsentRequired,
         JournalPreflight, CloseGate, Purge, PolicyFetched, ClearJournal, WriteIdle, OpenGate,
         FinishRevocation, WipeVault, WipeJournal, WipeData, ForgetRevocation, JournalRedeem,
         NoStorageChange, Shape
<1>1. /\ \A at : Goto(at) => ui'.at = at /\ ui'.j = ui.j
      /\ Done => ui'.at = "refresh"
      /\ \A j : Send(j) => ui'.at = "await" /\ ui'.j = j
      /\ Blank.phase = "IDLE" /\ Blank \in Journal
      /\ \A c : Preflight(c).phase = "RECONSENT_POLICY_PENDING"
  BY BlankGood DEF Goto, Done, NoUi, Send, GoWith, Shape, GoodUi, GoodJournal, Preflight, Blank
<1>2. ASSUME ui'.at \notin {"fetch", "purge"}, journal' = journal \/ journal'.phase \notin Ready
      PROVE  /\ ui'.at = "fetch" /\ ui'.j.phase # "REDEEM_PENDING" =>
                  /\ rows' = {} /\ worker.at = "off"
                  /\ ui.at = "purge" /\ prefs'.accepted = prefs.accepted
             /\ ui'.at = "purge" => ~prefs'.accepted
             /\ journal'.phase \in Ready => journal' = journal \/ (PolicyFetched /\ ui'.at = "refresh")
  BY <1>2
<1>3. CASE Launch
  <2>1. ui'.at \in {"wipe", "close", "refresh"} /\ journal' \in {journal, Preflight(vault)}
    BY <1>3 DEF Launch
  <2> QED BY <1>0, <1>1, <1>2, <2>1 DEF Ready
<1>4. CASE Refresh
  <2>1. ui'.at \in {"await", "close", "closeR", "idle"} /\ journal' = journal
    <3>1. CASE ui.then = "resume" /\ ui.j.phase \in Mutations \cup PolicyPending
      BY <1>1, <1>4, <3>1 DEF Refresh, Resume, GoWith
    <3>2. CASE ~(ui.then = "resume" /\ ui.j.phase \in Mutations \cup PolicyPending)
      BY <1>4, <3>2 DEF Refresh, NoUi
    <3> QED BY <3>1, <3>2
  <2> QED BY <1>0, <1>2, <2>1
<1>5. CASE GiveUp \/ OpenGate \/ FinishRevocation \/ ForgetRevocation
  BY <1>0, <1>1, <1>2, <1>5 DEF GiveUp, OpenGate, FinishRevocation, ForgetRevocation, NoStorageChange
<1>6. CASE Acknowledged
  <2>1. ui.j.phase \in Sending
    BY <1>6 DEF Acknowledged, Shape, GoodUi, Fits
  <2>2. CASE ui.j.phase = "REDEEM_PENDING"
    BY <1>0, <1>1, <1>6, <2>2 DEF Acknowledged
  <2>3. CASE ui.j.phase = "ACTIVATION_PENDING"
    BY <1>0, <1>1, <1>6, <2>3 DEF Acknowledged
  <2>4. CASE ui.j.phase = "RECONSENT_PENDING"
    BY <1>0, <1>1, <1>6, <2>4 DEF Acknowledged
  <2>5. CASE ui.j.phase = "ROTATION_CONFIRM_PENDING"
    BY <1>0, <1>1, <1>6, <2>5 DEF Acknowledged
  <2>6. CASE ui.j.phase = "REVOKE_PENDING"
    BY <1>0, <1>1, <1>6, <2>6 DEF Acknowledged
  <2>7. CASE ui.j.phase = "ROTATION_PREPARE_PENDING"
    <3>1. PICK n : /\ journal' = [ui.j EXCEPT !.phase = "ROTATION_CONFIRM_PENDING", !.req = n]
                   /\ Send(journal')
      BY <1>6, <2>7 DEF Acknowledged
    <3>2. journal'.phase = "ROTATION_CONFIRM_PENDING"
      BY <3>1 DEF Shape, GoodUi, Journal
    <3>3. ui'.at = "await"
      BY <1>1, <3>1
    <3> QED BY <1>0, <1>2, <3>2, <3>3 DEF Ready
  <2> QED BY <2>1, <2>2, <2>3, <2>4, <2>5, <2>6, <2>7 DEF Sending, Mutations, PolicyPending
<1>7. CASE RecoverFromConsentRequired
  <2>1. CASE journal.phase = "ACTIVATION_PENDING"
    <3>1. journal' = [journal EXCEPT !.phase = "ACTIVATION_POLICY_PENDING", !.req = NoId,
                        !.policy = 0, !.expected = 0, !.prop = NoId, !.consent = 0, !.op = NoId]
      BY <1>7, <2>1 DEF RecoverFromConsentRequired
    <3>2. journal'.phase = "ACTIVATION_POLICY_PENDING"
      BY <3>1 DEF Shape, GoodJournal, Journal
    <3>3. ui'.at = "close"
      BY <1>7, <2>1 DEF RecoverFromConsentRequired, GoWith
    <3> QED BY <1>0, <1>2, <3>2, <3>3 DEF Ready
  <2>2. CASE journal.phase \in {"RECONSENT_PENDING", "ROTATION_PREPARE_PENDING"}
    <3>1. journal' = Preflight(Bearer(journal)) /\ ui'.at = "close"
      BY <1>7, <2>2 DEF RecoverFromConsentRequired, GoWith
    <3> QED BY <1>0, <1>1, <1>2, <3>1 DEF Ready
  <2>3. CASE journal.phase \notin {"ACTIVATION_PENDING", "RECONSENT_PENDING", "ROTATION_PREPARE_PENDING"}
    BY <1>0, <1>1, <1>2, <1>7, <2>3 DEF RecoverFromConsentRequired
  <2> QED BY <2>1, <2>2, <2>3
<1>8. CASE JournalPreflight
  BY <1>0, <1>1, <1>2, <1>8 DEF JournalPreflight, Ready
<1>9. CASE CloseGate
  <2>1. journal' = journal /\ ui'.at \in {"purge", "purgeR"} /\ ~prefs'.accepted
    BY <1>0, <1>1, <1>9 DEF CloseGate, Closed, ClosedForRevoke, Prefs
  <2> QED BY <1>0, <2>1
<1>10. CASE Purge
  <2>1. /\ journal' = journal /\ rows' = {} /\ worker.at = "off" /\ prefs'.accepted = prefs.accepted
    BY <1>0, <1>10 DEF Purge, MutexFree, Prefs
  <2>2. \/ ui.at = "purge" /\ ui'.at \in {"refresh", "fetch"}
        \/ ui'.at \in {"revJ", "await"}
    <3>1. ui.at = "purge" /\ ui.then = "boot" => ui'.at = "refresh"
      BY <1>10 DEF Purge, Shape, GoodUi
    <3> QED BY <1>1, <1>10, <3>1 DEF Purge
  <2> QED BY <1>0, <2>1, <2>2
<1>11. CASE PolicyFetched
  <2>1. CASE Done
    BY <1>0, <1>1, <1>11, <2>1
  <2>2. CASE Goto("clear") /\ UNCHANGED journal
    BY <1>0, <1>1, <1>2, <2>2
  <2> QED BY <1>11, <2>1, <2>2 DEF PolicyFetched
<1>12. CASE ClearJournal
  BY <1>0, <1>1, <1>2, <1>12 DEF ClearJournal, Ready
<1>13. CASE WriteIdle
  <2>1. journal'.phase = "IDLE"
    BY <1>13, IdleGood DEF WriteIdle, Shape, GoodUi
  <2> QED BY <1>0, <1>1, <1>2, <1>13, <2>1 DEF WriteIdle, Ready
<1>14. CASE WipeVault \/ WipeJournal \/ WipeData
  BY <1>0, <1>1, <1>2, <1>14 DEF WipeVault, WipeJournal, WipeData, Ready
<1>15. CASE JournalRedeem
  <2>1. PICK n, d :
          journal' = [Blank EXCEPT !.phase = "REDEEM_PENDING", !.req = n, !.boot = n,
                                   !.code = ui.j.code, !.dev = d]
    BY <1>15 DEF JournalRedeem
  <2>2. journal'.phase = "REDEEM_PENDING"
    BY <1>1, <2>1 DEF Journal
  <2>3. ui'.at = "await"
    BY <1>1, <1>15 DEF JournalRedeem
  <2> QED BY <1>0, <1>2, <2>2, <2>3 DEF Ready
<1> QED BY <1>3, <1>4, <1>5, <1>6, <1>7, <1>8, <1>9, <1>10, <1>11, <1>12, <1>13, <1>14, <1>15 DEF UiSteps

\* A phone between two policies is still until it has accepted the next one.
LEMMA StillStep ==
  ASSUME Shape, Shape', StillInv, EnrolsWithNothing, [PhoneNext]_allVars
  PROVE  StillInv'
<1> USE DEF StillInv
<1>1. CASE Taps
  BY <1>1, TapsQueue DEF FetchesStill, ReadyIsStill, ResetIsEmpty, Still
<1>2. CASE UiSteps
  <2>1. UNCHANGED worker /\ rows' \in {rows, {}} /\ (Still => Still')
    BY <1>2, UiQueues DEF Still
  <2>2. ResetIsEmpty'
    BY <2>1 DEF ResetIsEmpty
  <2>3. FetchesStill'
    BY <1>2, <2>1, UiQueues DEF FetchesStill, Still, Collecting
  <2>4. PolicyFetched => Still
    <3>1. CASE ui.j.phase = "REDEEM_PENDING"
      BY <3>1, ConstantsDistinct DEF EnrolsWithNothing, Still, Shape, GoodWorker, Collecting, WipeLabels
    <3>2. CASE ui.j.phase # "REDEEM_PENDING"
      BY <3>2 DEF PolicyFetched, FetchesStill
    <3> QED BY <3>1, <3>2
  <2>5. ReadyIsStill'
    BY <1>2, <2>1, <2>4, UiQueues DEF ReadyIsStill
  <2> QED BY <2>2, <2>3, <2>5
<1>3. CASE WorkerSteps
  <2>1. Still /\ (journal.phase # "IDLE" \/ ~prefs.accepted) => Still'
    BY <1>3, WorkerFrame, WorkerQueues DEF Still, Collecting
  <2>2. FetchesStill'
    BY <1>3, <2>1, WorkerFrame, WorkerQueues DEF FetchesStill
  <2>3. ReadyIsStill'
    <3>1. worker.at = "policy" /\ worker'.at = "off" /\ rows' = rows => Still'
      BY DEF ResetIsEmpty, Still, Collecting
    <3>2. journal' = journal /\ journal.phase \in Ready => Still'
      BY <2>1 DEF ReadyIsStill, Ready
    <3> QED BY <1>3, <3>1, <3>2, WorkerQueues DEF ReadyIsStill
  <2>4. ResetIsEmpty'
    BY <1>3, WorkerQueues DEF ResetIsEmpty
  <2> QED BY <2>2, <2>3, <2>4
<1>4. CASE Crash
  BY <1>4 DEF Crash, NoStorageChange, NoUi, WorkerRests, NoWorker, FetchesStill, ReadyIsStill,
              ResetIsEmpty, Still, Collecting
<1>5. ASSUME NEW m, NEW at \in {"ok", "stale"}, Answered(m, at) PROVE StillInv'
  <2>1. /\ UNCHANGED <<journal, prefs, rows, worker>>
        /\ ui' = ui \/ ui'.at = at
    BY <1>5 DEF Answered, Goto, Shape, GoodUi
  <2> QED BY <1>5, <2>1 DEF FetchesStill, ReadyIsStill, ResetIsEmpty, Still
<1>6. ASSUME UNCHANGED phoneVars PROVE StillInv'
  BY <1>6 DEF phoneVars, FetchesStill, ReadyIsStill, ResetIsEmpty, Still
<1>7. CASE ServerSteps
  BY <1>6, <1>7 DEF ServerSteps
<1>8. ASSUME NEW m \in wire, Serve(m) \/ ServeStale(m) \/ Lose(m) PROVE StillInv'
  BY <1>5, <1>6, <1>8 DEF Serve, ServeStale, Lose
<1>9. CASE UNCHANGED allVars
  BY <1>6, <1>9 DEF allVars
<1> QED BY <1>1, <1>2, <1>3, <1>4, <1>7, <1>8, <1>9 DEF PhoneNext

\* A step of the phone that covers nothing new, and asks for a consent only when
\* nothing is covered.
LEMMA PhoneKeepsQueue ==
  ASSUME QueueInv, StillInv', EnrolsWithNothing', UNCHANGED <<ledger, receipt, policy>>,
         \A r \in rows' : r \in rows \/ \A c \in Held : Known(ledger, c) => r.dev = ledger[c].device,
         \A c \in Held' : Known(ledger, c) => c \in Held,
         \A j \in {journal', ui'.j} : j.policy <= policy /\ j.consent <= policy,
         \A m \in wire' : m \in wire \/ m.policy <= policy,
         \A u, d : Covers(ledger, u, d)' =>
           Covers(ledger, u, d) /\ ConsentCalls(ledger)' \subseteq ConsentCalls(ledger)
  PROVE  QueueInv'
<1>1. QueueOfPhone(ledger)'
  BY DEF QueueInv, QueueOfPhone, Known
<1>2. Published'
  BY DEF QueueInv, Published
<1>3. ConsentsAgree(ledger)'
  <2> SUFFICES ASSUME NEW u \in 0..MaxPolicy, NEW d \in Devices, Covers(ledger, u, d)'
               PROVE  /\ u <= policy' /\ receipt'[d] \in {0, u}
                      /\ \A m \in ConsentCalls(ledger)' : m.device = d => m.policy <= u
    BY DEF ConsentsAgree
  <2>1. Covers(ledger, u, d) /\ ConsentCalls(ledger)' \subseteq ConsentCalls(ledger)
    OBVIOUS
  <2> QED BY <2>1 DEF QueueInv, ConsentsAgree
<1> QED BY <1>1, <1>2, <1>3 DEF QueueInv

\* The journals of such a step: old ones, or new ones that neither ask for a consent
\* nor vouch for another one.
Adopts(j) ==
  \/ j \in {journal, ui.j}
  \/ /\ j.phase \notin {"REDEEM_PENDING"} \cup Consenting
     /\ Creds(j) \subseteq Held \cup {NoId} /\ j.prop \in {NoId, journal.prop, ui.j.prop}
     /\ j.policy <= policy /\ j.consent <= policy
     /\ Carries(j) => \E k \in {journal, ui.j} : Vouches(ledger, k) /\ k.consent = j.consent

LEMMA QuietQueue ==
  ASSUME Shape, Shape', QueueInv, StillInv', UNCHANGED <<ledger, receipt, policy>>,
         rows' \in {rows, {}}, Adopts(journal'), Adopts(ui'.j),
         vault' \in {vault, NoId, journal.prop, ui.j.prop}, worker' \in {worker, NoWorker},
         wire' \subseteq wire \cup Sends(ledger, ui'.j)
  PROVE  QueueInv'
<1>0. /\ GoodJournal(journal') /\ GoodJournal(ui'.j)
      /\ NoWorker.cred = NoId /\ NoWorker.at \notin Collecting
      /\ policy \in Nat /\ 0 <= policy
  BY BoundsAreNat DEF Shape, GoodUi, GoodJournal, NoWorker, Collecting, Server, TypeOK
<1>1. \A c \in Held' : Known(ledger, c) => c \in Held
  <2>1. Creds(journal') \subseteq Held \cup {NoId} /\ Creds(ui'.j) \subseteq Held \cup {NoId}
    BY HeldFacts DEF Adopts
  <2>2. vault' \in Held \cup {NoId} /\ worker'.cred \in Held \cup {NoId}
    BY <1>0, HeldFacts DEF Creds
  <2>3. Held' = {vault', worker'.cred} \cup Creds(journal') \cup Creds(ui'.j)
    BY DEF Held, Creds
  <2> QED BY <2>1, <2>2, <2>3, HeldFacts
<1>2. EnrolsWithNothing'
  <2> SUFFICES ASSUME NEW j \in {journal', ui'.j}, NEW k \in {journal', ui'.j}, j.phase = "REDEEM_PENDING"
               PROVE  vault' = NoId /\ worker'.cred = NoId /\ rows' = {} /\ k.prop = NoId
    BY DEF EnrolsWithNothing
  <2>1. j \in {journal, ui.j}
    BY DEF Adopts
  <2>2. vault = NoId /\ worker.cred = NoId /\ rows = {} /\ journal.prop = NoId /\ ui.j.prop = NoId
    BY <2>1 DEF QueueInv, EnrolsWithNothing
  <2> QED BY <1>0, <2>2 DEF Adopts
<1>3. \A j \in {journal', ui'.j} : j.policy <= policy /\ j.consent <= policy
  BY DEF Adopts, QueueInv, Published
<1>4. ASSUME NEW j \in {journal', ui'.j}, NEW m \in Sends(ledger, j)
      PROVE  m.policy <= policy /\ (m.op \in ConsentOps => m \in ConsentCalls(ledger))
  <2>1. Sendable(j) /\ m = Sent(ledger, j) /\ GoodJournal(j)
    BY <1>0, <1>4 DEF Sends
  <2>2. m.policy \in {0, j.consent} /\ (m.op \in ConsentOps => j.phase \in Consenting)
    BY <2>1, SentPolicy
  <2>3. j.phase \in Consenting => j \in {journal, ui.j}
    BY DEF Adopts
  <2> QED BY <1>0, <1>3, <1>4, <2>2, <2>3 DEF ConsentCalls
<1>5. \A m \in wire' : m \in wire \/ m.policy <= policy
  BY <1>4
<1>6. ConsentCalls(ledger)' \subseteq ConsentCalls(ledger)
  <2>1. ConsentCalls(ledger)' = {m \in wire' \cup Sends(ledger, journal') \cup Sends(ledger, ui'.j) : m.op \in ConsentOps}
    BY DEF ConsentCalls, Sends, Sent, SentBy
  <2>2. \A m \in wire : m.op \in ConsentOps => m \in ConsentCalls(ledger)
    BY DEF ConsentCalls
  <2> QED BY <1>4, <2>1, <2>2
<1>7. ASSUME NEW u, NEW d, Covers(ledger, u, d)' PROVE Covers(ledger, u, d)
  <2>1. CASE \E r \in rows' : r.under = u /\ r.dev = d
    BY <2>1 DEF Covers
  <2>2. CASE worker'.at \in Collecting /\ worker'.under = u /\ ledger[worker'.cred].device = d
    BY <1>0, <2>2 DEF Covers
  <2>3. ASSUME NEW j \in {journal', ui'.j}, NEW c \in Held',
               Vouches(ledger, j), j.consent = u, Known(ledger, c), ledger[c].device = d
        PROVE  Covers(ledger, u, d)
    <3>1. c \in Held
      BY <1>1, <2>3
    <3>2. \E k \in {journal, ui.j} : Vouches(ledger, k) /\ k.consent = u
      BY <2>3 DEF Adopts, Vouches
    <3> QED BY <2>3, <3>1, <3>2 DEF Covers
  <2>4. Covers(ledger, u, d)' =
          \/ \E r \in rows' : r.under = u /\ r.dev = d
          \/ worker'.at \in Collecting /\ worker'.under = u /\ ledger[worker'.cred].device = d
          \/ \E j \in {journal', ui'.j}, c \in Held' :
               Vouches(ledger, j) /\ j.consent = u /\ Known(ledger, c) /\ ledger[c].device = d
    BY DEF Covers, Vouches, Known, Carries, Sent, SentBy
  <2> QED BY <1>7, <2>1, <2>2, <2>3, <2>4
<1> QED BY <1>1, <1>2, <1>3, <1>5, <1>6, <1>7, PhoneKeepsQueue

LEMMA QuietAdopts ==
  ASSUME Shape
  PROVE  /\ Adopts(Blank) /\ Adopts(journal) /\ Adopts(ui.j)
         /\ \A c \in Held : Adopts(Preflight(c))
<1>1. /\ Blank.prop = NoId /\ Blank.phase = "IDLE" /\ Blank.consent = 0 /\ Blank.policy = 0
      /\ \A c : /\ Preflight(c).prop = NoId /\ Preflight(c).consent = 0 /\ Preflight(c).policy = 0
                /\ Preflight(c).phase = "RECONSENT_POLICY_PENDING"
  BY DEF Preflight, Blank
<1>2. 0 <= policy
  BY BoundsAreNat DEF Shape, Server, TypeOK
<1> QED BY <1>1, <1>2, HeldFacts DEF Adopts, Carries, Rotation, Consenting

\* Field by field: the journals that drop what they took over, or send no consent.
LEMMA AdoptsFields ==
  ASSUME QueueInv, NEW j, NEW k \in {journal, ui.j},
         j.boot \in Held \cup {NoId}, j.op \in Held \cup {NoId}, j.prop \in {k.prop, NoId},
         j.phase \notin {"REDEEM_PENDING"} \cup Consenting,
         j.policy \in {k.policy, policy} \/ (j.policy = 0 /\ 0 <= policy),
         j.consent = k.consent \/ (j.consent = 0 /\ 0 <= policy),
         policy \in Nat,
         Carries(j) => Vouches(ledger, k) /\ k.consent = j.consent
  PROVE  Adopts(j)
<1>1. k.prop \in Held /\ k.policy <= policy /\ k.consent <= policy
  BY HeldFacts DEF QueueInv, Published, Creds
<1> QED BY <1>1 DEF Adopts, Creds

LEMMA SendSends ==
  ASSUME NEW j, GoodJournal(j), Sendable(j), Send(j)
  PROVE  ui'.j = j /\ wire' = wire \cup Sends(ledger, j)
BY RequestIsSent DEF Send, GoWith, Sends, Sendable

LEMMA ResumeSends ==
  ASSUME NEW j, GoodJournal(j), j.phase \in Mutations \cup PolicyPending, Resume(j)
  PROVE  ui'.j = j /\ wire' \subseteq wire \cup Sends(ledger, j)
<1>1. CASE j.phase \in PolicyPending \cup {"REVOKE_PENDING"}
  BY <1>1 DEF Resume, GoWith, PolicyPending
<1>2. CASE j.phase \notin PolicyPending \cup {"REVOKE_PENDING"}
  <2>1. Send(j) BY <1>2 DEF Resume
  <2>2. Sendable(j) BY <1>2 DEF Sendable, Sending
  <2> QED BY <2>1, <2>2, SendSends
<1> QED BY <1>1, <1>2

\* A request under a fresh id, from the journal it was entered in.
LEMMA FreshHeld ==
  ASSUME SentInv, NEW n \in Fresh, UNCHANGED <<ledger, vault, worker>>, ui'.j = journal',
         Creds(journal') \subseteq Held \cup {NoId, n}
  PROVE  ~Known(ledger, n) /\ \A c \in Held' : Known(ledger, c) => c \in Held
<1>1. ~Known(ledger, n)
  BY DEF Fresh, AnyOf, SentInv, LedgerIsFiled, IdsWereDrawn, AllSent, Known
<1>2. Held' = {vault', worker'.cred} \cup Creds(journal')
  BY DEF Held, Creds
<1> QED BY <1>1, <1>2, HeldFacts

\* Nothing is covered when the employee accepts a policy.
LEMMA AcceptQueue ==
  ASSUME Shape, Shape', SentInv, QueueInv, StillInv', UNCHANGED <<ledger, receipt, policy, vault, rows, worker>>,
         NEW n \in Fresh, journal.phase \in Ready, NEW j,
         j = [journal EXCEPT !.req = n, !.consent = journal.policy],
         journal' = IF journal.phase = "DISCLOSURE_READY"
                    THEN [j EXCEPT !.phase = "ACTIVATION_PENDING", !.prop = n]
                    ELSE [j EXCEPT !.phase = "RECONSENT_PENDING"],
         Send(journal')
  PROVE  QueueInv'
<1>1. /\ j \in Journal /\ j.boot = journal.boot /\ j.op = journal.op /\ j.prop = journal.prop
      /\ j.req = n /\ j.consent = journal.policy /\ j.policy = journal.policy
  BY DEF Fresh, AnyOf, Shape, GoodJournal, Journal
<1>2. /\ journal'.phase \in Consenting /\ journal'.boot = journal.boot /\ journal'.op = journal.op
      /\ journal'.prop \in {n, journal.prop} /\ journal'.req = n
      /\ journal'.consent = journal.policy /\ journal'.policy = journal.policy
  BY <1>1 DEF Journal, Consenting, Ready
<1>3. GoodJournal(journal') /\ Sendable(journal')
  BY <1>2 DEF Shape, Sendable, Sending, Mutations, PolicyPending, Consenting
<1>4. ui'.j = journal' /\ wire' = wire \cup Sends(ledger, journal')
  <2>1. Send(journal') OBVIOUS
  <2> QED BY <1>3, <2>1, SendSends
<1>5. Creds(journal') \subseteq Held \cup {NoId, n}
  BY <1>2, HeldFacts DEF Creds
<1>6. ~Known(ledger, n) /\ \A c \in Held' : Known(ledger, c) => c \in Held
  BY <1>4, <1>5, FreshHeld
<1>7. journal'.policy <= policy /\ journal'.consent <= policy
  BY <1>2 DEF QueueInv, Published
<1>8. /\ Sent(ledger, journal').op \in ConsentOps /\ Sent(ledger, journal').policy = journal'.consent
  <2>1. \A k : GoodJournal(k) /\ Sendable(k) /\ k.phase \in Consenting =>
                Sent(ledger, k).op \in ConsentOps /\ Sent(ledger, k).policy = k.consent
    BY SentPolicy
  <2> QED BY <1>2, <1>3, <2>1
<1>9. \A m \in wire' : m \in wire \/ m.policy <= policy
  BY <1>4, <1>7, <1>8 DEF Sends
<1>10. EnrolsWithNothing'
  BY <1>2, <1>4 DEF EnrolsWithNothing, Consenting
<1>11. ~Vouches(ledger, journal')
  <2>1. n \in Ids /\ ledger[n].op = "none"
    BY <1>6 DEF Fresh, AnyOf, Known
  <2>2. ~Carries(journal')
    BY <1>2 DEF Carries, Rotation, Consenting
  <2> QED BY <1>2, <1>8, <2>1, <2>2 DEF Vouches, ConsentOps
<1>12. ASSUME NEW u, NEW d, Covers(ledger, u, d)' PROVE FALSE
  <2>1. rows = {} /\ worker.at \notin Collecting
    BY DEF QueueInv, StillInv, ReadyIsStill, Still
  <2>2. Covers(ledger, u, d)' =
          \/ \E r \in rows' : r.under = u /\ r.dev = d
          \/ worker'.at \in Collecting /\ worker'.under = u /\ ledger[worker'.cred].device = d
          \/ \E k \in {journal', ui'.j}, c \in Held' :
               Vouches(ledger, k) /\ k.consent = u /\ Known(ledger, c) /\ ledger[c].device = d
    BY DEF Covers, Vouches, Known, Carries, Sent, SentBy
  <2> QED BY <1>4, <1>11, <1>12, <2>1, <2>2
<1> QED BY <1>4, <1>6, <1>7, <1>9, <1>10, <1>12, PhoneKeepsQueue

LEMMA RotateQueue ==
  ASSUME Shape, Shape', SentInv, QueueInv, StillInv', Rotate PROVE QueueInv'
<1>0. UNCHANGED <<ledger, receipt, policy, vault, rows, worker>>
  BY DEF Rotate, serverVars, dbVars, credVars, deviceVars, policyVars
<1>1. PICK n \in Fresh : journal' = [journal EXCEPT !.phase = "ROTATION_PREPARE_PENDING",
                                                    !.req = n, !.prop = n, !.op = vault]
  BY DEF Rotate
<1>2. /\ journal'.phase = "ROTATION_PREPARE_PENDING" /\ journal'.prop = n /\ journal'.op = vault
      /\ journal'.boot = journal.boot /\ journal'.consent = journal.consent
      /\ journal'.policy = journal.policy /\ journal.phase = "IDLE" /\ vault # NoId
  BY <1>1 DEF Shape, GoodJournal, Journal, Rotate
<1>3. GoodJournal(journal') /\ Sendable(journal')
  BY <1>2 DEF Shape, Sendable, Sending, Mutations, PolicyPending
<1>4. ui'.j = journal' /\ wire' = wire \cup Sends(ledger, journal')
  <2>1. Send(journal') BY DEF Rotate
  <2> QED BY <1>3, <2>1, SendSends
<1>5. Creds(journal') \subseteq Held \cup {NoId, n}
  BY <1>2, HeldFacts DEF Creds
<1>6. \A c \in Held' : Known(ledger, c) => c \in Held
  BY <1>0, <1>4, <1>5, FreshHeld
<1>7. journal'.policy <= policy /\ journal'.consent <= policy /\ 0 <= policy
  BY <1>2, BoundsAreNat DEF QueueInv, Published, Shape, Server, TypeOK
<1>8. Sent(ledger, journal').op \notin ConsentOps /\ Sent(ledger, journal').policy \in {0, journal'.consent}
  BY <1>2, <1>3, SentPolicy DEF Consenting
<1>9. \A m \in wire' : m \in wire \/ m.policy <= policy
  BY <1>4, <1>7, <1>8 DEF Sends
<1>10. EnrolsWithNothing'
  BY <1>2, <1>4 DEF EnrolsWithNothing
<1>11. ConsentCalls(ledger)' \subseteq ConsentCalls(ledger)
  <2>1. ConsentCalls(ledger)' = {m \in wire' \cup Sends(ledger, journal') \cup Sends(ledger, ui'.j) : m.op \in ConsentOps}
    BY <1>0 DEF ConsentCalls, Sends, Sent, SentBy
  <2>2. \A m \in wire : m.op \in ConsentOps => m \in ConsentCalls(ledger)
    BY DEF ConsentCalls
  <2>3. \A m \in Sends(ledger, journal') : m.op \notin ConsentOps
    BY <1>8 DEF Sends
  <2> QED BY <1>4, <2>1, <2>2, <2>3
<1>12. ASSUME NEW u, NEW d, Covers(ledger, u, d)' PROVE Covers(ledger, u, d)
  <2>1. Covers(ledger, u, d)' =
          \/ \E r \in rows' : r.under = u /\ r.dev = d
          \/ worker'.at \in Collecting /\ worker'.under = u /\ ledger[worker'.cred].device = d
          \/ \E k \in {journal', ui'.j}, c \in Held' :
               Vouches(ledger, k) /\ k.consent = u /\ Known(ledger, c) /\ ledger[c].device = d
    BY <1>0 DEF Covers, Vouches, Known, Carries, Sent, SentBy
  <2>2. Vouches(ledger, journal') => Vouches(ledger, journal)
    BY <1>2 DEF Vouches, Carries, Consenting
  <2> QED BY <1>0, <1>2, <1>4, <1>6, <1>12, <2>1, <2>2 DEF Covers
<1> QED BY <1>0, <1>4, <1>6, <1>7, <1>9, <1>10, <1>11, <1>12, PhoneKeepsQueue

LEMMA TapsAgree ==
  ASSUME Shape, Shape', SentInv, GateInv, QueueInv, StillInv', Taps PROVE QueueInv'
<1>0. UNCHANGED <<serverVars, worker, rows, vault>>
  BY TapsQueue
  DEF Taps, PairSame, PairFresh, Retry, Accept, Rotate, Withdraw, RetryRevocation, ResetRevokedDevice, Look
<1>1. /\ UNCHANGED <<ledger, receipt, policy>>
      /\ GoodJournal(journal) /\ journal \in Journal
  BY <1>0 DEF serverVars, dbVars, credVars, deviceVars, policyVars, Shape, GoodJournal
<1>2. ASSUME Adopts(journal'), Adopts(ui'.j), wire' \subseteq wire \cup Sends(ledger, ui'.j)
      PROVE  QueueInv'
  BY <1>0, <1>1, <1>2, QuietQueue
<1>3. ASSUME Send(journal), Sendable(journal), journal' = journal PROVE QueueInv'
  BY <1>1, <1>2, <1>3, SendSends, QuietAdopts
<1>4. CASE PairSame \/ RetryRevocation
  BY <1>3, <1>4 DEF PairSame, RetryRevocation, NoStorageChange, Sendable, Sending, Mutations, PolicyPending
<1>5. ASSUME NEW k \in Codes, PairFresh(k) PROVE QueueInv'
  <2> DEFINE b == [Blank EXCEPT !.code = k]
  <2>1. /\ b.boot = NoId /\ b.prop = NoId /\ b.op = NoId /\ b.phase = "IDLE" /\ b.consent = 0
        /\ b.policy = 0
    BY DEF Blank
  <2>2. ui'.j = b /\ UNCHANGED <<journal, wire>>
    BY <1>5 DEF PairFresh, NoStorageChange
  <2> HIDE DEF b
  <2>3. Adopts(b)
    BY <2>1, BoundsAreNat DEF Adopts, Carries, Creds, Consenting, Shape, Server, TypeOK
  <2> QED BY <1>2, <2>2, <2>3, QuietAdopts
<1>6. CASE Retry
  <2>1. /\ Resume(journal) /\ journal.phase \in Mutations \cup PolicyPending /\ journal' = journal
    BY <1>6 DEF Retry, NoStorageChange
  <2> QED BY <1>1, <1>2, <2>1, ResumeSends, QuietAdopts
<1>7. CASE Accept
  <2>1. CASE /\ journal.phase \in {"ACTIVATION_PENDING", "RECONSENT_PENDING"}
             /\ Send(journal) /\ UNCHANGED <<journal, drawn>>
    BY <1>3, <2>1 DEF Sendable, Sending, Mutations, PolicyPending
  <2> QED BY <1>0, <1>1, <1>7, <2>1, AcceptQueue DEF Accept, Ready
<1>8. CASE Withdraw
  <2>1. CASE journal.phase = "REVOKE_PENDING" /\ vault # NoId
    BY <1>2, <1>8, <2>1, QuietAdopts DEF Withdraw, GoWith
  <2>2. CASE ~(journal.phase = "REVOKE_PENDING" /\ vault # NoId)
    <3>1. PICK n \in Fresh :
            /\ journal' = [(IF vault = NoId THEN Blank ELSE journal) EXCEPT
                             !.phase = "REVOKE_PENDING", !.req = n, !.op = vault]
            /\ GoWith("closeR", journal')
      BY <1>8, <2>2 DEF Withdraw
    <3>2. ui'.j = journal' /\ wire' = wire
      BY <1>8, <3>1 DEF GoWith, Withdraw
    <3>3. PICK b \in {Blank, journal} :
            journal' = [b EXCEPT !.phase = "REVOKE_PENDING", !.req = n, !.op = vault]
      BY <3>1
    <3>4. b \in Journal
      BY <1>1, <3>3, BlankGood DEF GoodJournal
    <3>5. /\ journal'.phase = "REVOKE_PENDING" /\ journal'.op = vault
          /\ journal'.boot = b.boot /\ journal'.prop = b.prop
          /\ journal'.policy = b.policy /\ journal'.consent = b.consent
      BY <3>3, <3>4 DEF Journal
    <3>6. /\ b.boot \in Held \cup {NoId} /\ b.prop \in {NoId, journal.prop}
          /\ b.policy \in {0, journal.policy} /\ b.consent \in {0, journal.consent}
      BY <3>3, HeldFacts DEF Blank, Creds
    <3>7. Adopts(journal')
      <4>1. policy \in Nat /\ 0 <= policy
        BY BoundsAreNat DEF Shape, Server, TypeOK
      <4>2. journal.policy <= policy /\ journal.consent <= policy /\ journal.prop \in Held /\ vault \in Held
        BY HeldFacts DEF QueueInv, Published, Creds
      <4> QED BY <3>5, <3>6, <4>1, <4>2 DEF Adopts, Creds, Carries, Rotation, Consenting
    <3> QED BY <1>2, <3>2, <3>7
  <2> QED BY <2>1, <2>2
<1>9. CASE ResetRevokedDevice \/ Look
  <2>1. ui'.j = Blank /\ UNCHANGED <<journal, wire>>
    BY <1>9 DEF ResetRevokedDevice, Look, Done, NoUi, NoStorageChange
  <2> QED BY <1>2, <2>1, QuietAdopts
<1> QED BY <1>4, <1>5, <1>6, <1>7, <1>8, <1>9, RotateQueue DEF Taps

LEMMA AcknowledgedQueue ==
  ASSUME Shape, Shape', SentInv, QueueInv, StillInv', Acknowledged PROVE QueueInv'
<1>0. /\ UNCHANGED <<ledger, receipt, policy, rows, worker>>
      /\ policy \in Nat /\ 0 <= policy
  <2>1. UNCHANGED <<serverVars, rows, worker>>
    BY DEF Acknowledged
  <2> QED BY <2>1, BoundsAreNat DEF serverVars, dbVars, credVars, deviceVars, policyVars, Shape, Server, TypeOK
<1>1. ASSUME NEW at, Goto(at), UNCHANGED <<journal, wire>>, vault' \in {vault, NoId, ui.j.prop}
      PROVE  QueueInv'
  <2>1. ui'.j = ui.j
    BY <1>1 DEF Goto, Shape, GoodUi
  <2> QED BY <1>0, <1>1, <2>1, QuietAdopts, QuietQueue
<1>2. ui.j.phase \in Sending
  BY DEF Acknowledged, Shape, GoodUi, Fits
<1>3. CASE ui.j.phase = "ROTATION_PREPARE_PENDING"
  <2>1. PICK n \in Fresh : /\ journal' = [ui.j EXCEPT !.phase = "ROTATION_CONFIRM_PENDING", !.req = n]
                           /\ Send(journal') /\ vault' = vault
    BY <1>3 DEF Acknowledged
  <2>2. /\ journal'.phase = "ROTATION_CONFIRM_PENDING" /\ journal'.boot = ui.j.boot
        /\ journal'.prop = ui.j.prop /\ journal'.op = ui.j.op /\ journal'.consent = ui.j.consent
        /\ journal'.policy = ui.j.policy
    BY <2>1 DEF Journal, Shape, GoodUi
  <2>3. GoodJournal(journal') /\ Sendable(journal')
    BY <2>2 DEF Shape, Sendable, Sending, Mutations, PolicyPending
  <2>4. ui'.j = journal' /\ wire' = wire \cup Sends(ledger, journal')
    <3>1. Send(journal') BY <2>1
    <3> QED BY <2>3, <3>1, SendSends
  <2>5. Carries(journal') => Vouches(ledger, ui.j) /\ ui.j.consent = journal'.consent
    BY <1>3, <2>2 DEF Vouches, Carries, Rotation
  <2>6. Adopts(journal')
    BY <1>0, <2>2, <2>5, HeldFacts, AdoptsFields DEF Creds, Consenting
  <2> QED BY <1>0, <2>1, <2>4, <2>6, QuietQueue
<1>4. CASE ui.j.phase = "REDEEM_PENDING"
  BY <1>1, <1>4 DEF Acknowledged
<1>5. CASE ui.j.phase = "ACTIVATION_PENDING"
  BY <1>1, <1>5 DEF Acknowledged
<1>6. CASE ui.j.phase = "RECONSENT_PENDING"
  BY <1>1, <1>6 DEF Acknowledged
<1>7. CASE ui.j.phase = "ROTATION_CONFIRM_PENDING"
  BY <1>1, <1>7 DEF Acknowledged
<1>8. CASE ui.j.phase = "REVOKE_PENDING"
  BY <1>1, <1>8 DEF Acknowledged
<1> QED BY <1>2, <1>3, <1>4, <1>5, <1>6, <1>7, <1>8 DEF Sending, Mutations, PolicyPending

LEMMA PolicyFetchedQueue ==
  ASSUME Shape, Shape', QueueInv, StillInv', PolicyFetched PROVE QueueInv'
<1>0. /\ UNCHANGED <<ledger, receipt, policy, vault, rows, worker, wire>>
      /\ policy \in Nat /\ 0 <= policy /\ ui.j \in Journal /\ GoodJournal(ui.j)
  BY BoundsAreNat DEF PolicyFetched, serverVars, dbVars, credVars, deviceVars, policyVars,
                      Shape, Server, TypeOK, GoodUi, GoodJournal
<1>1. ui.j.phase \in PolicyPending \cup {"ACTIVATION_PENDING", "REDEEM_PENDING"}
  BY DEF Shape, GoodUi, Fits, PolicyFetched
<1>2. ASSUME Done, Adopts(journal') PROVE QueueInv'
  <2>1. ui'.j = Blank
    BY <1>2 DEF Done, NoUi
  <2> QED BY <1>0, <1>2, <2>1, QuietAdopts, QuietQueue
<1>3. ASSUME Done, journal'.phase \in Ready, journal'.boot = ui.j.boot, journal'.prop = ui.j.prop,
             journal'.op = ui.j.op, journal'.policy = policy, journal'.consent = ui.j.consent
      PROVE  QueueInv'
  <2>1. Adopts(journal')
    BY <1>0, <1>3, HeldFacts, AdoptsFields DEF Creds, Ready, Consenting, Carries, Rotation
  <2> QED BY <1>2, <1>3, <2>1
<1>4. CASE ui.j.phase = "REDEEM_PENDING"
  <2>1. /\ journal' = [ui.j EXCEPT !.phase = "DISCLOSURE_READY", !.req = NoId,
                         !.code = NoCode, !.policy = policy]
        /\ Done
    BY <1>4 DEF PolicyFetched
  <2>2. /\ journal'.phase = "DISCLOSURE_READY" /\ journal'.boot = ui.j.boot /\ journal'.op = ui.j.op
        /\ journal'.prop = ui.j.prop /\ journal'.policy = policy /\ journal'.consent = ui.j.consent
    BY <1>0, <2>1 DEF Journal
  <2> QED BY <1>3, <2>1, <2>2 DEF Ready
<1>5. CASE ui.j.phase = "ACTIVATION_POLICY_PENDING"
  <2>1. journal' = [ui.j EXCEPT !.phase = "DISCLOSURE_READY", !.policy = policy] /\ Done
    BY <1>5 DEF PolicyFetched
  <2>2. /\ journal'.phase = "DISCLOSURE_READY" /\ journal'.boot = ui.j.boot /\ journal'.op = ui.j.op
        /\ journal'.prop = ui.j.prop /\ journal'.policy = policy /\ journal'.consent = ui.j.consent
    BY <1>0, <2>1 DEF Journal
  <2> QED BY <1>3, <2>1, <2>2 DEF Ready
<1>6. CASE ui.j.phase = "RECONSENT_POLICY_PENDING"
  <2>1. journal' = [ui.j EXCEPT !.phase = "RECONSENT_READY", !.policy = policy] /\ Done
    BY <1>6 DEF PolicyFetched
  <2>2. /\ journal'.phase = "RECONSENT_READY" /\ journal'.boot = ui.j.boot /\ journal'.op = ui.j.op
        /\ journal'.prop = ui.j.prop /\ journal'.policy = policy /\ journal'.consent = ui.j.consent
    BY <1>0, <2>1 DEF Journal
  <2> QED BY <1>3, <2>1, <2>2 DEF Ready
<1>7. CASE ui.j.phase = "ACTIVATION_PENDING" /\ ui.j.consent # policy
  <2>1. /\ journal' = [Preflight(ui.j.prop) EXCEPT !.phase = "RECONSENT_READY", !.policy = policy]
        /\ Done
    BY <1>7 DEF PolicyFetched
  <2>2. ui.j.prop \in Ids
    BY <1>0, <1>7 DEF GoodJournal, Resumable
  <2>3. /\ Preflight(ui.j.prop) \in Journal /\ Preflight(ui.j.prop).boot = NoId
        /\ Preflight(ui.j.prop).prop = NoId /\ Preflight(ui.j.prop).op = ui.j.prop
        /\ Preflight(ui.j.prop).consent = 0
    BY <2>2, PreflightGood, Zero DEF GoodJournal, Preflight, Blank
  <2>4. /\ journal'.phase = "RECONSENT_READY" /\ journal'.boot = NoId /\ journal'.op = ui.j.prop
        /\ journal'.prop = NoId /\ journal'.policy = policy /\ journal'.consent = 0
    BY <2>1, <2>3 DEF Journal
  <2>5. Adopts(journal')
    BY <1>0, <2>4, HeldFacts, AdoptsFields DEF Creds, Consenting, Carries, Rotation
  <2> QED BY <1>2, <2>1, <2>5
<1>8. CASE ui.j.phase = "ACTIVATION_PENDING" /\ ui.j.consent = policy
  <2>1. Goto("clear") /\ journal' = journal
    BY <1>8 DEF PolicyFetched
  <2>2. ui'.j = ui.j
    BY <2>1 DEF Goto, Shape, GoodUi
  <2> QED BY <1>0, <2>1, <2>2, QuietAdopts, QuietQueue
<1> QED BY <1>1, <1>4, <1>5, <1>6, <1>7, <1>8 DEF PolicyPending

\* The consent the server recorded becomes the one the phone keeps.
LEMMA WriteIdleQueue ==
  ASSUME Shape, Shape', SentInv, QueueInv, StillInv', WriteIdle PROVE QueueInv'
<1>0. /\ UNCHANGED <<ledger, receipt, policy, vault, rows, worker, wire>>
      /\ policy \in Nat /\ 0 <= policy
  BY BoundsAreNat DEF WriteIdle, serverVars, dbVars, credVars, deviceVars, policyVars, Shape, Server, TypeOK
<1>1. /\ ui.at = "idling"
      /\ ui.j.phase \in {"RECONSENT_PENDING", "ROTATION_CONFIRM_PENDING", "ACTIVATION_PENDING"}
  BY DEF WriteIdle, Shape, GoodUi, Fits
<1>2. ledger[ui.j.req] = Sent(ledger, ui.j)
  BY <1>1, SentFacts DEF AckLabels, Sending, Mutations, PolicyPending
<1>3. /\ journal'.phase = "IDLE" /\ journal'.consent = ui.j.consent /\ journal'.policy = ui.j.policy
      /\ journal'.boot = NoId /\ journal'.prop = NoId /\ journal'.op = NoId
  BY DEF WriteIdle, ToIdle, Blank
<1>4. Carries(journal') => Vouches(ledger, ui.j) /\ ui.j.consent = journal'.consent
  BY <1>1, <1>2, <1>3 DEF Vouches, Carries, Rotation, Consenting
<1>5. Adopts(journal')
  BY <1>0, <1>3, <1>4, AdoptsFields DEF Consenting
<1>6. ui'.j \in {Blank, ui.j}
  BY DEF WriteIdle, Done, NoUi, Goto, Shape, GoodUi
<1> QED BY <1>0, <1>5, <1>6, QuietAdopts, QuietQueue

\* A new enrolment begins with an empty queue.
LEMMA JournalRedeemQueue ==
  ASSUME Shape, Shape', SentInv, EraseInv, QueueInv, StillInv', JournalRedeem PROVE QueueInv'
<1>0. /\ UNCHANGED <<ledger, receipt, policy, vault, rows, worker>>
      /\ policy \in Nat /\ 0 <= policy
  BY BoundsAreNat DEF JournalRedeem, serverVars, dbVars, credVars, deviceVars, policyVars, Shape, Server, TypeOK
<1>1. PICK n \in Fresh, d \in NewPhone :
        journal' = [Blank EXCEPT !.phase = "REDEEM_PENDING", !.req = n, !.boot = n,
                                 !.code = ui.j.code, !.dev = d]
  BY DEF JournalRedeem
<1>2. /\ journal'.phase = "REDEEM_PENDING" /\ journal'.boot = n /\ journal'.op = NoId
      /\ journal'.prop = NoId /\ journal'.policy = 0 /\ journal'.consent = 0
  <2>1. Blank \in Journal /\ Blank.op = NoId /\ Blank.prop = NoId /\ Blank.policy = 0 /\ Blank.consent = 0
    BY BlankGood DEF GoodJournal, Blank
  <2> QED BY <1>1, <2>1 DEF Journal
<1>3. /\ vault = NoId /\ worker.cred = NoId /\ rows = {}
      /\ worker.at \notin Collecting
  BY DEF JournalRedeem, EraseInv, WipeExcludesWorker, Collecting, WipeLabels
<1>4. GoodJournal(journal') /\ Sendable(journal')
  BY <1>2 DEF Shape, Sendable, Sending, Mutations, PolicyPending
<1>5. ui'.j = journal' /\ wire' = wire \cup Sends(ledger, journal')
  <2>1. Send(journal') BY DEF JournalRedeem
  <2> QED BY <1>4, <2>1, SendSends
<1>6. Creds(journal') \subseteq Held \cup {NoId, n}
  BY <1>2 DEF Creds
<1>7. ~Known(ledger, n) /\ Held' = {NoId, n}
  <2>1. Held' = {vault', worker'.cred} \cup Creds(journal') \cup Creds(ui'.j)
    BY DEF Held, Creds
  <2> QED BY <1>0, <1>2, <1>3, <1>5, <1>6, <2>1, FreshHeld DEF Creds
<1>8. \A c \in Held' : ~Known(ledger, c)
  BY <1>7, HeldFacts
<1>9. \A m \in wire' : m \in wire \/ m.policy <= policy
  BY <1>0, <1>2, <1>4, <1>5, SentPolicy DEF Sends
<1>10. EnrolsWithNothing'
  BY <1>0, <1>2, <1>3, <1>5 DEF EnrolsWithNothing
<1>11. ASSUME NEW u, NEW e, Covers(ledger, u, e)' PROVE FALSE
  <2>1. Covers(ledger, u, e)' =
          \/ \E r \in rows' : r.under = u /\ r.dev = e
          \/ worker'.at \in Collecting /\ worker'.under = u /\ ledger[worker'.cred].device = e
          \/ \E k \in {journal', ui'.j}, c \in Held' :
               Vouches(ledger, k) /\ k.consent = u /\ Known(ledger, c) /\ ledger[c].device = e
    BY <1>0 DEF Covers, Vouches, Known, Carries, Sent, SentBy
  <2> QED BY <1>0, <1>3, <1>8, <1>11, <2>1
<1>12. \A j \in {journal', ui'.j} : j.policy <= policy /\ j.consent <= policy
  BY <1>0, <1>2, <1>5
<1> QED BY <1>0, <1>3, <1>8, <1>9, <1>10, <1>11, <1>12, PhoneKeepsQueue

LEMMA UiAgree ==
  ASSUME Shape, Shape', SentInv, EraseInv, QueueInv, StillInv', UiSteps PROVE QueueInv'
<1>0. UNCHANGED <<serverVars, worker>> /\ rows' \in {rows, {}}
  BY UiQueues
  DEF UiSteps, Launch, Refresh, GiveUp, Acknowledged, RecoverFromConsentRequired, JournalPreflight,
      CloseGate, Purge, PolicyFetched, ClearJournal, WriteIdle, OpenGate, FinishRevocation,
      WipeVault, WipeJournal, WipeData, ForgetRevocation, JournalRedeem, NoStorageChange
<1>1. /\ UNCHANGED <<ledger, receipt, policy>>
      /\ policy \in Nat /\ 0 <= policy /\ GoodJournal(ui.j)
  BY <1>0, BoundsAreNat DEF serverVars, dbVars, credVars, deviceVars, policyVars, Shape, Server,
                            TypeOK, GoodUi, GoodJournal
<1>2. \A at : Goto(at) => ui'.j = ui.j
  BY DEF Goto, Shape, GoodUi
<1>3. Done => ui'.j = Blank
  BY DEF Done, NoUi
<1>4. ASSUME vault' \in {vault, NoId}, Adopts(journal'), Adopts(ui'.j),
             wire' \subseteq wire \cup Sends(ledger, ui'.j)
      PROVE  QueueInv'
  BY <1>0, <1>1, <1>4, QuietQueue
\* The journal is kept or left blank, the operation keeps its own or ends.
<1>5. ASSUME vault' \in {vault, NoId}, journal' \in {journal, Blank}, ui'.j \in {ui.j, Blank, journal},
             wire' \subseteq wire \cup Sends(ledger, ui'.j)
      PROVE  QueueInv'
  BY <1>4, <1>5, QuietAdopts
<1>7. CASE Launch
  <2>0. UNCHANGED <<vault, wire>> BY <1>7 DEF Launch
  <2>1. CASE RequiresPurge
    BY <1>5, <1>7, <2>0, <2>1 DEF Launch
  <2>2. CASE ~RequiresPurge /\ vault # NoId /\ journal.phase = "IDLE" /\ ~LocalConsent
    <3>1. journal' = Preflight(vault) /\ ui'.j = Preflight(vault)
      BY <1>7, <2>2 DEF Launch
    <3> QED BY <1>4, <2>0, <3>1, HeldFacts, QuietAdopts
  <2>3. CASE ~RequiresPurge /\ ~(vault # NoId /\ journal.phase = "IDLE" /\ ~LocalConsent)
    BY <1>5, <1>7, <2>0, <2>3 DEF Launch
  <2> QED BY <2>1, <2>2, <2>3
<1>8. CASE Refresh
  <2>0. UNCHANGED <<vault, journal>> BY <1>8 DEF Refresh
  <2>1. CASE ui.then = "resume" /\ ui.j.phase \in Mutations \cup PolicyPending
    <3>1. Resume(ui.j)
      BY <1>8, <2>1 DEF Refresh
    <3>2. ui'.j = ui.j /\ wire' \subseteq wire \cup Sends(ledger, ui.j)
      BY <1>1, <2>1, <3>1, ResumeSends
    <3> QED BY <1>5, <2>0, <3>2
  <2>2. CASE ~(ui.then = "resume" /\ ui.j.phase \in Mutations \cup PolicyPending)
    <3>1. ui'.j = Blank /\ wire' = wire
      BY <1>8, <2>2 DEF Refresh, NoUi
    <3> QED BY <1>5, <2>0, <3>1
  <2> QED BY <2>1, <2>2
<1>9. CASE GiveUp \/ OpenGate \/ FinishRevocation \/ ForgetRevocation
  BY <1>2, <1>3, <1>5, <1>9 DEF GiveUp, OpenGate, FinishRevocation, ForgetRevocation, NoStorageChange
<1>10. CASE RecoverFromConsentRequired
  <2>0. UNCHANGED <<vault, wire>> BY <1>10 DEF RecoverFromConsentRequired
  <2>1. CASE journal.phase = "ACTIVATION_PENDING"
    <3>1. /\ journal' = [journal EXCEPT !.phase = "ACTIVATION_POLICY_PENDING", !.req = NoId,
                           !.policy = 0, !.expected = 0, !.prop = NoId, !.consent = 0, !.op = NoId]
          /\ GoWith("close", journal')
      BY <1>10, <2>1 DEF RecoverFromConsentRequired
    <3>2. /\ journal'.phase = "ACTIVATION_POLICY_PENDING" /\ journal'.boot = journal.boot
          /\ journal'.op = NoId /\ journal'.prop = NoId /\ journal'.policy = 0 /\ journal'.consent = 0
      BY <3>1 DEF Shape, GoodJournal, Journal
    <3>3. Adopts(journal')
      BY <1>1, <3>2, HeldFacts, AdoptsFields DEF Creds, Consenting, Carries, Rotation
    <3>4. ui'.j = journal'
      BY <3>1 DEF GoWith
    <3> QED BY <1>4, <2>0, <3>3, <3>4
  <2>2. CASE journal.phase \in {"RECONSENT_PENDING", "ROTATION_PREPARE_PENDING"}
    <3>1. journal' = Preflight(Bearer(journal)) /\ ui'.j = journal'
      BY <1>10, <2>2 DEF RecoverFromConsentRequired, GoWith
    <3>2. Bearer(journal) \in Held
      BY HeldFacts DEF Bearer, Creds
    <3> QED BY <1>4, <2>0, <3>1, <3>2, QuietAdopts
  <2>3. CASE journal.phase \notin {"ACTIVATION_PENDING", "RECONSENT_PENDING", "ROTATION_PREPARE_PENDING"}
    BY <1>3, <1>5, <1>10, <2>0, <2>3 DEF RecoverFromConsentRequired
  <2> QED BY <2>1, <2>2, <2>3
<1>11. CASE JournalPreflight
  <2>1. journal' = Preflight(ui.j.prop) /\ ui'.j = ui.j /\ UNCHANGED <<vault, wire>>
    BY <1>2, <1>11 DEF JournalPreflight
  <2>2. ui.j.prop \in Held
    BY HeldFacts DEF Creds
  <2> QED BY <1>4, <2>1, <2>2, QuietAdopts
<1>12. CASE CloseGate \/ ClearJournal
  BY <1>2, <1>5, <1>12 DEF CloseGate, ClearJournal
<1>13. CASE Purge
  <2>1. UNCHANGED <<journal, vault>> BY <1>13 DEF Purge
  <2>2. CASE ui.at = "purge"
    <3>1. ui'.j = ui.j /\ wire' = wire
      BY <1>2, <1>13, <2>2 DEF Purge, Shape, GoodUi
    <3> QED BY <1>5, <2>1, <3>1
  <2>3. CASE ui.at = "purgeR"
    <3>1. ui.j.phase = "REVOKE_PENDING"
      BY <2>3 DEF Shape, GoodUi, Fits
    <3>2. CASE ui.j.op = NoId
      BY <1>2, <1>5, <1>13, <2>1, <2>3, <3>2 DEF Purge
    <3>3. CASE ui.j.op # NoId
      <4>1. Send(ui.j) /\ Sendable(ui.j)
        BY <1>13, <2>3, <3>1, <3>3 DEF Purge, Sendable, Sending, Mutations, PolicyPending
      <4>2. ui'.j = ui.j /\ wire' = wire \cup Sends(ledger, ui.j)
        BY <1>1, <4>1, SendSends
      <4> QED BY <1>5, <2>1, <4>2
    <3> QED BY <3>2, <3>3
  <2> QED BY <1>13, <2>2, <2>3 DEF Purge
<1>14. CASE WipeVault \/ WipeJournal \/ WipeData
  BY <1>2, <1>5, <1>14 DEF WipeVault, WipeJournal, WipeData
<1> QED BY <1>7, <1>8, <1>9, <1>10, <1>11, <1>12, <1>13, <1>14, AcknowledgedQueue,
     PolicyFetchedQueue, WriteIdleQueue, JournalRedeemQueue DEF UiSteps

LEMMA WorkerAgree ==
  ASSUME Shape, Shape', SentInv, GateInv, QueueInv, StillInv', WorkerSteps PROVE QueueInv'
<1>0. /\ UNCHANGED <<ledger, receipt, policy, ui, wire>>
      /\ policy \in Nat /\ 0 <= policy /\ GoodWorker(worker) /\ GoodWorker(worker')
      /\ Blank.prop = NoId /\ Blank.policy = 0 /\ Blank.consent = 0 /\ Blank.phase = "IDLE"
  <2>1. UNCHANGED <<serverVars, ui, wire>>
    BY DEF WorkerSteps, WorkerStarts, Heartbeat, Scan, Enqueue, Upload, WorkerStops, DemandConsent,
           WorkerCloses, WorkerFetchesPolicy, WorkerErases, WorkerOnly
  <2> QED BY <2>1, BoundsAreNat DEF serverVars, dbVars, credVars, deviceVars, policyVars,
                                    Shape, Server, TypeOK, Blank
<1>1. /\ worker'.cred \in {worker.cred, vault, NoId} /\ vault' \in {vault, NoId}
      /\ \/ journal' \in {journal, Blank}
         \/ /\ journal'.op = worker.cred /\ journal'.boot = NoId /\ journal'.prop = NoId
            /\ journal'.phase \in {"RECONSENT_POLICY_PENDING", "RECONSENT_READY"}
  BY WorkerWrites
<1>2. \A c \in Held' : Known(ledger, c) => c \in Held
  <2>1. Creds(journal') \subseteq Held \cup {NoId} /\ Creds(ui'.j) \subseteq Held
    BY <1>0, <1>1, HeldFacts DEF Creds
  <2>2. Held' = {vault', worker'.cred} \cup Creds(journal') \cup Creds(ui'.j)
    BY DEF Held, Creds
  <2> QED BY <1>1, <2>1, <2>2, HeldFacts
<1>3. ASSUME NEW r \in rows', r \notin rows
      PROVE  /\ r.under = worker.under /\ worker.at = "enqueue"
             /\ r.dev = ledger[worker.cred].device /\ Known(ledger, worker.cred)
  <2>1. Enqueue
    BY <1>3, WhoQueues DEF PhoneNext
  <2>2. worker.at = "enqueue" /\ r = [dev |-> Home(worker.cred), under |-> worker.under, since |-> worker.since]
    BY <1>3, <2>1 DEF Enqueue
  <2>3. worker.cred \in Ids
    BY <1>0, <2>2 DEF GoodWorker, WipeLabels
  <2> QED BY <2>2, <2>3, SentFacts, ConstantsDistinct DEF Home
<1>4. \A r \in rows' : r \in rows \/ \A c \in Held : Known(ledger, c) => r.dev = ledger[c].device
  BY <1>3, HeldFacts DEF GateInv, OnePhone
<1>5. EnrolsWithNothing'
  <2> SUFFICES ASSUME NEW j \in {journal', ui'.j}, NEW k \in {journal', ui'.j}, j.phase = "REDEEM_PENDING"
               PROVE  vault' = NoId /\ worker'.cred = NoId /\ rows' = {} /\ k.prop = NoId
    BY DEF EnrolsWithNothing
  <2>1. j \in {journal, ui.j}
    BY <1>0, <1>1
  <2>2. vault = NoId /\ worker.cred = NoId /\ rows = {} /\ journal.prop = NoId /\ ui.j.prop = NoId
    BY <2>1 DEF QueueInv, EnrolsWithNothing
  <2>3. rows' = {}
    BY <1>3, <2>2, HeldFacts
  <2> QED BY <1>0, <1>1, <2>2, <2>3
<1>6. \A j \in {journal', ui'.j} : j.policy <= policy /\ j.consent <= policy
  BY <1>0, WorkerQueues DEF QueueInv, Published
<1>7. ConsentCalls(ledger)' \subseteq ConsentCalls(ledger)
  <2>1. ConsentCalls(ledger)' = {m \in wire' \cup Sends(ledger, journal') \cup Sends(ledger, ui'.j) : m.op \in ConsentOps}
    BY <1>0 DEF ConsentCalls, Sends, Sent, SentBy
  <2>2. journal' = journal \/ Sends(ledger, journal') = {}
    BY <1>0, <1>1 DEF Sends, Sendable, Sending, Mutations, PolicyPending
  <2> QED BY <1>0, <2>1, <2>2 DEF ConsentCalls
<1>8. ASSUME NEW u, NEW d, Covers(ledger, u, d)' PROVE Covers(ledger, u, d)
  <2>1. CASE \E r \in rows' : r.under = u /\ r.dev = d
    <3>1. PICK r \in rows' : r.under = u /\ r.dev = d
      BY <2>1
    <3>2. CASE r \in rows
      BY <3>1, <3>2 DEF Covers
    <3>3. CASE r \notin rows
      BY <1>3, <3>1, <3>3 DEF Covers, Collecting
    <3> QED BY <3>2, <3>3
  <2>2. CASE worker'.at \in Collecting /\ worker'.under = u /\ ledger[worker'.cred].device = d
    <3>1. CASE worker.at \in Collecting /\ worker'.under = worker.under /\ worker'.cred = worker.cred
      BY <2>2, <3>1 DEF Covers
    <3>2. CASE Carries(journal) /\ worker'.under = journal.consent /\ worker'.cred = vault
      <4>1. worker'.cred \in Ids
        BY <1>0, <2>2 DEF GoodWorker, Collecting, WipeLabels
      <4>2. Known(ledger, vault)
        BY <3>2, <4>1, SentFacts, ConstantsDistinct
      <4>3. vault \in Held /\ Vouches(ledger, journal)
        BY <3>2, HeldFacts DEF Vouches
      <4> QED BY <2>2, <3>2, <4>2, <4>3 DEF Covers
    <3> QED BY <2>2, <3>1, <3>2, WorkerQueues
  <2>3. ASSUME NEW j \in {journal', ui'.j}, NEW c \in Held',
               Vouches(ledger, j), j.consent = u, Known(ledger, c), ledger[c].device = d
        PROVE  Covers(ledger, u, d)
    <3>1. c \in Held
      BY <1>2, <2>3
    <3>2. j \in {journal, ui.j}
      BY <1>0, <1>1, <2>3 DEF Vouches, Carries, Consenting, Rotation
    <3> QED BY <2>3, <3>1, <3>2 DEF Covers
  <2>4. Covers(ledger, u, d)' =
          \/ \E r \in rows' : r.under = u /\ r.dev = d
          \/ worker'.at \in Collecting /\ worker'.under = u /\ ledger[worker'.cred].device = d
          \/ \E j \in {journal', ui'.j}, c \in Held' :
               Vouches(ledger, j) /\ j.consent = u /\ Known(ledger, c) /\ ledger[c].device = d
    BY <1>0 DEF Covers, Vouches, Known, Carries, Sent, SentBy
  <2> QED BY <1>8, <2>1, <2>2, <2>3, <2>4
<1> QED BY <1>0, <1>2, <1>4, <1>5, <1>6, <1>7, <1>8, PhoneKeepsQueue

\* What serving a request can do to a receipt.
LEMMA ServeReceipt ==
  ASSUME Shape, NEW m \in wire, Serve(m), NEW d \in Devices
  PROVE  /\ policy' = policy
         /\ \/ receipt'[d] \in {receipt[d], 0}
            \/ d = m.device /\ m.op \in ConsentOps /\ m.policy = policy /\ receipt'[d] = policy
         /\ \/ ledger[m.req] = m
            \/ m.op \in ConsentOps /\ m.device \in Devices =>
                 m.policy = policy /\ receipt'[m.device] = policy
<1>0. receipt \in [Devices -> 0..MaxPolicy] /\ GoodCall(m) /\ m.op \in Ops
  BY DEF Shape, Server, TypeOK, GoodCall
<1>1. CASE Recorded(m) /\ UNCHANGED dbVars
  <2>1. ledger[m.req] = m
    BY <1>1 DEF Recorded, Replays
  <2> QED BY <1>1, <2>1 DEF dbVars, deviceVars, policyVars
<1>2. CASE ~Recorded(m) /\ Transition(m)
  <2>1. CASE m.op = "redeem"
    BY <1>0, <1>2, <2>1 DEF Transition, RedeemTx, policyVars, ConsentOps
  <2>2. CASE m.op = "activate"
    BY <1>0, <1>2, <2>2 DEF Transition, ActivateTx, CanActivate, PolicyCurrent, policyVars, ConsentOps
  <2>3. CASE m.op = "reconsent"
    BY <1>0, <1>2, <2>3 DEF Transition, ReconsentTx, CanReconsent, PolicyCurrent, policyVars, ConsentOps
  <2>4. CASE m.op = "prepare"
    BY <1>0, <1>2, <2>4 DEF Transition, PrepareTx, deviceVars, policyVars, ConsentOps
  <2>5. CASE m.op = "confirm"
    BY <1>0, <1>2, <2>5 DEF Transition, ConfirmTx, deviceVars, policyVars, ConsentOps
  <2>6. CASE m.op = "revoke"
    BY <1>0, <1>2, <2>6 DEF Transition, RevokeTx, policyVars, ConsentOps
  <2> QED BY <1>0, <2>1, <2>2, <2>3, <2>4, <2>5, <2>6 DEF Ops, AuthOps
<1> QED BY <1>1, <1>2 DEF Serve

\* The credential behind an acceptance is one the phone holds and the server knows.
LEMMA ConsentBearer ==
  ASSUME Shape, SentInv, NEW j \in {journal, ui.j}, j.phase \in Consenting
  PROVE  \E b \in Held : Known(ledger, b) /\ b \in Creds(j) /\ Sent(ledger, j).device = ledger[b].device
<1>0. GoodJournal(j) /\ Made(ledger, j) /\ Creds(j) \subseteq Held
  BY SentFacts, HeldFacts
<1>1. CASE j.phase = "ACTIVATION_PENDING"
  <2>1. Known(ledger, j.boot) /\ j.boot \in Creds(j)
    BY <1>0, <1>1 DEF Made, NewSession, Creds
  <2>2. Sent(ledger, j).device = ledger[j.boot].device
    BY <1>1 DEF Sent, SentBy
  <2> QED BY <1>0, <2>1, <2>2
<1>2. CASE j.phase = "RECONSENT_PENDING"
  <2>1. Known(ledger, j.op) /\ j.op \in Creds(j)
    BY <1>0, <1>2, ConstantsDistinct DEF Made, GoodJournal, Resumable, ConsentPhases, Creds
  <2>2. Sent(ledger, j).device = ledger[j.op].device
    BY <1>2 DEF Sent, SentBy
  <2> QED BY <1>0, <2>1, <2>2
<1> QED BY <1>1, <1>2 DEF Consenting

\* No request asks for a policy not yet published.
LEMMA CallsPublished ==
  ASSUME Shape, QueueInv, NEW m \in ConsentCalls(ledger)
  PROVE  m.policy <= policy
<1>1. CASE m \in wire
  BY <1>1 DEF QueueInv, Published
<1>2. ASSUME NEW j \in {journal, ui.j}, m \in Sends(ledger, j) PROVE m.policy <= policy
  <2>1. GoodJournal(j) /\ Sendable(j) /\ m = Sent(ledger, j)
    BY <1>2 DEF Sends, Shape, GoodUi, GoodJournal
  <2>2. m.op \in ConsentOps => m.policy = j.consent
    BY <2>1, SentPolicy
  <2> QED BY <2>2 DEF QueueInv, Published, ConsentCalls
<1> QED BY <1>1, <1>2 DEF ConsentCalls

\* An acceptance is served only to a phone that holds nothing else, or holds what
\* was collected under that same policy.
LEMMA ServeAgree ==
  ASSUME Shape, Shape', SentInv, GateInv, GateInv', QueueInv, StillInv', NEW m \in wire, Serve(m)
  PROVE  QueueInv'
<1>1. GoodCall(m) /\ m.req \in Ids /\ m.op # "none"
  BY CallFields DEF Shape, GoodCall, Ops, AuthOps
<1>2. \/ ledger' = ledger /\ ledger[m.req] = m
      \/ ledger[m.req].op = "none" /\ ledger' = [ledger EXCEPT ![m.req] = m]
  BY <1>1, ServeKeeps DEF Shape
<1>3. ledger'[m.req] = m /\ \A i \in Ids \ {m.req} : ledger'[i] = ledger[i]
  BY <1>1, <1>2 DEF Shape, Server, TypeOK
<1>4. Grows(ledger, ledger')
  BY ServeSent
<1>5. /\ UNCHANGED <<journal, vault, worker, rows>> /\ ui'.j = ui.j /\ wire' \subseteq wire
      /\ Held' = Held
  <2>1. UNCHANGED <<journal, vault, worker, rows>> /\ ui'.j = ui.j /\ wire' \subseteq wire
    BY DEF Serve, Answered, Goto, Shape, GoodUi
  <2> QED BY <2>1 DEF Held, Creds
<1>6. \A c : Known(ledger, c) => Known(ledger', c) /\ ledger'[c] = ledger[c]
  BY <1>4 DEF Known, Grows
<1>7. \A c \in Held : Known(ledger', c) => Known(ledger, c) \/ (c = m.req /\ ~Known(ledger, c))
  BY <1>3 DEF Known
<1>8. \A j \in {journal, ui.j} : /\ GoodJournal(j) /\ Made(ledger, j)
                                 /\ Sends(ledger', j) = Sends(ledger, j)
                                 /\ Sendable(j) => Sent(ledger', j) = Sent(ledger, j)
  BY <1>4, SentFacts, SentStable
<1>9. policy' = policy
  BY ServeReceipt DEF SentInv, WireNamesPhone
\* Unless the newcomer is the first credential, it is of the same phone as another.
<1>10. ASSUME NEW c \in Held, c = m.req, ~Known(ledger, c)
       PROVE  \/ \E j \in {journal, ui.j} : j.phase = "REDEEM_PENDING" /\ c = j.boot
              \/ \E b \in Held : Known(ledger, b) /\ ledger'[c].device = ledger[b].device
  BY <1>1, <1>3, <1>10, Newcomer
<1>11. EnrolsWithNothing'
  BY <1>5 DEF QueueInv, EnrolsWithNothing
<1>12. Published'
  BY <1>5, <1>9 DEF QueueInv, Published
<1>13. QueueOfPhone(ledger)'
  <2> SUFFICES ASSUME NEW r \in rows, NEW c \in Held, Known(ledger', c)
               PROVE  r.dev = ledger'[c].device
    BY <1>5 DEF QueueOfPhone, Known
  <2>1. \A b \in Held : Known(ledger, b) => r.dev = ledger[b].device
    BY DEF QueueInv, QueueOfPhone
  <2>2. CASE \E j \in {journal, ui.j} : j.phase = "REDEEM_PENDING"
    BY <2>2 DEF QueueInv, EnrolsWithNothing
  <2> QED BY <1>6, <1>7, <1>10, <2>1, <2>2
<1>14. ConsentCalls(ledger)' \subseteq ConsentCalls(ledger)
  <2>1. ConsentCalls(ledger)' = {a \in wire' \cup Sends(ledger', journal) \cup Sends(ledger', ui.j) : a.op \in ConsentOps}
    BY <1>5 DEF ConsentCalls, Sends, Sendable, Sent, SentBy
  <2> QED BY <1>5, <1>8, <2>1 DEF ConsentCalls
<1>15. ASSUME NEW j \in {journal, ui.j}, Vouches(ledger', j), ~Vouches(ledger, j)
       PROVE  /\ j.phase \in Consenting /\ m = Sent(ledger, j) /\ ledger[m.req] # m
              /\ m.op \in ConsentOps /\ m.policy = j.consent
  <2>1. j.phase \in Consenting /\ ledger'[j.req] = Sent(ledger', j)
    BY <1>15 DEF Vouches
  <2>2. Sendable(j)
    BY <2>1 DEF Sendable, Sending, Mutations, PolicyPending, Consenting
  <2>3. ledger'[j.req] = Sent(ledger, j) /\ ledger[j.req] # Sent(ledger, j)
    BY <1>8, <1>15, <2>1, <2>2 DEF Vouches
  <2>4. j.req \in Ids
    BY <1>8, <2>1 DEF GoodJournal, Resumable, Consenting
  <2>5. j.req = m.req
    BY <1>3, <2>3, <2>4
  <2> QED BY <1>3, <1>8, <2>1, <2>2, <2>3, <2>5, SentPolicy
\* What was not covered before is covered by the acceptance now recorded.
<1>16. ASSUME NEW u, NEW d, Covers(ledger, u, d)', ~Covers(ledger, u, d)
       PROVE  ledger[m.req] # m /\ m.op \in ConsentOps /\ m.device = d /\ m.policy = u
  <2>1. \/ \E r \in rows : r.under = u /\ r.dev = d
        \/ worker.at \in Collecting /\ worker.under = u /\ ledger'[worker.cred].device = d
        \/ \E j \in {journal, ui.j}, c \in Held :
             Vouches(ledger', j) /\ j.consent = u /\ Known(ledger', c) /\ ledger'[c].device = d
    <3>1. Covers(ledger, u, d)' =
            \/ \E r \in rows' : r.under = u /\ r.dev = d
            \/ worker'.at \in Collecting /\ worker'.under = u /\ ledger'[worker'.cred].device = d
            \/ \E j \in {journal', ui'.j}, c \in Held' :
                 Vouches(ledger', j) /\ j.consent = u /\ Known(ledger', c) /\ ledger'[c].device = d
      BY DEF Covers, Vouches, Known, Carries, Sent, SentBy
    <3> QED BY <1>5, <1>16, <3>1
  <2>2. ~ \E r \in rows : r.under = u /\ r.dev = d
    BY <1>16 DEF Covers
  <2>3. ~ (worker.at \in Collecting /\ worker.under = u /\ ledger'[worker.cred].device = d)
    <3>1. worker.at \in Collecting => worker.cred \in Ids
      BY DEF Shape, GoodWorker, Collecting, WipeLabels
    <3>2. worker.at \in Collecting => Known(ledger, worker.cred)
      BY <3>1, SentFacts, ConstantsDistinct
    <3> QED BY <1>6, <1>16, <3>2 DEF Covers
  <2>4. PICK j \in {journal, ui.j}, c \in Held :
          Vouches(ledger', j) /\ j.consent = u /\ Known(ledger', c) /\ ledger'[c].device = d
    BY <2>1, <2>2, <2>3
  <2>5. ~Vouches(ledger, j)
    <3> SUFFICES ASSUME Vouches(ledger, j) PROVE FALSE
      OBVIOUS
    <3>1. \A b \in Held : Known(ledger, b) => ledger[b].device # d
      BY <1>16, <2>4 DEF Covers
    <3>2. c = m.req /\ ~Known(ledger, c)
      BY <1>6, <1>7, <2>4, <3>1
    <3>3. PICK k \in {journal, ui.j} : k.phase = "REDEEM_PENDING" /\ c = k.boot
      BY <1>10, <2>4, <3>1, <3>2
    <3>4. Held \subseteq {NoId, c} /\ ~Carries(j)
      BY <3>3 DEF GateInv, Redeeming
    <3>5. \E b \in Held : Known(ledger, b)
      BY <3>4, ConsentBearer DEF Vouches
    <3> QED BY <3>2, <3>4, <3>5, HeldFacts
  <2>6. /\ j.phase \in Consenting /\ m = Sent(ledger, j) /\ ledger[m.req] # m
        /\ m.op \in ConsentOps /\ m.policy = j.consent
    BY <1>15, <2>4, <2>5
  <2>7. PICK b \in Held : Known(ledger, b) /\ m.device = ledger[b].device
    BY <2>6, ConsentBearer
  <2>8. ledger'[b].device = ledger'[c].device
    <3>1. Known(ledger', b)
      BY <1>6, <2>7
    <3>2. \A x, y \in Held : Known(ledger', x) /\ Known(ledger', y) => ledger'[x].device = ledger'[y].device
      BY <1>5 DEF GateInv, OnePhone, Known
    <3> QED BY <2>4, <3>1, <3>2
  <2>9. ledger'[b] = ledger[b]
    BY <1>6, <2>7
  <2> QED BY <2>4, <2>6, <2>7, <2>8, <2>9
<1>17. ConsentsAgree(ledger)'
  <2> SUFFICES ASSUME NEW u \in 0..MaxPolicy, NEW d \in Devices, Covers(ledger, u, d)'
               PROVE  /\ u <= policy' /\ receipt'[d] \in {0, u}
                      /\ \A a \in ConsentCalls(ledger)' : a.device = d => a.policy <= u
    BY DEF ConsentsAgree
  <2>0. policy \in Nat
    BY BoundsAreNat DEF Shape, Server, TypeOK
  <2>1. CASE Covers(ledger, u, d)
    <3>1. /\ u <= policy /\ receipt[d] \in {0, u}
          /\ \A a \in ConsentCalls(ledger) : a.device = d => a.policy <= u
      BY <2>1 DEF QueueInv, ConsentsAgree
    <3>2. receipt'[d] \in {0, u}
      <4>1. CASE receipt'[d] \in {receipt[d], 0}
        BY <3>1, <4>1
      <4>2. CASE d = m.device /\ m.op \in ConsentOps /\ m.policy = policy /\ receipt'[d] = policy
        <5>1. m \in ConsentCalls(ledger)
          BY <4>2 DEF ConsentCalls
        <5>2. policy <= u /\ u <= policy
          BY <3>1, <4>2, <5>1
        <5>3. policy = u
          BY <2>0, <5>2
        <5> QED BY <4>2, <5>3
      <4> QED BY <4>1, <4>2, ServeReceipt
    <3> QED BY <1>9, <1>14, <3>1, <3>2
  <2>2. CASE ~Covers(ledger, u, d)
    <3>1. ledger[m.req] # m /\ m.op \in ConsentOps /\ m.device = d /\ m.policy = u
      BY <1>16, <2>2
    <3>2. u = policy /\ receipt'[d] = policy
      BY <3>1, ServeReceipt
    <3> QED BY <1>9, <1>14, <2>0, <3>2, CallsPublished
  <2> QED BY <2>1, <2>2
<1> QED BY <1>11, <1>12, <1>13, <1>17 DEF QueueInv

LEMMA WorldAgree ==
  ASSUME Shape, Shape', SentInv, GateInv, GateInv', QueueInv, StillInv',
         Crash \/ ServerSteps \/ \E m \in wire : Serve(m) \/ ServeStale(m) \/ Lose(m)
  PROVE  QueueInv'
<1>1. ASSUME UNCHANGED <<ledger, receipt, policy, journal, vault, rows>>, worker' \in {worker, NoWorker},
             ui'.j \in {ui.j, Blank}, wire' \subseteq wire
      PROVE  QueueInv'
  BY <1>1, QuietAdopts, QuietQueue
<1>2. CASE Crash
  <2>1. /\ UNCHANGED <<ledger, receipt, policy, journal, vault, rows, wire>> /\ ui'.j = Blank
        /\ worker' = NoWorker
    BY <1>2 DEF Crash, NoStorageChange, serverVars, dbVars, credVars, deviceVars, policyVars,
                NoUi, WorkerRests
  <2> QED BY <1>1, <2>1
<1>3. ASSUME NEW m \in wire, ServeStale(m) PROVE QueueInv'
  <2>1. /\ UNCHANGED <<ledger, receipt, policy, journal, vault, rows, worker>>
        /\ ui'.j = ui.j /\ wire' \subseteq wire
    BY <1>3 DEF ServeStale, Answered, dbVars, credVars, deviceVars, policyVars, Goto, Shape, GoodUi
  <2> QED BY <1>1, <2>1
<1>4. ASSUME NEW m \in wire, Lose(m) PROVE QueueInv'
  <2>1. /\ UNCHANGED <<ledger, receipt, policy, journal, vault, rows, worker, ui>>
        /\ wire' \subseteq wire
    BY <1>4 DEF Lose, serverVars, dbVars, credVars, deviceVars, policyVars, phoneVars
  <2> QED BY <1>1, <2>1
\* A policy is published, or a phone is revoked by an administrator.
<1>5. CASE ServerSteps
  <2>1. UNCHANGED <<ledger, journal, vault, rows, ui, worker, wire>>
    BY <1>5, ServerStepKeeps DEF Shape, ServerSteps, phoneVars
  <2>2. /\ policy' \in Nat /\ policy \in Nat /\ policy <= policy'
        /\ \A d \in Devices : receipt'[d] \in {receipt[d], 0}
    <3>0. policy \in Nat /\ receipt \in [Devices -> 0..MaxPolicy] /\ policy' \in Nat
      BY BoundsAreNat DEF Shape, Server, TypeOK
    <3>1. ASSUME NEW k \in Codes, NEW e \in Employees, CreatePairingCode(k, e)
          PROVE  UNCHANGED <<policy, receipt>>
      BY <3>1 DEF CreatePairingCode, deviceVars, policyVars
    <3>2. CASE PublishPolicy
      BY <3>0, <3>2 DEF PublishPolicy, deviceVars
    <3>3. ASSUME NEW c \in Ids, ExpireCredential(c) PROVE UNCHANGED <<policy, receipt>>
      BY <3>3 DEF ExpireCredential, deviceVars, policyVars
    <3>4. ASSUME NEW d \in Devices, AdminRevokeDevice(d)
          PROVE  policy' = policy /\ \A e \in Devices : receipt'[e] \in {receipt[e], 0}
      BY <3>0, <3>4 DEF AdminRevokeDevice, policyVars
    <3> QED BY <1>5, <3>0, <3>1, <3>2, <3>3, <3>4 DEF ServerSteps
  <2>3. EnrolsWithNothing'
    BY <2>1 DEF QueueInv, EnrolsWithNothing
  <2>4. Held' = Held
    BY <2>1 DEF Held, Creds
  <2>5. QueueOfPhone(ledger)'
    BY <2>1, <2>4 DEF QueueInv, QueueOfPhone, Known
  <2>6. Published'
    <3>1. \A p \in Nat : p <= policy => p <= policy'
      BY <2>2
    <3>2. \A j \in {journal, ui.j} : j.policy \in Nat /\ j.consent \in Nat
      BY BoundsAreNat DEF Shape, GoodUi, GoodJournal, Journal
    <3>3. \A m \in wire : m.policy \in Nat
      BY BoundsAreNat DEF Shape, GoodCall, Call
    <3> QED BY <2>1, <3>1, <3>2, <3>3 DEF QueueInv, Published
  <2>7. ConsentsAgree(ledger)'
    <3> SUFFICES ASSUME NEW u \in 0..MaxPolicy, NEW d \in Devices, Covers(ledger, u, d)'
                 PROVE  /\ u <= policy' /\ receipt'[d] \in {0, u}
                        /\ \A m \in ConsentCalls(ledger)' : m.device = d => m.policy <= u
      BY DEF ConsentsAgree
    <3>1. Covers(ledger, u, d) /\ ConsentCalls(ledger)' = ConsentCalls(ledger)
      <4>1. Covers(ledger, u, d)
        <5>1. /\ Vouches(ledger, journal)' <=> Vouches(ledger, journal)
              /\ Vouches(ledger, ui.j)' <=> Vouches(ledger, ui.j)
          BY <2>1 DEF Vouches, Carries, Sent, SentBy
        <5>2. \/ \E r \in rows : r.under = u /\ r.dev = d
              \/ worker.at \in Collecting /\ worker.under = u /\ ledger[worker.cred].device = d
              \/ /\ \/ Vouches(ledger, journal)' /\ journal.consent = u
                    \/ Vouches(ledger, ui.j)' /\ ui.j.consent = u
                 /\ \E c \in Held : Known(ledger, c) /\ ledger[c].device = d
          BY <2>1, <2>4 DEF Covers, Known
        <5> QED BY <5>1, <5>2 DEF Covers
      <4>2. ConsentCalls(ledger)' = ConsentCalls(ledger)
        BY <2>1 DEF ConsentCalls, Sends, Sent, SentBy
      <4> QED BY <4>1, <4>2
    <3>2. /\ u <= policy /\ receipt[d] \in {0, u}
          /\ \A m \in ConsentCalls(ledger) : m.device = d => m.policy <= u
      BY <3>1 DEF QueueInv, ConsentsAgree
    <3> QED BY <2>2, <3>1, <3>2
  <2> QED BY <2>3, <2>5, <2>6, <2>7 DEF QueueInv
<1> QED BY <1>2, <1>3, <1>4, <1>5, ServeAgree

LEMMA QueueInit == PhoneInit => QueueInv
<1> SUFFICES ASSUME PhoneInit PROVE QueueInv
  OBVIOUS
<1>1. /\ journal = Blank /\ ui.j = Blank /\ ui.at = "off" /\ vault = NoId /\ worker.cred = NoId
      /\ worker.at = "off" /\ rows = {} /\ wire = {} /\ policy = 0 /\ ~prefs.accepted
  BY DEF PhoneInit, Init, NoUi, NoWorker
<1>2. /\ Blank.boot = NoId /\ Blank.prop = NoId /\ Blank.op = NoId
      /\ Blank.phase = "IDLE" /\ Blank.consent = 0 /\ Blank.policy = 0
  BY DEF Blank
<1>3. \A c \in Held : ~Known(ledger, c)
  BY <1>1, <1>2, HeldFacts DEF Held
<1>4. StillInv
  BY <1>1, <1>2 DEF StillInv, FetchesStill, ReadyIsStill, ResetIsEmpty, Ready
<1>5. \A u, d : ~Covers(ledger, u, d)
  BY <1>1, <1>3 DEF Covers, Collecting
<1> QED BY <1>1, <1>2, <1>4, <1>5
     DEF QueueInv, EnrolsWithNothing, QueueOfPhone, Published, ConsentsAgree

LEMMA QueueStep ==
  Shape /\ SentInv /\ EraseInv /\ GateInv /\ QueueInv /\ [PhoneNext]_allVars => QueueInv'
<1> SUFFICES ASSUME Shape, SentInv, EraseInv, GateInv, QueueInv, [PhoneNext]_allVars PROVE QueueInv'
  OBVIOUS
<1>1. Shape' /\ GateInv' /\ StillInv'
  BY ShapeStep, GateStep, StillStep DEF QueueInv
<1>2. CASE UNCHANGED allVars
  <2>1. UNCHANGED <<ledger, receipt, policy, journal, vault, rows, ui, worker, wire>>
    BY <1>2 DEF allVars, phoneVars, serverVars, dbVars, credVars, deviceVars, policyVars
  <2> QED BY <1>1, <2>1, QuietAdopts, QuietQueue
<1> QED BY <1>1, <1>2, TapsAgree, UiAgree, WorkerAgree, WorldAgree DEF PhoneNext

\* Whatever the server accepts from a phone was collected by that phone under the
\* consent the server holds: no queue outlives an enrolment, and none is uploaded
\* under a consent given later, however crashes, late answers, rotations and policy
\* changes interleave with a running worker.
THEOREM UploadsUnderTheConsentHeld == PhoneSpec => []QueueBelongsToConsent
<1> DEFINE Inv == Shape /\ SentInv /\ EraseInv /\ GateInv /\ QueueInv /\ rows \subseteq Row
<1>1. PhoneInit => Inv
  BY ShapeInit, SentInit, EraseInit, GateInit, QueueInit DEF PhoneInit
<1>2. Inv /\ [PhoneNext]_allVars => Inv'
  BY ShapeStep, SentStep, EraseStep, GateStep, QueueStep, QueueTyped
<1>3. Inv => QueueBelongsToConsent
  <2> SUFFICES ASSUME Inv, worker.at = "upload", ~Refused(worker.cred), ~WantsConsent(worker.cred),
                      NEW r \in rows
               PROVE  r.dev = Home(worker.cred) /\ r.under = policy
    BY DEF QueueBelongsToConsent
  <2>1. Known(ledger, worker.cred) /\ worker.cred \in Held
    BY SentFacts, HeldFacts, ConstantsDistinct DEF Shape, GoodWorker, WipeLabels
  <2>2. r.dev = Home(worker.cred)
    BY <2>1 DEF QueueInv, QueueOfPhone, Home
  <2>3. r.dev \in Devices /\ r.under \in 0..MaxPolicy
    BY DEF Row
  <2>4. receipt[r.dev] \in {0, r.under}
    <3>1. Covers(ledger, r.under, r.dev)
      BY DEF Covers
    <3> QED BY <2>3, <3>1 DEF QueueInv, ConsentsAgree
  <2>5. receipt[r.dev] # 0 /\ receipt[r.dev] = policy
    BY <2>2 DEF Refused, WantsConsent, ConsentCurrent, PolicyCurrent
  <2> QED BY <2>2, <2>4, <2>5
<1> QED BY <1>1, <1>2, <1>3, PTL DEF PhoneSpec
===============================================================================
