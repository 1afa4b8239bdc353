------------------------- MODULE DeviceTrust_proofs --------------------------
(* Theorems about DeviceTrust for every set of employees, phones, codes and   *)
(* ids and every bound.                                                        *)
EXTENDS DeviceTrust, TLAPS

\* What the fields of a call range over.
LEMMA CallFields ==
  ASSUME NEW m \in Call
  PROVE  /\ m.op \in Ops \cup {"none"} /\ m.req \in Ids
         /\ m.cred \in Ids \cup {NoId} /\ m.prep \in Ids \cup {NoId}
         /\ m.code \in Codes \cup {NoCode} /\ m.device \in Devices \cup {NoDevice}
         /\ m.policy \in 0..MaxPolicy
BY DEF Call

LEMMA NoCallTyped == \A i \in Ids : NoCall(i) \in Call
BY BoundsAreNat DEF NoCall, Call

\* The two ways calls are made stay inside Call.
LEMMA CallsTyped ==
  ASSUME TypeOK
  PROVE  /\ \A i \in Ids, k \in Codes, d \in Devices :
              /\ RedeemCall(i, k, d) \in Call
              /\ RedeemCall(i, k, d).req = i /\ RedeemCall(i, k, d).op = "redeem"
              /\ RedeemCall(i, k, d).code = k /\ RedeemCall(i, k, d).device = d
              /\ RedeemCall(i, k, d).cred = NoId
         /\ \A op \in AuthOps, i, c \in Ids, p \in 0..MaxPolicy : AuthCall(op, i, c, p) \in Call
<1>2. \A c \in Ids : Home(c) \in Devices \cup {NoDevice}
  BY CallFields DEF TypeOK, Home
<1>3. ASSUME NEW i \in Ids, NEW k \in Codes, NEW d \in Devices
      PROVE  /\ RedeemCall(i, k, d) \in Call
             /\ RedeemCall(i, k, d).req = i /\ RedeemCall(i, k, d).op = "redeem"
             /\ RedeemCall(i, k, d).code = k /\ RedeemCall(i, k, d).device = d
             /\ RedeemCall(i, k, d).cred = NoId
  BY BoundsAreNat DEF RedeemCall, NoCall, Call, Ops
<1>4. ASSUME NEW op \in AuthOps, NEW i \in Ids, NEW c \in Ids, NEW p \in 0..MaxPolicy
      PROVE  AuthCall(op, i, c, p) \in Call
  BY <1>2 DEF AuthCall, Call, Ops
<1> QED BY <1>3, <1>4

LEMMA TypeInit == Init => TypeOK
<1> SUFFICES ASSUME Init PROVE TypeOK
  OBVIOUS
<1>1. ledger \in [Ids -> Call]
  BY NoCallTyped DEF Init
<1>2. receipt \in [Devices -> 0..MaxPolicy] /\ policy \in 0..MaxPolicy
  BY BoundsAreNat DEF Init
<1> QED BY <1>1, <1>2 DEF Init, TypeOK, CredStates

\* Authentication puts a well typed context in flight.
LEMMA AuthenticateTyped ==
  ASSUME TypeOK, NEW m \in Call, Authenticate(m)
  PROVE  inflight' \subseteq [call : Call, replay : BOOLEAN, consent : BOOLEAN]
<1> DEFINE X == [call : Call, replay : BOOLEAN, consent : BOOLEAN]
<1>1. ConsentCurrent(m.device) \in BOOLEAN
  BY DEF TypeOK, ConsentCurrent, PolicyCurrent
<1>2. /\ [call |-> m, replay |-> TRUE, consent |-> FALSE] \in X
      /\ [call |-> m, replay |-> FALSE, consent |-> ConsentCurrent(m.device)] \in X
  BY <1>1
<1>3. \E x \in X : inflight' = inflight \cup {x}
  BY <1>2 DEF Authenticate
<1> QED BY <1>3 DEF TypeOK

LEMMA TypeStep == TypeOK /\ [Next]_vars => TypeOK'
<1> SUFFICES ASSUME TypeOK, [Next]_vars PROVE TypeOK'
  OBVIOUS
<1> USE DEF TypeOK, codeVars, deviceVars, policyVars, credVars, dbVars
<1>1. ASSUME NEW k \in Codes, NEW e \in Employees, CreatePairingCode(k, e) PROVE TypeOK'
  BY <1>1 DEF CreatePairingCode
<1>2. ASSUME NEW k \in Codes, RevokePairingCode(k) \/ ExpireCode(k) PROVE TypeOK'
  BY <1>2 DEF RevokePairingCode, ExpireCode
<1>3. ASSUME NEW c \in Ids, ExpireCredential(c) PROVE TypeOK'
  BY <1>3 DEF ExpireCredential
<1>4. CASE PublishPolicy \/ RetirePolicy
  <2>1. policy' \in 0..MaxPolicy
    BY <1>4, BoundsAreNat DEF PublishPolicy, RetirePolicy
  <2> QED BY <1>4, <2>1 DEF PublishPolicy, RetirePolicy
<1>5. ASSUME NEW e \in Employees, SuspendEmployee(e) PROVE TypeOK'
  BY <1>5 DEF SuspendEmployee
<1>6. ASSUME NEW d \in Devices, AdminRevokeDevice(d) PROVE TypeOK'
  BY <1>6, BoundsAreNat DEF AdminRevokeDevice, WithoutLive, CredStates
<1>7. ASSUME NEW i \in Ids, NEW k \in Codes, NEW d \in Devices, Redeem(RedeemCall(i, k, d))
      PROVE TypeOK'
  BY <1>7, CallsTyped, BoundsAreNat DEF Redeem, RedeemTx, WithoutLive, CredStates
<1>8. ASSUME NEW op \in AuthOps, NEW i \in Ids, NEW c \in Ids, NEW p \in 0..MaxPolicy,
             Authenticate(AuthCall(op, i, c, p))
      PROVE TypeOK'
  BY <1>8, CallsTyped, AuthenticateTyped DEF Authenticate
<1>9. ASSUME NEW x \in inflight,
             Activate(x) \/ Reconsent(x) \/ Prepare(x) \/ Confirm(x) \/ Revoke(x) \/ Answer(x)
      PROVE TypeOK'
  <2>1. x.call \in Call OBVIOUS
  <2>2. CASE Activate(x)
    BY <2>1, <2>2, CallFields, BoundsAreNat DEF Activate, ActivateTx, Leave, CredStates
  <2>3. CASE Reconsent(x)
    BY <2>1, <2>3, CallFields DEF Reconsent, ReconsentTx, Leave
  <2>4. CASE Prepare(x)
    BY <2>1, <2>4, CallFields DEF Prepare, PrepareTx, Leave, CredStates
  <2>5. CASE Confirm(x)
    BY <2>1, <2>5, CallFields DEF Confirm, ConfirmTx, Leave, CredStates
  <2>6. CASE Revoke(x)
    <3>1. WithoutLive(x.call.device) \in [Ids -> CredStates]
      BY DEF WithoutLive, CredStates
    <3>2. ledger' \in [Ids -> Call]
      BY <2>1, <2>6 DEF Revoke, RevokeTx
    <3>4. receipt' \in [Devices -> 0..MaxPolicy]
      <4>1. 0 \in 0..MaxPolicy BY BoundsAreNat
      <4>2. receipt' = [receipt EXCEPT ![x.call.device] = 0] BY <2>6 DEF Revoke, RevokeTx
      <4> QED BY <4>1, <4>2
    <3>3. devStatus' \in [Devices -> {"none", "pending", "connected", "revoked"}]
      BY <2>6 DEF Revoke, RevokeTx
    <3> QED BY <2>6, <3>1, <3>2, <3>3, <3>4 DEF Revoke, RevokeTx, Leave
  <2>7. CASE Answer(x)
    BY <2>7 DEF Answer, Leave
  <2> QED BY <1>9, <2>2, <2>3, <2>4, <2>5, <2>6, <2>7
<1>10. CASE UNCHANGED vars
  BY <1>10 DEF vars
<1> QED BY <1>1, <1>2, <1>3, <1>4, <1>5, <1>6, <1>7, <1>8, <1>9, <1>10 DEF Next

\* Every reachable state of the trust database is well typed.
THEOREM TypeCorrect == Spec => []TypeOK
BY TypeInit, TypeStep, PTL DEF Spec

-------------------------------------------------------------------------------
\* Initially there is no credential at all.
LEMMA TrustInit == Init => TrustInv
<1> SUFFICES ASSUME Init PROVE TrustInv
  OBVIOUS
<1>1. TypeOK BY TypeInit
<1>2. \A c \in Ids : state[c] = "none" /\ ledger[c].op = "none"
  BY DEF Init, NoCall
<1>3. inflight = {} /\ ~inForce /\ \A d \in Devices : receipt[d] = 0
  BY DEF Init
<1> QED BY <1>1, <1>2, <1>3
     DEF TrustInv, CredentialShape, InflightShape, PolicyShape, OneLiveCredential,
         PendingKeepsItsSource, ConsentIffSession, HasActiveSession, Live

LEMMA RedeemKeeps ==
  ASSUME TrustInv, TypeOK', NEW i \in Ids, NEW k \in Codes, NEW d \in Devices,
         Redeem(RedeemCall(i, k, d))
  PROVE  TrustInv'
<1> USE DEF Home, From, IsSession, IsBootstrap, Live
<1>1. state[i] = "none" /\ ledger[i].op = "none"
  BY CallsTyped DEF TrustInv, TypeOK, CredentialShape, Redeem, RedeemTx, CanRedeem, Unused, RedeemCall
<1>2. /\ \A c \in Ids \ {i} : ledger'[c] = ledger[c]
      /\ ledger'[i] = RedeemCall(i, k, d)
  BY CallsTyped DEF TrustInv, TypeOK, Redeem, RedeemTx
<1>3. /\ ledger'[i].op = "redeem" /\ ledger'[i].device = d
  BY <1>2 DEF RedeemCall
<1>4. \A c \in Ids : state'[c] =
        IF c = i THEN "active"
        ELSE IF state[c] # "none" /\ Home(c) = d /\ state[c] \in Live THEN "revoked" ELSE state[c]
  BY DEF TrustInv, TypeOK, Redeem, RedeemTx, WithoutLive, CredsOf, RedeemCall
<1>5. /\ \A e \in Devices : receipt'[e] = IF e = d THEN 0 ELSE receipt[e]
      /\ inflight' = inflight /\ UNCHANGED policyVars
  BY DEF TrustInv, TypeOK, Redeem, RedeemTx, RedeemCall
<1>6. CredentialShape'
  BY <1>1, <1>2, <1>3, <1>4 DEF TrustInv, CredentialShape
<1>7. InflightShape'
  BY <1>1, <1>2, <1>3, <1>4, <1>5 DEF TrustInv, CredentialShape, InflightShape
<1>8. OneLiveCredential'
  BY <1>1, <1>2, <1>3, <1>4 DEF TrustInv, CredentialShape, OneLiveCredential
<1>9. PendingKeepsItsSource'
  BY <1>1, <1>2, <1>3, <1>4 DEF TrustInv, CredentialShape, PendingKeepsItsSource
<1>10. ConsentIffSession'
  BY <1>1, <1>2, <1>3, <1>4, <1>5
  DEF TrustInv, CredentialShape, ConsentIffSession, HasActiveSession
<1> QED BY <1>5, <1>6, <1>7, <1>8, <1>9, <1>10 DEF TrustInv, PolicyShape, policyVars

\* Steps that leave ledger, credentials and receipts alone.
LEMMA QuietKeeps ==
  ASSUME TrustInv, TypeOK', UNCHANGED <<ledger, state, receipt>>, InflightShape', PolicyShape'
  PROVE  TrustInv'
BY DEF TrustInv, CredentialShape, OneLiveCredential, PendingKeepsItsSource,
       ConsentIffSession, HasActiveSession, Home, From, IsSession, IsBootstrap, Live

\* A request that was answered leaves the requests in flight.
LEMMA LeaveKeeps ==
  ASSUME TypeOK, InflightShape, NEW x \in inflight, Leave(x),
         \A c \in Ids : state[c] # "none" => state'[c] # "none" /\ ledger'[c] = ledger[c]
  PROVE  InflightShape'
BY DEF InflightShape, Leave, Home

\* What an authenticated request is, from the invariant.
LEMMA InflightCall ==
  ASSUME TrustInv, NEW x \in inflight
  PROVE  /\ x.call \in Call /\ x.call.req \in Ids /\ x.call.cred \in Ids
         /\ x.call.op \in AuthOps
         /\ state[x.call.cred] # "none" /\ x.call.device = Home(x.call.cred)
         /\ x.call.device \in Devices
         /\ Unused(x.call.req) => state[x.call.req] = "none"
<1>1. x.call \in Call
  BY DEF TrustInv, TypeOK
<1> QED BY <1>1, CallFields DEF TrustInv, InflightShape, CredentialShape, Unused

LEMMA ActivateKeeps ==
  ASSUME TrustInv, TypeOK', NEW x \in inflight, Activate(x)
  PROVE  TrustInv'
<1> USE DEF Home, From, IsSession, IsBootstrap, Live
<1> DEFINE m == x.call
<1>0. /\ m \in Call /\ m.req \in Ids /\ m.cred \in Ids /\ m.device \in Devices
      /\ m.device = ledger[m.cred].device /\ m.op = "activate"
      /\ state[m.req] = "none" /\ ledger[m.req].op = "none"
      /\ state[m.cred] = "active" /\ ledger[m.cred].op = "redeem"
      /\ m.policy # 0 /\ receipt[m.device] = 0
  BY InflightCall DEF Activate, ActivateTx, CanActivate, Unused, PolicyCurrent, TrustInv, PolicyShape
<1>a. /\ state' = [state EXCEPT ![m.req] = "active", ![m.cred] = "consumed"]
      /\ receipt' = [receipt EXCEPT ![m.device] = m.policy] /\ ledger' = [ledger EXCEPT ![m.req] = m]
      /\ UNCHANGED policyVars
  BY DEF Activate, ActivateTx
<1>b. ledger \in [Ids -> Call] /\ state \in [Ids -> CredStates] /\ receipt \in [Devices -> 0..MaxPolicy]
  BY DEF TrustInv, TypeOK
<1> HIDE DEF m
<1>1. /\ \A c \in Ids \ {m.req} : ledger'[c] = ledger[c]
      /\ ledger'[m.req] = m
  BY <1>0, <1>a, <1>b
<1>2. \A c \in Ids : state'[c] = IF c = m.cred THEN "consumed"
                                 ELSE IF c = m.req THEN "active" ELSE state[c]
  BY <1>0, <1>a, <1>b
<1>3. /\ \A e \in Devices : receipt'[e] = IF e = m.device THEN m.policy ELSE receipt[e]
      /\ UNCHANGED policyVars
  BY <1>0, <1>a, <1>b
<1>4. CredentialShape'
  BY <1>0, <1>1, <1>2 DEF TrustInv, CredentialShape
<1>5. InflightShape'
  BY <1>0, <1>1, <1>2, LeaveKeeps DEF TrustInv, Activate
<1>6. OneLiveCredential'
  BY <1>0, <1>1, <1>2 DEF TrustInv, CredentialShape, OneLiveCredential
<1>7. PendingKeepsItsSource'
  BY <1>0, <1>1, <1>2 DEF TrustInv, CredentialShape, PendingKeepsItsSource
<1>8. ConsentIffSession'
  BY <1>0, <1>1, <1>2, <1>3 DEF TrustInv, CredentialShape, ConsentIffSession, HasActiveSession
<1> QED BY <1>3, <1>4, <1>5, <1>6, <1>7, <1>8 DEF TrustInv, PolicyShape, policyVars

LEMMA ReconsentKeeps ==
  ASSUME TrustInv, TypeOK', NEW x \in inflight, Reconsent(x)
  PROVE  TrustInv'
<1> USE DEF Home, From, IsSession, IsBootstrap, Live
<1> DEFINE m == x.call
<1>0. /\ m \in Call /\ m.req \in Ids /\ m.cred \in Ids /\ m.device \in Devices
      /\ m.device = ledger[m.cred].device /\ m.op = "reconsent"
      /\ state[m.req] = "none" /\ ledger[m.req].op = "none"
      /\ state[m.cred] = "active" /\ ledger[m.cred].op \in {"activate", "prepare"}
      /\ m.policy # 0
  BY InflightCall DEF Reconsent, ReconsentTx, CanReconsent, Unused, PolicyCurrent, TrustInv, PolicyShape
<1>1. /\ \A c \in Ids \ {m.req} : ledger'[c] = ledger[c]
      /\ ledger'[m.req] = m /\ state' = state
  BY <1>0 DEF TrustInv, TypeOK, Reconsent, ReconsentTx
<1>2. /\ \A e \in Devices : receipt'[e] = IF e = m.device THEN m.policy ELSE receipt[e]
      /\ UNCHANGED policyVars
  BY <1>0 DEF TrustInv, TypeOK, Reconsent, ReconsentTx
<1> HIDE DEF m
<1>3. CredentialShape' /\ OneLiveCredential' /\ PendingKeepsItsSource'
  BY <1>0, <1>1 DEF TrustInv, CredentialShape, OneLiveCredential, PendingKeepsItsSource
<1>4. InflightShape'
  BY <1>0, <1>1, LeaveKeeps DEF TrustInv, Reconsent
<1>5. ConsentIffSession'
  BY <1>0, <1>1, <1>2 DEF TrustInv, CredentialShape, ConsentIffSession, HasActiveSession
<1> QED BY <1>2, <1>3, <1>4, <1>5 DEF TrustInv, PolicyShape, policyVars

LEMMA PrepareKeeps ==
  ASSUME TrustInv, TypeOK', NEW x \in inflight, Prepare(x)
  PROVE  TrustInv'
<1> USE DEF Home, From, IsSession, IsBootstrap, Live
<1> DEFINE m == x.call
<1>0. /\ m \in Call /\ m.req \in Ids /\ m.cred \in Ids /\ m.device \in Devices
      /\ m.device = ledger[m.cred].device /\ m.op = "prepare"
      /\ state[m.req] = "none" /\ ledger[m.req].op = "none"
      /\ state[m.cred] = "active" /\ ledger[m.cred].op \in {"activate", "prepare"}
      /\ \A c \in Ids : state[c] = "pending" /\ ledger[c].device = m.device => expired[c]
  BY InflightCall DEF Prepare, PrepareTx, CanPrepare, Unused, CredsOf
<1>1. /\ \A c \in Ids \ {m.req} : ledger'[c] = ledger[c]
      /\ ledger'[m.req] = m
  BY <1>0 DEF TrustInv, TypeOK, Prepare, PrepareTx
<1>2. \A c \in Ids : state'[c] =
        IF c = m.req THEN "pending"
        ELSE IF ledger[c].device = m.device /\ state[c] = "pending" THEN "revoked" ELSE state[c]
  BY <1>0 DEF TrustInv, TypeOK, Prepare, PrepareTx, ExpiredPending, CredsOf
<1>3. UNCHANGED <<receipt, policyVars>>
  BY DEF Prepare, PrepareTx, deviceVars
<1> HIDE DEF m
<1>4. CredentialShape'
  BY <1>0, <1>1, <1>2 DEF TrustInv, CredentialShape
<1>5. InflightShape'
  BY <1>0, <1>1, <1>2, LeaveKeeps DEF TrustInv, Prepare
<1>6. OneLiveCredential'
  BY <1>0, <1>1, <1>2 DEF TrustInv, CredentialShape, OneLiveCredential
<1>7. PendingKeepsItsSource'
  BY <1>0, <1>1, <1>2 DEF TrustInv, CredentialShape, PendingKeepsItsSource
<1>8. ConsentIffSession'
  BY <1>0, <1>1, <1>2, <1>3 DEF TrustInv, CredentialShape, ConsentIffSession, HasActiveSession
<1> QED BY <1>3, <1>4, <1>5, <1>6, <1>7, <1>8 DEF TrustInv, PolicyShape, policyVars

LEMMA ConfirmKeeps ==
  ASSUME TrustInv, TypeOK', NEW x \in inflight, Confirm(x)
  PROVE  TrustInv'
<1> USE DEF Home, From, IsSession, IsBootstrap, Live
<1> DEFINE m == x.call
           s == ledger[x.call.cred].cred
<1>0. /\ m \in Call /\ m.req \in Ids /\ m.cred \in Ids /\ m.device \in Devices
      /\ m.device = ledger[m.cred].device /\ m.op = "confirm"
      /\ state[m.req] = "none" /\ ledger[m.req].op = "none"
      /\ state[m.cred] = "pending" /\ ledger[m.cred].op = "prepare"
      /\ s \in Ids /\ state[s] = "active" /\ ledger[s].op \in {"activate", "prepare"}
      /\ ledger[s].device = m.device
  BY InflightCall DEF Confirm, ConfirmTx, CanConfirm, Unused, TrustInv, CredentialShape
<1>a. /\ state' = [state EXCEPT ![s] = "revoked", ![m.cred] = "active"]
      /\ ledger' = [ledger EXCEPT ![m.req] = m]
  BY DEF Confirm, ConfirmTx
<1>b. ledger \in [Ids -> Call] /\ state \in [Ids -> CredStates]
  BY DEF TrustInv, TypeOK
<1>1. /\ \A c \in Ids \ {m.req} : ledger'[c] = ledger[c]
      /\ ledger'[m.req] = m
  BY <1>0, <1>a, <1>b
<1>2. \A c \in Ids : state'[c] = IF c = m.cred THEN "active"
                                 ELSE IF c = s THEN "revoked" ELSE state[c]
  BY <1>0, <1>a, <1>b
<1>3. UNCHANGED <<receipt, policyVars>>
  BY DEF Confirm, ConfirmTx, deviceVars
<1> HIDE DEF m, s
<1>4. CredentialShape'
  BY <1>0, <1>1, <1>2 DEF TrustInv, CredentialShape
<1>5. InflightShape'
  BY <1>0, <1>1, <1>2, LeaveKeeps DEF TrustInv, Confirm
<1>6. OneLiveCredential'
  BY <1>0, <1>1, <1>2 DEF TrustInv, CredentialShape, OneLiveCredential
<1>7. PendingKeepsItsSource'
  BY <1>0, <1>1, <1>2 DEF TrustInv, CredentialShape, PendingKeepsItsSource, OneLiveCredential
<1>8. ConsentIffSession'
  BY <1>0, <1>1, <1>2, <1>3
  DEF TrustInv, CredentialShape, ConsentIffSession, HasActiveSession, OneLiveCredential
<1> QED BY <1>3, <1>4, <1>5, <1>6, <1>7, <1>8 DEF TrustInv, PolicyShape, policyVars

\* Trust in a phone is withdrawn: by its session, or by an administrator.
LEMMA WithdrawKeeps ==
  ASSUME TrustInv, TypeOK', InflightShape', NEW d \in Devices,
         state' = WithoutLive(d), receipt' = [receipt EXCEPT ![d] = 0], UNCHANGED policyVars,
         \A c \in Ids : /\ state[c] # "none" => ledger'[c] = ledger[c]
                        /\ state[c] = "none" => ledger'[c].op \notin {"redeem", "activate", "prepare"}
  PROVE  TrustInv'
<1> USE DEF Home, From, IsSession, IsBootstrap, Live
<1>1. \A c \in Ids : state'[c] =
        IF state[c] \in Live /\ ledger[c].device = d THEN "revoked" ELSE state[c]
  BY DEF WithoutLive, CredsOf
<1>2. \A e \in Devices : receipt'[e] = IF e = d THEN 0 ELSE receipt[e]
  BY DEF TrustInv, TypeOK
<1>3. \A c \in Ids : ledger'[c].op = "prepare" => state[c] # "none"
  OBVIOUS
<1>4. CredentialShape'
  BY <1>1, <1>3 DEF TrustInv, CredentialShape
<1>5. OneLiveCredential' /\ PendingKeepsItsSource'
  BY <1>1 DEF TrustInv, OneLiveCredential, PendingKeepsItsSource, CredentialShape
<1>6. ConsentIffSession'
  BY <1>1, <1>2 DEF TrustInv, CredentialShape, ConsentIffSession, HasActiveSession
<1> QED BY <1>4, <1>5, <1>6 DEF TrustInv, PolicyShape, policyVars

LEMMA RevokeKeeps ==
  ASSUME TrustInv, TypeOK', NEW x \in inflight, Revoke(x)
  PROVE  TrustInv'
<1> DEFINE m == x.call
<1>1. /\ m.req \in Ids /\ m.device \in Devices /\ m.op = "revoke" /\ state[m.req] = "none"
  BY InflightCall DEF Revoke, RevokeTx, CanRevoke
<1>2. /\ \A c \in Ids \ {m.req} : ledger'[c] = ledger[c]
      /\ ledger'[m.req] = m
  BY <1>1 DEF TrustInv, TypeOK, Revoke, RevokeTx
<1>3. \A c \in Ids : state[c] # "none" => state'[c] # "none"
  BY DEF Revoke, RevokeTx, WithoutLive
<1>4. InflightShape'
  BY <1>1, <1>2, <1>3, LeaveKeeps DEF TrustInv, Revoke
<1>5. \A c \in Ids : /\ state[c] # "none" => ledger'[c] = ledger[c]
                     /\ state[c] = "none" => ledger'[c].op \notin {"redeem", "activate", "prepare"}
  BY <1>1, <1>2 DEF TrustInv, CredentialShape
<1> QED BY <1>1, <1>4, <1>5, WithdrawKeeps DEF Revoke, RevokeTx

LEMMA AdminRevokeKeeps ==
  ASSUME TrustInv, TypeOK', NEW d \in Devices, AdminRevokeDevice(d)
  PROVE  TrustInv'
<1>1. InflightShape'
  BY DEF AdminRevokeDevice, WithoutLive, TrustInv, InflightShape, credVars, Home
<1>2. \A c \in Ids : /\ state[c] # "none" => ledger'[c] = ledger[c]
                     /\ state[c] = "none" => ledger'[c].op \notin {"redeem", "activate", "prepare"}
  BY DEF AdminRevokeDevice, TrustInv, CredentialShape
<1> QED BY <1>1, <1>2, WithdrawKeeps DEF AdminRevokeDevice

LEMMA AuthenticateKeeps ==
  ASSUME TrustInv, TypeOK', NEW op \in AuthOps, NEW i \in Ids, NEW c \in Ids, NEW p \in 0..MaxPolicy,
         Authenticate(AuthCall(op, i, c, p))
  PROVE  TrustInv'
<1> DEFINE m == AuthCall(op, i, c, p)
<1>1. m.op \in AuthOps /\ m.cred \in Ids /\ state[m.cred] # "none" /\ m.device = Home(m.cred)
  BY DEF AuthCall, Authenticate
<1>2. \A x \in inflight' : x \in inflight \/ x.call = m
  BY DEF Authenticate
<1>3. UNCHANGED <<ledger, state, receipt, policyVars>>
  BY DEF Authenticate, dbVars, credVars, deviceVars
<1> HIDE DEF m
<1>4. InflightShape'
  BY <1>1, <1>2, <1>3 DEF TrustInv, InflightShape, Home
<1>5. PolicyShape'
  BY <1>3 DEF TrustInv, PolicyShape, policyVars
<1> QED BY <1>3, <1>4, <1>5, QuietKeeps

LEMMA TrustStep == TrustInv /\ [Next]_vars => TrustInv'
<1> SUFFICES ASSUME TrustInv, [Next]_vars PROVE TrustInv'
  OBVIOUS
<1> USE DEF codeVars, deviceVars, policyVars, credVars, dbVars
<1>0. TypeOK'
  BY TypeStep DEF TrustInv
<1>1. ASSUME UNCHANGED <<ledger, state, receipt, inflight>>, PolicyShape' PROVE TrustInv'
  <2>1. InflightShape'
    BY <1>1 DEF TrustInv, InflightShape, Home
  <2> QED BY <1>0, <1>1, <2>1, QuietKeeps
<1>2. ASSUME UNCHANGED <<ledger, state, receipt, inflight, policyVars>> PROVE TrustInv'
  BY <1>1, <1>2 DEF TrustInv, PolicyShape
<1>3. ASSUME NEW k \in Codes,
             (\E e \in Employees : CreatePairingCode(k, e)) \/ RevokePairingCode(k) \/ ExpireCode(k)
      PROVE TrustInv'
  BY <1>2, <1>3 DEF CreatePairingCode, RevokePairingCode, ExpireCode
<1>4. ASSUME NEW c \in Ids, ExpireCredential(c) PROVE TrustInv'
  BY <1>2, <1>4 DEF ExpireCredential
<1>5. CASE PublishPolicy
  <2>1. PolicyShape'
    BY <1>5 DEF PublishPolicy, PolicyShape, TrustInv, TypeOK
  <2> QED BY <1>1, <1>5, <2>1 DEF PublishPolicy
<1>6. CASE RetirePolicy
  <2>1. PolicyShape'
    BY <1>6 DEF RetirePolicy, PolicyShape, TrustInv, TypeOK
  <2> QED BY <1>1, <1>6, <2>1 DEF RetirePolicy
<1>7. ASSUME NEW e \in Employees, SuspendEmployee(e) PROVE TrustInv'
  BY <1>2, <1>7 DEF SuspendEmployee
<1>8. ASSUME NEW d \in Devices, AdminRevokeDevice(d) PROVE TrustInv'
  BY <1>0, <1>8, AdminRevokeKeeps
<1>9. ASSUME NEW i \in Ids, NEW k \in Codes, NEW d \in Devices, Redeem(RedeemCall(i, k, d))
      PROVE TrustInv'
  BY <1>0, <1>9, RedeemKeeps
<1>10. ASSUME NEW op \in AuthOps, NEW i \in Ids, NEW c \in Ids, NEW p \in 0..MaxPolicy,
              Authenticate(AuthCall(op, i, c, p))
       PROVE TrustInv'
  BY <1>0, <1>10, AuthenticateKeeps
<1>11. ASSUME NEW x \in inflight,
              Activate(x) \/ Reconsent(x) \/ Prepare(x) \/ Confirm(x) \/ Revoke(x)
       PROVE TrustInv'
  BY <1>0, <1>11, ActivateKeeps, ReconsentKeeps, PrepareKeeps, ConfirmKeeps, RevokeKeeps
<1>12. ASSUME NEW x \in inflight, Answer(x) PROVE TrustInv'
  <2>1. InflightShape'
    BY <1>12, LeaveKeeps DEF TrustInv, Answer
  <2>2. PolicyShape'
    BY <1>12 DEF TrustInv, PolicyShape, Answer
  <2> QED BY <1>0, <1>12, <2>1, <2>2, QuietKeeps DEF Answer
<1>13. CASE UNCHANGED vars
  BY <1>2, <1>13 DEF vars
<1> QED BY <1>3, <1>4, <1>5, <1>6, <1>7, <1>8, <1>9, <1>10, <1>11, <1>12, <1>13 DEF Next

\* The inductive invariant: types, credentials that agree with the ledger, at most one of each
\* standing, pending sessions with their source, consent that follows the session.
THEOREM TrustInvariant == Spec => []TrustInv
BY TrustInit, TrustStep, PTL DEF Spec

\* No interleaving of re-pairings, activations, rotations, revocations and
\* suspensions leaves a phone with two active or two pending credentials.  The
\* unique index on active sessions is not an assumption of the proof.
THEOREM CredentialsExclusive == Spec => []OneLiveCredential
<1>1. TrustInv => OneLiveCredential
  BY DEF TrustInv
<1> QED BY <1>1, TrustInvariant, PTL

\* A rotation waiting for its confirmation always has its active source session.
THEOREM RotationHasSource == Spec => []PendingKeepsItsSource
<1>1. TrustInv => PendingKeepsItsSource
  BY DEF TrustInv
<1> QED BY <1>1, TrustInvariant, PTL

\* A consent receipt is in force exactly while the phone has an active session.
THEOREM ConsentMatchesSession == Spec => []ConsentIffSession
<1>1. TrustInv => ConsentIffSession
  BY DEF TrustInv
<1> QED BY <1>1, TrustInvariant, PTL

-------------------------------------------------------------------------------
\* What no step undoes about a credential.
Final(c) == /\ state[c] \in {"consumed", "revoked"} => state'[c] = state[c]
            /\ state[c] = "active" => state'[c] # "pending"
            /\ state[c] # "none" => ledger'[c] = ledger[c]

LEMMA FinalStep ==
  ASSUME TrustInv, [Next]_vars, NEW c \in Ids
  PROVE  Final(c)
<1> USE DEF codeVars, deviceVars, policyVars, credVars, dbVars, Final
<1>1. ASSUME UNCHANGED <<ledger, state>> PROVE Final(c)
  BY <1>1
<1>2. ASSUME NEW d \in Devices, AdminRevokeDevice(d) PROVE Final(c)
  BY <1>2 DEF AdminRevokeDevice, WithoutLive, Live
<1>3. ASSUME NEW i \in Ids, NEW k \in Codes, NEW d \in Devices, Redeem(RedeemCall(i, k, d))
      PROVE Final(c)
  <2>1. state[i] = "none"
    BY <1>3 DEF Redeem, RedeemTx, CanRedeem, RedeemCall, Unused, TrustInv, CredentialShape
  <2> QED BY <1>3, <2>1
       DEF Redeem, RedeemTx, RedeemCall, WithoutLive, Live, TrustInv, TypeOK
<1>4. ASSUME NEW x \in inflight,
             Activate(x) \/ Reconsent(x) \/ Prepare(x) \/ Confirm(x) \/ Revoke(x)
      PROVE Final(c)
  <2> DEFINE m == x.call
  <2>1. m.req \in Ids /\ m.cred \in Ids /\ state[m.req] = "none"
    BY <1>4, InflightCall
    DEF Activate, ActivateTx, CanActivate, Reconsent, ReconsentTx, CanReconsent, Prepare,
        PrepareTx, CanPrepare, Confirm, ConfirmTx, CanConfirm, Revoke, RevokeTx, CanRevoke
  <2>2. CASE Activate(x)
    BY <2>1, <2>2 DEF Activate, ActivateTx, CanActivate, TrustInv, TypeOK
  <2>3. CASE Reconsent(x)
    BY <2>1, <2>3 DEF Reconsent, ReconsentTx, TrustInv, TypeOK
  <2>4. CASE Prepare(x)
    BY <2>1, <2>4 DEF Prepare, PrepareTx, ExpiredPending, TrustInv, TypeOK
  <2>5. CASE Confirm(x)
    BY <2>1, <2>5 DEF Confirm, ConfirmTx, CanConfirm, TrustInv, TypeOK
  <2>6. CASE Revoke(x)
    BY <2>1, <2>6 DEF Revoke, RevokeTx, WithoutLive, Live, TrustInv, TypeOK
  <2> QED BY <1>4, <2>2, <2>3, <2>4, <2>5, <2>6
<1> QED BY <1>1, <1>2, <1>3, <1>4
     DEF Next, vars, CreatePairingCode, RevokePairingCode, ExpireCode, ExpireCredential,
         PublishPolicy, RetirePolicy, SuspendEmployee, Authenticate, Answer

\* A consumed or revoked credential is never live again, an active one never
\* waits again, and the request behind a credential is never rewritten.
THEOREM RetirementIsFinal == Spec => RetiredStaysRetired
<1>1. TrustInv /\ [Next]_vars => [\A c \in Ids : Final(c)]_vars
  BY FinalStep
<1> QED BY <1>1, TrustInvariant, PTL DEF Spec, RetiredStaysRetired, Final

-------------------------------------------------------------------------------
\* What a phone's status rests on: an open code names an employee, and the phones
\* of a suspended employee are revoked.
CodeShape == \A k \in Codes : codeState[k] = "open" => codeFor[k] \in Employees
PausedIsRevoked ==
  \A d \in Devices :
    owner[d] \in Employees /\ empStatus[owner[d]] = "paused" => devStatus[d] = "revoked"
StatusInv == CodeShape /\ PausedIsRevoked /\ StatusAgreesWithCredential

LEMMA StatusInit == Init => StatusInv
<1> SUFFICES ASSUME Init PROVE StatusInv
  OBVIOUS
<1>1. /\ \A k \in Codes : codeState[k] = "none"
      /\ \A d \in Devices : owner[d] = NoEmployee
      /\ \A c \in Ids : state[c] = "none"
  BY DEF Init
<1> QED BY <1>1, ConstantsDistinct DEF StatusInv, CodeShape, PausedIsRevoked, StatusAgreesWithCredential

\* Steps that make no credential active and disturb no code, owner or status.
LEMMA StatusQuiet ==
  ASSUME StatusInv, UNCHANGED <<owner, devStatus, empStatus, codeFor>>,
         \A k \in Codes : codeState'[k] = "open" => codeState[k] = "open",
         \A c \in Ids : state'[c] = "active" => state[c] = "active" /\ ledger'[c] = ledger[c]
  PROVE  StatusInv'
BY DEF StatusInv, CodeShape, PausedIsRevoked, StatusAgreesWithCredential, Home, IsSession

LEMMA CreateCodeKeepsStatus ==
  ASSUME TrustInv, StatusInv, NEW k \in Codes, NEW e \in Employees, CreatePairingCode(k, e)
  PROVE  StatusInv'
<1>1. CodeShape'
  BY DEF CreatePairingCode, StatusInv, CodeShape, TrustInv, TypeOK
<1>2. UNCHANGED <<empStatus, owner, devStatus, state, ledger>>
  BY DEF CreatePairingCode, deviceVars, credVars
<1> QED BY <1>1, <1>2
     DEF StatusInv, PausedIsRevoked, StatusAgreesWithCredential, Home, IsSession

LEMMA SuspendKeepsStatus ==
  ASSUME TrustInv, StatusInv, NEW e \in Employees, SuspendEmployee(e)
  PROVE  StatusInv'
<1>1. /\ \A f \in Employees : empStatus'[f] = IF f = e THEN "paused" ELSE empStatus[f]
      /\ \A d \in Devices : devStatus'[d] = IF owner[d] = e THEN "revoked" ELSE devStatus[d]
      /\ UNCHANGED <<owner, codeState, codeFor, state, ledger>>
  BY DEF SuspendEmployee, TrustInv, TypeOK, codeVars, credVars
<1>2. \A c \in Ids : state[c] = "active" => Home(c) \in Devices
  BY DEF TrustInv, CredentialShape
<1> QED BY <1>1, <1>2
     DEF StatusInv, CodeShape, PausedIsRevoked, StatusAgreesWithCredential, Home, IsSession

LEMMA RedeemKeepsStatus ==
  ASSUME TrustInv, StatusInv, NEW i \in Ids, NEW k \in Codes, NEW d \in Devices,
         Redeem(RedeemCall(i, k, d))
  PROVE  StatusInv'
<1>1. /\ codeFor[k] \in Employees /\ empStatus[codeFor[k]] # "paused"
      /\ \A c \in Codes : codeState'[c] = IF c = k THEN "consumed" ELSE codeState[c]
      /\ \A e \in Devices : owner'[e] = IF e = d THEN codeFor[k] ELSE owner[e]
      /\ \A e \in Devices : devStatus'[e] = IF e = d THEN "pending" ELSE devStatus[e]
      /\ UNCHANGED <<codeFor, empStatus>>
  BY DEF Redeem, RedeemTx, CanRedeem, Eligible, RedeemCall, StatusInv, CodeShape, TrustInv, TypeOK
<1>2. /\ \A c \in Ids \ {i} : ledger'[c] = ledger[c]
      /\ ledger'[i].op = "redeem" /\ ledger'[i].device = d
  BY DEF Redeem, RedeemTx, RedeemCall, TrustInv, TypeOK
<1>3. \A c \in Ids \ {i} : state'[c] = "active" => state[c] = "active" /\ ledger[c].device # d
  BY DEF Redeem, RedeemTx, RedeemCall, WithoutLive, CredsOf, Live, Home, TrustInv, TypeOK
<1>4. \A c \in Ids : state[c] = "active" => Home(c) \in Devices
  BY DEF TrustInv, CredentialShape
<1>5. CodeShape' /\ PausedIsRevoked'
  BY <1>1 DEF StatusInv, CodeShape, PausedIsRevoked
<1>6. StatusAgreesWithCredential'
  BY <1>1, <1>2, <1>3, <1>4 DEF StatusInv, StatusAgreesWithCredential, Home, IsSession
<1> QED BY <1>5, <1>6 DEF StatusInv

LEMMA ActivateKeepsStatus ==
  ASSUME TrustInv, TrustInv', StatusInv, NEW x \in inflight, Activate(x)
  PROVE  StatusInv'
<1> DEFINE m == x.call
           o == owner[x.call.device]
<1>1. /\ m.req \in Ids /\ m.cred \in Ids /\ m.device \in Devices /\ m.op = "activate"
      /\ m.device = ledger[m.cred].device /\ state[m.cred] = "active"
      /\ state[m.req] = "none" /\ o = owner[m.device] /\ o \in Employees /\ empStatus[o] # "paused"
  BY InflightCall
  DEF Activate, ActivateTx, CanActivate, Eligible, StatusInv, StatusAgreesWithCredential, Home
<1>0. /\ state' = [state EXCEPT ![m.req] = "active", ![m.cred] = "consumed"] /\ ledger' = [ledger EXCEPT ![m.req] = m]
      /\ devStatus' = [devStatus EXCEPT ![m.device] = "connected"] /\ empStatus' = [empStatus EXCEPT ![o] = "active"]
      /\ UNCHANGED <<owner, codeFor, codeState>>
  BY DEF Activate, ActivateTx, codeVars
<1>a. /\ state \in [Ids -> CredStates] /\ ledger \in [Ids -> Call]
      /\ devStatus \in [Devices -> {"none", "pending", "connected", "revoked"}]
      /\ empStatus \in [Employees -> {"invited", "active", "paused"}]
  BY DEF TrustInv, TypeOK
<1> HIDE DEF m, o
<1>2. /\ \A c \in Ids \ {m.req} : ledger'[c] = ledger[c]
      /\ ledger'[m.req] = m
  BY <1>0, <1>1, <1>a
<1>3. /\ \A c \in Ids : state'[c] = "active" => c = m.req \/ state[c] = "active"
      /\ state'[m.req] = "active"
  BY <1>0, <1>1, <1>a
<1>4. /\ \A e \in Employees : empStatus'[e] = IF e = o THEN "active" ELSE empStatus[e]
      /\ \A d \in Devices : devStatus'[d] = IF d = m.device THEN "connected" ELSE devStatus[d]
      /\ UNCHANGED <<owner, codeFor, codeState>>
  BY <1>0, <1>1, <1>a
<1>5. CodeShape' /\ PausedIsRevoked'
  BY <1>1, <1>4 DEF StatusInv, CodeShape, PausedIsRevoked
<1>6. ASSUME NEW c \in Ids, state'[c] = "active", c # m.req
      PROVE  ledger[c].device \in Devices /\ ledger[c].device # m.device
  BY <1>1, <1>2, <1>3, <1>6 DEF TrustInv, CredentialShape, OneLiveCredential, Live, Home
<1>7. StatusAgreesWithCredential'
  BY <1>1, <1>2, <1>3, <1>4, <1>6 DEF StatusInv, StatusAgreesWithCredential, Home, IsSession
<1> QED BY <1>5, <1>7 DEF StatusInv

LEMMA ConfirmKeepsStatus ==
  ASSUME TrustInv, StatusInv, NEW x \in inflight, Confirm(x)
  PROVE  StatusInv'
<1> DEFINE m == x.call
           s == ledger[x.call.cred].cred
<1>1. /\ m.req \in Ids /\ m.cred \in Ids /\ state[m.req] = "none"
      /\ ledger[m.cred].op = "prepare" /\ s \in Ids /\ state[s] = "active"
      /\ ledger[s].op \in {"activate", "prepare"} /\ ledger[s].device = ledger[m.cred].device
  BY InflightCall
  DEF Confirm, ConfirmTx, CanConfirm, TrustInv, CredentialShape, From, Home, IsSession
<1>2. \A c \in Ids : state'[c] = "active" => c = m.cred \/ state[c] = "active"
  BY <1>1 DEF TrustInv, TypeOK, Confirm, ConfirmTx
<1>3. \A c \in Ids \ {m.req} : ledger'[c] = ledger[c]
  BY <1>1 DEF TrustInv, TypeOK, Confirm, ConfirmTx
<1>4. state'[m.req] = "none"
  BY <1>1 DEF TrustInv, TypeOK, Confirm, ConfirmTx, CanConfirm, From
<1>5. UNCHANGED <<codeState, codeFor, owner, devStatus, empStatus>>
  BY DEF Confirm, ConfirmTx, deviceVars, codeVars
<1> HIDE DEF m, s
<1>6. CodeShape' /\ PausedIsRevoked'
  BY <1>5 DEF StatusInv, CodeShape, PausedIsRevoked
<1>7. StatusAgreesWithCredential'
  BY <1>1, <1>2, <1>3, <1>4, <1>5 DEF StatusInv, StatusAgreesWithCredential, Home, IsSession
<1> QED BY <1>6, <1>7 DEF StatusInv

\* Trust is withdrawn from phone d: it has no active credential left.
LEMMA WithdrawKeepsStatus ==
  ASSUME TrustInv, StatusInv, NEW d \in Devices, [Next]_vars,
         state' = WithoutLive(d), devStatus' = [devStatus EXCEPT ![d] = "revoked"],
         UNCHANGED <<owner, empStatus, codeState, codeFor>>
  PROVE  StatusInv'
<1>1. /\ \A e \in Devices : devStatus'[e] = IF e = d THEN "revoked" ELSE devStatus[e]
      /\ \A c \in Ids : state'[c] = "active" =>
           state[c] = "active" /\ ledger'[c] = ledger[c] /\ ledger[c].device # d
  BY FinalStep DEF Final, TrustInv, TypeOK, WithoutLive, CredsOf, Live, Home
<1>2. \A c \in Ids : state[c] = "active" => Home(c) \in Devices
  BY DEF TrustInv, CredentialShape
<1>3. CodeShape' /\ PausedIsRevoked'
  BY <1>1 DEF StatusInv, CodeShape, PausedIsRevoked
<1>4. StatusAgreesWithCredential'
  BY <1>1, <1>2 DEF StatusInv, StatusAgreesWithCredential, Home, IsSession
<1> QED BY <1>3, <1>4 DEF StatusInv

LEMMA StatusStep ==
  ASSUME TrustInv, TrustInv', StatusInv, [Next]_vars
  PROVE  StatusInv'
<1> USE DEF codeVars, deviceVars, policyVars, credVars, dbVars
<1>0. \A c \in Ids : state[c] = "active" => ledger'[c] = ledger[c]
  BY FinalStep DEF Final
<1>1. ASSUME UNCHANGED <<state, owner, devStatus, empStatus, codeFor>>,
             \A k \in Codes : codeState'[k] = "open" => codeState[k] = "open"
      PROVE  StatusInv'
  BY <1>0, <1>1, StatusQuiet
<1>2. ASSUME NEW k \in Codes, NEW e \in Employees, CreatePairingCode(k, e) PROVE StatusInv'
  BY <1>2, CreateCodeKeepsStatus
<1>3. ASSUME NEW k \in Codes, RevokePairingCode(k) \/ ExpireCode(k) PROVE StatusInv'
  BY <1>1, <1>3 DEF RevokePairingCode, ExpireCode, TrustInv, TypeOK
<1>4. CASE \/ PublishPolicy \/ RetirePolicy \/ \E c \in Ids : ExpireCredential(c)
           \/ \E x \in inflight : Answer(x)
           \/ \E op \in AuthOps, i, c \in Ids, p \in 0..MaxPolicy : Authenticate(AuthCall(op, i, c, p))
  BY <1>1, <1>4 DEF PublishPolicy, RetirePolicy, ExpireCredential, Answer, Authenticate
<1>5. ASSUME NEW e \in Employees, SuspendEmployee(e) PROVE StatusInv'
  BY <1>5, SuspendKeepsStatus
<1>6. ASSUME NEW d \in Devices, AdminRevokeDevice(d) PROVE StatusInv'
  BY <1>6, WithdrawKeepsStatus DEF AdminRevokeDevice
<1>7. ASSUME NEW i \in Ids, NEW k \in Codes, NEW d \in Devices, Redeem(RedeemCall(i, k, d))
      PROVE  StatusInv'
  BY <1>7, RedeemKeepsStatus
<1>8. ASSUME NEW x \in inflight,
             Activate(x) \/ Reconsent(x) \/ Prepare(x) \/ Confirm(x) \/ Revoke(x)
      PROVE  StatusInv'
  <2>1. CASE Activate(x)
    BY <2>1, ActivateKeepsStatus
  <2>2. CASE Reconsent(x)
    BY <1>1, <2>2 DEF Reconsent, ReconsentTx
  <2>3. CASE Prepare(x)
    <3>1. \A c \in Ids : state'[c] = "active" => state[c] = "active"
      BY <2>3, InflightCall DEF Prepare, PrepareTx, TrustInv, TypeOK
    <3> QED BY <1>0, <2>3, <3>1, StatusQuiet DEF Prepare, PrepareTx
  <2>4. CASE Confirm(x)
    BY <2>4, ConfirmKeepsStatus
  <2>5. CASE Revoke(x)
    BY <2>5, InflightCall, WithdrawKeepsStatus DEF Revoke, RevokeTx
  <2> QED BY <1>8, <2>1, <2>2, <2>3, <2>4, <2>5
<1>9. CASE UNCHANGED vars
  BY <1>1, <1>9 DEF vars
<1> QED BY <1>2, <1>3, <1>4, <1>5, <1>6, <1>7, <1>8, <1>9 DEF Next

LEMMA StatusInvariant == Spec => [](TrustInv /\ StatusInv)
<1>1. Init => TrustInv /\ StatusInv
  BY TrustInit, StatusInit
<1>2. TrustInv /\ StatusInv /\ [Next]_vars => (TrustInv /\ StatusInv)'
  BY TrustStep, StatusStep
<1> QED BY <1>1, <1>2, PTL DEF Spec

\* The status an administrator sees for a phone is the one its credential stands for, or
\* "revoked" because its employee is suspended, whatever re-pairings and rotations overlap.
THEOREM StatusIsHonest == Spec => []StatusAgreesWithCredential
<1>1. StatusInv => StatusAgreesWithCredential
  BY DEF StatusInv
<1> QED BY <1>1, StatusInvariant, PTL

\* What a step may do to a phone whose employee is suspended, and to a revoked phone.
Silenced(d) ==
  /\ devStatus'[d] = "revoked"
  /\ receipt'[d] \in {receipt[d], 0}
  /\ \A c \in Ids : state'[c] = "active" /\ ledger'[c].device = d => state[c] = "active"
Repaired(d) ==
  /\ devStatus'[d] = "pending"
  /\ \E k \in Codes : codeState[k] = "open" /\ codeState'[k] = "consumed"

LEMMA SuspensionStep ==
  ASSUME TrustInv, StatusInv, Next, NEW d \in Devices,
         owner[d] \in Employees, empStatus[owner[d]] = "paused"
  PROVE  Silenced(d)
<1> USE DEF codeVars, deviceVars, policyVars, credVars, dbVars
<1>0. devStatus[d] = "revoked"
  BY DEF StatusInv, PausedIsRevoked
<1>1. ASSUME UNCHANGED <<state, receipt, devStatus>> PROVE Silenced(d)
  BY <1>0, <1>1 DEF Silenced
<1>2. ASSUME NEW e \in Employees, SuspendEmployee(e) PROVE Silenced(d)
  BY <1>0, <1>2 DEF SuspendEmployee, Silenced
<1>3. ASSUME NEW e \in Devices, AdminRevokeDevice(e) PROVE Silenced(d)
  BY <1>0, <1>3 DEF AdminRevokeDevice, WithoutLive, Silenced, TrustInv, TypeOK
<1>4. ASSUME NEW i \in Ids, NEW k \in Codes, NEW e \in Devices, Redeem(RedeemCall(i, k, e))
      PROVE  Silenced(d)
  <2>1. e # d
    BY <1>4, ConstantsDistinct DEF Redeem, RedeemTx, CanRedeem, Eligible, RedeemCall
  <2>2. receipt'[d] = receipt[d] /\ devStatus'[d] = devStatus[d]
    BY <1>4, <2>1 DEF Redeem, RedeemTx, RedeemCall, TrustInv, TypeOK
  <2>3. ledger'[i].device = e /\ \A c \in Ids \ {i} : state'[c] = "active" => state[c] = "active"
    BY <1>4 DEF Redeem, RedeemTx, RedeemCall, WithoutLive, TrustInv, TypeOK
  <2> QED BY <1>0, <2>1, <2>2, <2>3 DEF Silenced
<1>5. ASSUME NEW x \in inflight,
             Activate(x) \/ Reconsent(x) \/ Prepare(x) \/ Confirm(x) \/ Revoke(x)
      PROVE  Silenced(d)
  <2> DEFINE m == x.call
  <2>1. m.req \in Ids /\ m.cred \in Ids /\ m.device \in Devices /\ m.device = ledger[m.cred].device
    BY InflightCall DEF Home
  <2>2. CASE Activate(x)
    <3>1. m.device # d
      BY <2>2 DEF Activate, ActivateTx, CanActivate, Eligible
    <3>2. ledger'[m.req].device = m.device /\ \A c \in Ids \ {m.req} : state'[c] = "active" => state[c] = "active"
      BY <2>1, <2>2 DEF Activate, ActivateTx, TrustInv, TypeOK
    <3>3. receipt'[d] = receipt[d] /\ devStatus'[d] = devStatus[d]
      BY <2>1, <2>2, <3>1 DEF Activate, ActivateTx, TrustInv, TypeOK
    <3> QED BY <1>0, <3>1, <3>2, <3>3 DEF Silenced
  <2>3. CASE Reconsent(x)
    BY <1>0, <2>1, <2>3 DEF Reconsent, ReconsentTx, CanReconsent, Silenced, TrustInv, TypeOK
  <2>4. CASE Prepare(x)
    BY <1>0, <2>1, <2>4 DEF Prepare, PrepareTx, Silenced, TrustInv, TypeOK
  <2>5. CASE Confirm(x)
    <3>1. m.device # d /\ state[m.req] = "none" /\ m.req # m.cred /\ m.req # From(m.cred)
      BY <2>1, <2>5, InflightCall DEF Confirm, ConfirmTx, CanConfirm
    <3>2. /\ ledger'[m.cred].device = m.device
          /\ \A c \in Ids \ {m.cred} : state'[c] = "active" => state[c] = "active"
      BY <2>1, <2>5, <3>1 DEF Confirm, ConfirmTx, TrustInv, TypeOK
    <3> QED BY <1>0, <2>5, <3>1, <3>2 DEF Confirm, ConfirmTx, Silenced
  <2>6. CASE Revoke(x)
    BY <1>0, <2>1, <2>6 DEF Revoke, RevokeTx, WithoutLive, Silenced, TrustInv, TypeOK
  <2> QED BY <1>5, <2>2, <2>3, <2>4, <2>5, <2>6
<1> QED BY <1>1, <1>2, <1>3, <1>4, <1>5
     DEF Next, CreatePairingCode, RevokePairingCode, ExpireCode, ExpireCredential,
         PublishPolicy, RetirePolicy, Authenticate, Answer

LEMMA RepairStep ==
  ASSUME TrustInv, StatusInv, Next, NEW d \in Devices,
         devStatus[d] = "revoked", devStatus'[d] # "revoked"
  PROVE  Repaired(d)
<1> USE DEF codeVars, deviceVars, policyVars, credVars, dbVars
<1>1. PICK i \in Ids, k \in Codes, e \in Devices : Redeem(RedeemCall(i, k, e))
  <2>1. ASSUME NEW e \in Employees, SuspendEmployee(e) PROVE FALSE
    BY <2>1 DEF SuspendEmployee
  <2>2. ASSUME NEW e \in Devices, AdminRevokeDevice(e) PROVE FALSE
    BY <2>2 DEF AdminRevokeDevice, TrustInv, TypeOK
  <2>3. ASSUME NEW x \in inflight, Activate(x) PROVE FALSE
    <3> DEFINE m == x.call
    <3>1. m.device = Home(m.cred) /\ m.cred \in Ids /\ m.device \in Devices
      BY InflightCall
    <3>2. m.device = d
      BY <2>3, <3>1 DEF Activate, ActivateTx, TrustInv, TypeOK
    <3>3. state[m.cred] = "active" /\ ~IsSession(m.cred) /\ empStatus[owner[d]] # "paused"
      BY <2>3, <3>2 DEF Activate, ActivateTx, CanActivate, Eligible, IsBootstrap, IsSession
    <3> QED BY <3>1, <3>2, <3>3 DEF StatusInv, StatusAgreesWithCredential
  <2>4. ASSUME NEW x \in inflight, Revoke(x) PROVE FALSE
    BY <2>4, InflightCall DEF Revoke, RevokeTx, TrustInv, TypeOK
  <2> QED BY <2>1, <2>2, <2>3, <2>4
       DEF Next, CreatePairingCode, RevokePairingCode, ExpireCode, ExpireCredential, PublishPolicy,
           RetirePolicy, Authenticate, Answer, Reconsent, ReconsentTx, Prepare, PrepareTx, Confirm, ConfirmTx
<1>2. codeState[k] = "open" /\ codeState'[k] = "consumed"
  BY <1>1 DEF Redeem, RedeemTx, CanRedeem, RedeemCall, TrustInv, TypeOK
<1>3. devStatus'[d] = "pending"
  BY <1>1 DEF Redeem, RedeemTx, RedeemCall, TrustInv, TypeOK
<1> QED BY <1>2, <1>3 DEF Repaired

\* Whatever was authenticated before a suspension, no step after it gives a phone of that
\* employee a new active credential, a new receipt or another status.
THEOREM SuspensionHolds == Spec => SuspensionIsImmediate
<1>1. TrustInv /\ StatusInv /\ [Next]_vars =>
        [\A d \in Devices : owner[d] \in Employees /\ empStatus[owner[d]] = "paused" => Silenced(d)]_vars
  BY SuspensionStep
<1> QED BY <1>1, StatusInvariant, PTL DEF Spec, SuspensionIsImmediate, Silenced

\* A revoked phone leaves that status only by the redemption of an open code.
THEOREM RevocationHolds == Spec => RevokedUntilRepaired
<1>1. TrustInv /\ StatusInv /\ [Next]_vars =>
        [\A d \in Devices : devStatus[d] = "revoked" /\ devStatus'[d] # "revoked" => Repaired(d)]_vars
  BY RepairStep
<1> QED BY <1>1, StatusInvariant, PTL DEF Spec, RevokedUntilRepaired, Repaired

-------------------------------------------------------------------------------
\* The request that authenticated a recorded call is in the ledger too.
LedgerShape ==
  \A i \in Ids : ledger[i].op \in AuthOps =>
    /\ ledger[i].cred \in Ids /\ state[ledger[i].cred] # "none"
    /\ ledger[i].op = "confirm" => ledger[ledger[i].cred].op = "prepare"
LedgerInv == LedgerShape /\ LedgerExactlyOnce

LEMMA LedgerInit == Init => LedgerInv
<1> SUFFICES ASSUME Init PROVE LedgerInv
  OBVIOUS
<1>1. (\A i \in Ids : ledger[i].op = "none") /\ \A k \in Codes : codeState[k] = "none"
  BY DEF Init, NoCall
<1> QED BY <1>1 DEF LedgerInv, LedgerShape, LedgerExactlyOnce, AuthOps

\* Steps that record nothing.
LEMMA LedgerQuiet ==
  ASSUME TrustInv, LedgerInv, ledger' = ledger, \A c \in Ids : Final(c),
         \A c \in Ids : state[c] # "none" => state'[c] # "none",
         \A k \in Codes : codeState'[k] = "consumed" <=> codeState[k] = "consumed"
  PROVE  LedgerInv'
<1>1. LedgerShape'
  BY DEF LedgerInv, LedgerShape
<1>2. \A i \in Ids : ledger[i].op = "confirm" => From(ledger[i].cred) \in Ids
  BY DEF LedgerInv, LedgerShape, AuthOps, TrustInv, CredentialShape
<1>3. LedgerExactlyOnce'
  BY <1>2 DEF LedgerInv, LedgerShape, LedgerExactlyOnce, AuthOps, Final, From
<1> QED BY <1>1, <1>3 DEF LedgerInv

\* The credential or the code a call uses up: the effect the ledger has it recorded for.
Spent(m) == CASE m.op = "activate" -> state[m.cred] = "consumed"
              [] m.op = "confirm"  -> state[From(m.cred)] = "revoked"
              [] m.op = "revoke"   -> state[m.cred] = "revoked"
              [] m.op = "redeem"   -> codeState[m.code] = "consumed"
              [] OTHER             -> FALSE

\* A call is recorded under an unused id, in the step that has its effect.
LEMMA RecordKeeps ==
  ASSUME TrustInv, LedgerInv, \A c \in Ids : Final(c),
         \A c \in Ids : state[c] # "none" => state'[c] # "none",
         NEW i \in Ids, NEW m \in Call, m.op \in Ops, Unused(i),
         ledger' = [ledger EXCEPT ![i] = m],
         m.op \in AuthOps => m.cred \in Ids /\ state[m.cred] # "none",
         m.op = "confirm" => ledger[m.cred].op = "prepare",
         m.op = "redeem"  => m.code \in Codes,
         m.op \in {"activate", "confirm", "revoke", "redeem"} => ~Spent(m) /\ Spent(m)',
         \A k \in Codes : codeState'[k] = "consumed" <=>
           codeState[k] = "consumed" \/ (m.op = "redeem" /\ m.code = k)
  PROVE  LedgerInv'
<1> USE DEF AuthOps, Ops
<1>1. /\ \A j \in Ids \ {i} : ledger'[j] = ledger[j]
      /\ ledger'[i] = m
  BY DEF TrustInv, TypeOK
<1>2. \A c \in Ids : state[c] # "none" => ledger'[c] = ledger[c] /\ c # i
  BY DEF Final, TrustInv, CredentialShape, Unused
<1>3. \A c \in Ids : ledger[c].op = "prepare" => From(c) \in Ids /\ From(c)' = From(c)
  BY <1>1 DEF TrustInv, CredentialShape, Unused, From
<1>4. LedgerShape'
  BY <1>1, <1>2 DEF LedgerInv, LedgerShape
<1>5. ASSUME NEW j \in Ids \ {i}
      PROVE  /\ ledger[j].op = "activate" => state[ledger[j].cred] = "consumed" /\ state'[ledger[j].cred] = "consumed"
             /\ ledger[j].op = "revoke" => state[ledger[j].cred] = "revoked" /\ state'[ledger[j].cred] = "revoked"
             /\ ledger[j].op = "confirm" =>
                  state[From(ledger[j].cred)] = "revoked" /\ state'[From(ledger[j].cred)'] = "revoked"
  BY <1>3 DEF LedgerInv, LedgerShape, LedgerExactlyOnce, Final
<1>6. /\ m.op = "activate" => state'[m.cred] = "consumed" /\ state[m.cred] # "consumed"
      /\ m.op = "revoke" => state'[m.cred] = "revoked" /\ state[m.cred] # "revoked"
      /\ m.op = "confirm" => state'[From(m.cred)'] = "revoked" /\ state[From(m.cred)] # "revoked"
      /\ m.op = "redeem" => codeState'[m.code] = "consumed" /\ codeState[m.code] # "consumed"
  BY DEF Spent
<1>7. \A k \in Codes : codeState'[k] = "consumed" <=>
        \E j \in Ids : ledger'[j].op = "redeem" /\ ledger'[j].code = k
  BY <1>1 DEF LedgerInv, LedgerExactlyOnce, Unused
<1>8. \A j \in Ids \ {i} : ledger[j].op = "redeem" /\ m.op = "redeem" => ledger[j].code # m.code
  BY <1>6 DEF LedgerInv, LedgerExactlyOnce
<1>9. \A j \in Ids \ {i} : ledger[j].op = m.op /\ m.op \in {"activate", "confirm", "revoke"} =>
        ledger[j].cred # m.cred
  BY <1>5, <1>6
<1>10. LedgerExactlyOnce'
  <2>1. \A j, l \in Ids :
          /\ ledger'[j].op = ledger'[l].op /\ ledger'[j].op = "redeem"
               /\ ledger'[j].code = ledger'[l].code => j = l
          /\ ledger'[j].op = ledger'[l].op /\ ledger'[j].op \in {"activate", "confirm", "revoke"}
               /\ ledger'[j].cred = ledger'[l].cred => j = l
    BY <1>1, <1>8, <1>9 DEF LedgerInv, LedgerExactlyOnce
  <2>2. \A j \in Ids :
          /\ ledger'[j].op = "activate" => state'[ledger'[j].cred] = "consumed"
          /\ ledger'[j].op = "confirm"  => state'[ledger'[ledger'[j].cred].cred] = "revoked"
          /\ ledger'[j].op = "revoke"   => state'[ledger'[j].cred] = "revoked"
    BY <1>1, <1>5, <1>6 DEF From
  <2> QED BY <1>7, <2>1, <2>2 DEF LedgerExactlyOnce, From
<1> QED BY <1>4, <1>10 DEF LedgerInv

LEMMA LedgerStep ==
  ASSUME TrustInv, LedgerInv, [Next]_vars
  PROVE  LedgerInv'
<1> USE DEF codeVars, deviceVars, policyVars, credVars, dbVars
<1>0. \A c \in Ids : Final(c)
  BY FinalStep
<1>1. ASSUME UNCHANGED <<ledger, state>>,
             \A k \in Codes : codeState'[k] = "consumed" <=> codeState[k] = "consumed"
      PROVE  LedgerInv'
  BY <1>0, <1>1, LedgerQuiet
<1>2. ASSUME NEW k \in Codes,
             (\E e \in Employees : CreatePairingCode(k, e)) \/ RevokePairingCode(k) \/ ExpireCode(k)
      PROVE  LedgerInv'
  BY <1>1, <1>2 DEF CreatePairingCode, RevokePairingCode, ExpireCode, TrustInv, TypeOK
<1>3. CASE \/ PublishPolicy \/ RetirePolicy \/ \E c \in Ids : ExpireCredential(c)
           \/ \E e \in Employees : SuspendEmployee(e)
           \/ \E x \in inflight : Answer(x)
           \/ \E op \in AuthOps, i, c \in Ids, p \in 0..MaxPolicy : Authenticate(AuthCall(op, i, c, p))
  BY <1>1, <1>3 DEF PublishPolicy, RetirePolicy, ExpireCredential, SuspendEmployee, Answer, Authenticate
<1>4. ASSUME NEW d \in Devices, AdminRevokeDevice(d) PROVE LedgerInv'
  BY <1>0, <1>4, LedgerQuiet DEF AdminRevokeDevice, WithoutLive
<1>5. ASSUME NEW i \in Ids, NEW k \in Codes, NEW d \in Devices, Redeem(RedeemCall(i, k, d))
      PROVE  LedgerInv'
  <2> DEFINE m == RedeemCall(i, k, d)
  <2>1. m \in Call /\ m.req = i /\ m.code = k /\ m.op = "redeem"
    BY CallsTyped DEF TrustInv
  <2>2. /\ Unused(i) /\ codeState[k] = "open" /\ ledger' = [ledger EXCEPT ![i] = m]
        /\ codeState' = [codeState EXCEPT ![k] = "consumed"]
        /\ state' = [WithoutLive(d) EXCEPT ![i] = "active"]
    BY <1>5 DEF Redeem, RedeemTx, CanRedeem, RedeemCall
  <2> HIDE DEF m
  <2>3. \A c \in Ids : state[c] # "none" => state'[c] # "none"
    BY <2>2 DEF WithoutLive
  <2>4. \A c \in Codes : codeState'[c] = "consumed" <=> codeState[c] = "consumed" \/ m.code = c
    BY <2>1, <2>2 DEF TrustInv, TypeOK
  <2>5. m.op \in Ops /\ m.op \notin AuthOps /\ ~Spent(m) /\ Spent(m)'
    BY <2>1, <2>2, <2>4 DEF Spent, Ops, AuthOps
  <2> QED BY <1>0, <2>1, <2>2, <2>3, <2>4, <2>5, RecordKeeps DEF AuthOps
<1>6. ASSUME NEW x \in inflight,
             Activate(x) \/ Reconsent(x) \/ Prepare(x) \/ Confirm(x) \/ Revoke(x)
      PROVE  LedgerInv'
  <2> DEFINE m == x.call
  <2>1. /\ m \in Call /\ m.req \in Ids /\ m.cred \in Ids /\ m.op \in AuthOps /\ m.op \in Ops
        /\ state[m.cred] # "none"
    BY InflightCall DEF Ops
  <2>2. Unused(m.req) /\ ledger' = [ledger EXCEPT ![m.req] = m] /\ codeState' = codeState
    BY <1>6 DEF Activate, ActivateTx, CanActivate, Reconsent, ReconsentTx, CanReconsent, Prepare,
                PrepareTx, CanPrepare, Confirm, ConfirmTx, CanConfirm, Revoke, RevokeTx, CanRevoke
  <2>3. state[m.req] = "none"
    BY <2>2, InflightCall
  <2>4. CASE Activate(x)
    <3>1. /\ m.op = "activate" /\ state[m.cred] = "active" /\ state'[m.cred] = "consumed"
          /\ \A c \in Ids : state[c] # "none" => state'[c] # "none"
      BY <2>1, <2>4 DEF Activate, ActivateTx, CanActivate, TrustInv, TypeOK
    <3> HIDE DEF m
    <3>2. ~Spent(m) /\ Spent(m)'
      BY <3>1 DEF Spent
    <3> QED BY <1>0, <2>1, <2>2, <3>1, <3>2, RecordKeeps
  <2>5. CASE Reconsent(x)
    <3>1. m.op = "reconsent" /\ state' = state
      BY <2>5 DEF Reconsent, ReconsentTx
    <3> HIDE DEF m
    <3> QED BY <1>0, <2>1, <2>2, <3>1, RecordKeeps
  <2>6. CASE Prepare(x)
    <3>1. m.op = "prepare" /\ \A c \in Ids : state[c] # "none" => state'[c] # "none"
      BY <2>1, <2>6 DEF Prepare, PrepareTx, TrustInv, TypeOK
    <3> HIDE DEF m
    <3> QED BY <1>0, <2>1, <2>2, <3>1, RecordKeeps
  <2>7. CASE Confirm(x)
    <3>1. /\ m.op = "confirm" /\ ledger[m.cred].op = "prepare" /\ state[From(m.cred)] = "active"
          /\ From(m.cred) \in Ids /\ state[m.cred] = "pending"
      BY <2>1, <2>7 DEF Confirm, ConfirmTx, CanConfirm, TrustInv, CredentialShape
    <3>2. /\ state'[From(m.cred)] = "revoked"
          /\ \A c \in Ids : state[c] # "none" => state'[c] # "none"
      BY <2>1, <2>7, <3>1 DEF Confirm, ConfirmTx, TrustInv, TypeOK
    <3>3. From(m.cred)' = From(m.cred)
      BY <1>0, <2>1 DEF Final, From
    <3> HIDE DEF m
    <3>4. ~Spent(m) /\ Spent(m)'
      BY <3>1, <3>2, <3>3 DEF Spent
    <3> QED BY <1>0, <2>1, <2>2, <3>1, <3>2, <3>4, RecordKeeps
  <2>8. CASE Revoke(x)
    <3>1. /\ m.op = "revoke" /\ state[m.cred] = "active" /\ state' = WithoutLive(Home(m.cred))
      BY <2>8, InflightCall DEF Revoke, RevokeTx, CanRevoke
    <3> HIDE DEF m
    <3>2. state'[m.cred] = "revoked" /\ \A c \in Ids : state[c] # "none" => state'[c] # "none"
      BY <2>1, <3>1 DEF WithoutLive, CredsOf, Live
    <3>3. ~Spent(m) /\ Spent(m)'
      BY <3>1, <3>2 DEF Spent
    <3> QED BY <1>0, <2>1, <2>2, <3>1, <3>2, <3>3, RecordKeeps
  <2> QED BY <1>6, <2>4, <2>5, <2>6, <2>7, <2>8
<1>7. CASE UNCHANGED vars
  BY <1>1, <1>7 DEF vars
<1> QED BY <1>2, <1>3, <1>4, <1>5, <1>6, <1>7 DEF Next

\* Every recorded request had its effect and had it once: one redemption for a consumed code,
\* one activation for a bootstrap credential, one confirmation for a session that was replaced.
THEOREM LedgerIsTrue == Spec => []LedgerExactlyOnce
<1>1. Init => TrustInv /\ LedgerInv
  BY TrustInit, LedgerInit
<1>2. TrustInv /\ LedgerInv /\ [Next]_vars => (TrustInv /\ LedgerInv)'
  BY TrustStep, LedgerStep
<1>3. LedgerInv => LedgerExactlyOnce
  BY DEF LedgerInv
<1> QED BY <1>1, <1>2, <1>3, PTL DEF Spec
===============================================================================
