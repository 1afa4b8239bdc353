-------------------------------- MODULE MemTrust --------------------------------
(***************************************************************************)
(* The in-memory repository's version of device trust (apps/api/src/       *)
(* repository.ts), behind the same routes as DeviceTrust's PostgreSQL      *)
(* transactions, in development and in the tests.  Its methods run to the  *)
(* end without interruption, but other requests come in between the one    *)
(* that authenticates a call and the one that executes it.                 *)
(*                                                                         *)
(* It does not do quite what the database does.  It needs no policy in     *)
(* force to redeem a code; it lets a second rotation be prepared beside    *)
(* the first; to confirm, it looks at neither phone nor employee; a        *)
(* re-pairing revokes consumed credentials too; and a suspension dates     *)
(* credentials as revoked but leaves their state.  SessionsChained says    *)
(* what it promises all the same.  A token is a request id and the         *)
(* credential that the request proposed; the replay of a call that is      *)
(* done changes nothing and is left out, and so are heartbeats.  Of a      *)
(* batch of calls only which calls it brought is kept.                     *)
(***************************************************************************)
EXTENDS Naturals, FiniteSets

CONSTANTS
  Staff, NoStaff,     \* employees
  Phones,             \* installations
  Tickets,            \* pairing codes
  Tokens, NoToken,    \* request ids
  CallIds,            \* local ids of calls
  MaxTerms,           \* bound: policies
  MaxOpen             \* bound: calls between authentication and execution

ASSUME TrustBounds == MaxTerms \in Nat \ {0} /\ MaxOpen \in Nat

VARIABLES
  ticket,             \* pairingCodesById
  standing,           \* status of each employee
  phone,              \* devices, activeConsentByDevice: 0 for none, or one withdrawn
  token,              \* deviceCredentialsByHash
  done,               \* pairingRedemptions, credentialRequests
  calls,              \* callIdByExternalId: the calls of each phone
  terms,              \* mobilePolicies
  open                \* calls that were authenticated

trustVars == <<ticket, standing, phone, token, done, calls, terms, open>>

TokenOps == {"activate", "reconsent", "prepare", "confirm", "revoke", "ingest"}
Undone   == [op |-> "none"]

Home(i)    == done[i].phone
Held(p)    == {i \in Tokens : token[i].life # "none" /\ Home(i) = p}
Session(i) == done[i].op \in {"activate", "prepare"}
Hired(e)   == standing[e] \in {"invited", "active"}

TrustInit ==
  /\ ticket = [k \in Tickets |-> [state |-> "none", of |-> NoStaff, expired |-> FALSE]]
  /\ standing \in [Staff -> {"invited", "active"}]
  /\ phone = [p \in Phones |-> [owner |-> NoStaff, status |-> "none", consent |-> 0]]
  /\ token = [i \in Tokens |-> [life |-> "none", revoked |-> FALSE, expired |-> FALSE]]
  /\ done = [i \in Tokens |-> Undone]
  /\ calls = [p \in Phones |-> {}]
  /\ terms = 1
  /\ open = {}

--------------------------------------------------------------------------------
\* The route refuses a paused employee, but before the code is stored.
IssueTicket(k, e) ==
  /\ ticket[k].state = "none"
  /\ ticket' = [ticket EXCEPT ![k].state = "open", ![k].of = e]
  /\ UNCHANGED <<standing, phone, token, done, calls, terms, open>>

RevokeTicket(k) ==
  /\ ticket[k].state = "open"
  /\ ticket' = [ticket EXCEPT ![k].state = "revoked"]
  /\ UNCHANGED <<standing, phone, token, done, calls, terms, open>>

TimePasses ==
  /\ \/ /\ \E k \in Tickets : /\ ticket[k].state = "open"
                              /\ ticket' = [ticket EXCEPT ![k].expired = TRUE]
        /\ UNCHANGED token
     \/ /\ \E i \in Tokens : /\ token[i].life \in {"pending", "active"}
                             /\ token' = [token EXCEPT ![i].expired = TRUE]
        /\ UNCHANGED ticket
  /\ UNCHANGED <<standing, phone, done, calls, terms, open>>

\* setMobilePolicyForTesting: policies replace each other at once.
ReplacePolicy ==
  /\ terms < MaxTerms
  /\ terms' = terms + 1
  /\ UNCHANGED <<ticket, standing, phone, token, done, calls, open>>

\* suspendEmployee: a revocation date, but no new state.
Suspend(e) ==
  /\ standing' = [standing EXCEPT ![e] = "paused"]
  /\ phone' = [p \in Phones |-> IF phone[p].owner = e THEN [phone[p] EXCEPT !.status = "revoked"] ELSE phone[p]]
  /\ token' = [i \in Tokens |-> IF \E p \in Phones : phone[p].owner = e /\ i \in Held(p)
                                  THEN [token[i] EXCEPT !.revoked = TRUE] ELSE token[i]]
  /\ UNCHANGED <<ticket, done, calls, terms, open>>

Withdrawn(p)  == [phone EXCEPT ![p].status = "revoked", ![p].consent = 0]
RevokedOf(S)  == [i \in Tokens |-> IF i \in S THEN [token[i] EXCEPT !.life = "revoked", !.revoked = TRUE]
                                   ELSE token[i]]
Unrevoked(p)  == {i \in Held(p) : ~token[i].revoked}

\* revokeDeviceByAdministrator
RevokePhone(p) ==
  /\ phone[p].status \in {"pending", "connected"}
  /\ token' = RevokedOf({i \in Held(p) : token[i].life \in {"pending", "active"}})
  /\ phone' = Withdrawn(p)
  /\ UNCHANGED <<ticket, standing, done, calls, terms, open>>

--------------------------------------------------------------------------------
\* findCurrentMobileCredential
Current(i, session) ==
  LET p == phone[Home(i)] IN
  /\ token[i].life = "active" /\ ~token[i].revoked /\ ~token[i].expired
  /\ Session(i) = session
  /\ IF session THEN p.status = "connected" /\ standing[p.owner] = "active" /\ p.consent # 0
                ELSE p.status = "pending" /\ Hired(p.owner) /\ p.consent = 0

ConsentIsCurrent(p) == phone[p].consent = terms

RedeemTicket(i, k, p) ==
  LET e == ticket[k].of IN
  /\ done[i] = Undone
  /\ ticket[k].state = "open" /\ ~ticket[k].expired
  /\ Hired(e)
  /\ phone[p].owner \in {NoStaff, e}
  /\ ticket' = [ticket EXCEPT ![k].state = "consumed"]
  /\ phone' = [phone EXCEPT ![p] = [owner |-> e, status |-> "pending", consent |-> 0]]
  /\ token' = [RevokedOf(Unrevoked(p)) EXCEPT ![i].life = "active"]
  /\ done' = [done EXCEPT ![i] = [op |-> "redeem", phone |-> p, by |-> NoToken, terms |-> 0]]
  /\ UNCHANGED <<standing, calls, terms, open>>

CanActivate(m) == Current(m.by, FALSE) /\ m.terms = terms
CanReconsent(m) == Current(m.by, TRUE) /\ m.terms = terms
CanPrepare(m)  == Current(m.by, TRUE) /\ ConsentIsCurrent(Home(m.by))
CanRevoke(m)   == Current(m.by, TRUE)
CanIngest(m)   == Current(m.by, TRUE) /\ ConsentIsCurrent(Home(m.by))

\* The pending token names the request that prepared it, and so the session that asked for it.
Confirmable(i) == token[i].life = "pending" /\ ~token[i].expired
CanConfirm_Slip(m) == Confirmable(m.by)
CanConfirm(m) ==
  /\ Confirmable(m.by)
  /\ LET source == done[m.by].by IN token[source].life = "active" /\ ~token[source].revoked

\* A batch has an id of its own; a consent names the policy that was shown.
AskedAs(op) == IF op = "ingest" THEN {NoToken} ELSE Tokens
Agreed(op)  == IF op \in {"activate", "reconsent"} THEN 1..MaxTerms ELSE {0}
FirstTime(m) == m.op # "ingest" => done[m.req] = Undone

Can(m) ==
  /\ FirstTime(m)
  /\ CASE m.op = "activate"  -> CanActivate(m)
       [] m.op = "reconsent" -> CanReconsent(m)
       [] m.op = "prepare"   -> CanPrepare(m)
       [] m.op = "confirm"   -> CanConfirm(m)
       [] m.op = "revoke"    -> CanRevoke(m)
       [] m.op = "ingest"    -> CanIngest(m)

\* resolveDeviceCredential and resolvePendingRotationCredential, and the route's look at the
\* consent of a phone that wants to rotate.
Authenticate(m) ==
  /\ Cardinality(open) < MaxOpen
  /\ token[m.by].life # "none" /\ FirstTime(m)
  /\ CASE m.op = "activate" -> Current(m.by, FALSE)
       [] m.op = "confirm"  -> Confirmable(m.by)
       [] m.op \in {"prepare", "ingest"} -> Current(m.by, TRUE) /\ ConsentIsCurrent(Home(m.by))
       [] OTHER             -> Current(m.by, TRUE)
  /\ open' = open \cup {m}
  /\ UNCHANGED <<ticket, standing, phone, token, done, calls, terms>>

\* An executed call is recorded with the phone it was for.
Executed(m) ==
  /\ Can(m)
  /\ done' = [done EXCEPT ![m.req] = [op |-> m.op, phone |-> Home(m.by), by |-> m.by, terms |-> m.terms]]
  /\ open' = open \ {m}
  /\ UNCHANGED <<ticket, calls, terms>>

ActivatePhone(m) ==
  /\ m.op = "activate" /\ Executed(m)
  /\ token' = [token EXCEPT ![m.by].life = "consumed", ![m.req].life = "active"]
  /\ phone' = [phone EXCEPT ![Home(m.by)].status = "connected", ![Home(m.by)].consent = m.terms]
  /\ standing' = [standing EXCEPT ![phone[Home(m.by)].owner] = "active"]

Renew(m) ==
  /\ m.op = "reconsent" /\ Executed(m)
  /\ phone' = [phone EXCEPT ![Home(m.by)].consent = m.terms]
  /\ UNCHANGED <<standing, token>>

PrepareRotation(m) ==
  /\ m.op = "prepare" /\ Executed(m)
  /\ token' = [token EXCEPT ![m.req].life = "pending"]
  /\ UNCHANGED <<standing, phone>>

ConfirmRotation(m) ==
  /\ m.op = "confirm" /\ Executed(m)
  /\ token' = [token EXCEPT ![m.by].life = "active",
                            ![done[m.by].by] = [@ EXCEPT !.life = "revoked", !.revoked = TRUE]]
  /\ UNCHANGED <<standing, phone>>

RevokeSession(m) ==
  /\ m.op = "revoke" /\ Executed(m)
  /\ token' = RevokedOf(Unrevoked(Home(m.by)))
  /\ phone' = Withdrawn(Home(m.by))
  /\ UNCHANGED standing

\* Calls that it brought before are updated, or duplicates.
IngestBatch(m) ==
  /\ m.op = "ingest" /\ Can(m)
  /\ \E batch \in SUBSET CallIds : calls' = [calls EXCEPT ![Home(m.by)] = @ \cup batch]
  /\ open' = open \ {m}
  /\ UNCHANGED <<ticket, standing, phone, token, done, terms>>

\* A consent is refused, too, when its date is too far from the server's, and a batch when the
\* phone's permission to read calls was not granted.
Refused(m) ==
  /\ ~Can(m) \/ m.op \in {"activate", "reconsent", "ingest"}
  /\ open' = open \ {m}
  /\ UNCHANGED <<ticket, standing, phone, token, done, calls, terms>>

TrustNext ==
  \/ \E k \in Tickets : \/ \E e \in Staff : IssueTicket(k, e)
                        \/ RevokeTicket(k)
                        \/ \E i \in Tokens, p \in Phones : RedeemTicket(i, k, p)
  \/ TimePasses \/ ReplacePolicy
  \/ \E e \in Staff : Suspend(e)
  \/ \E p \in Phones : RevokePhone(p)
  \/ \E op \in TokenOps, by \in Tokens : \E i \in AskedAs(op), t \in Agreed(op) :
       Authenticate([op |-> op, req |-> i, by |-> by, terms |-> t])
  \/ \E m \in open : \/ ActivatePhone(m) \/ Renew(m) \/ PrepareRotation(m) \/ ConfirmRotation(m)
                     \/ RevokeSession(m) \/ IngestBatch(m) \/ Refused(m)

TrustSpec == TrustInit /\ [][TrustNext]_trustVars

--------------------------------------------------------------------------------
\* Whatever overlaps, a phone's sessions form a chain: at most one has standing at a time, one
\* that was rotated, revoked or suspended never has it again, and the phone of a suspended
\* employee has none and gets none.  Calls come from a phone that has one, and go nowhere else.
Standing(p) == {i \in Tokens : /\ token[i].life = "active" /\ ~token[i].revoked
                               /\ Session(i) /\ Home(i) = p}
Chain == INSTANCE SessionChain WITH
           Sessions <- Tokens,
           stored   <- calls,
           holds    <- [p \in Phones |-> Standing(p)],
           spent    <- {i \in Tokens : token[i].revoked},
           barred   <- {p \in Phones : phone[p].owner # NoStaff /\ standing[phone[p].owner] = "paused"}
SessionsChained == Chain!Spec
================================================================================
