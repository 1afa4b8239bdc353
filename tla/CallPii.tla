-------------------------------- MODULE CallPii --------------------------------
(***************************************************************************)
(* The keys that call logs are sealed with (call-pii-crypto.ts), while     *)
(* servers write calls, operators roll keyrings out and the tool           *)
(* call-pii-backfill.ts seals legacy rows and seals old ones anew.  A row  *)
(* is its envelope: which versions it was made with, and the marker, the   *)
(* column that says which blind-index version to open it with.  Key        *)
(* material, nonces and the rest of the call are left out.                 *)
(*                                                                         *)
(* Operators do what docs/PHASE_3D_PRODUCTION_VERIFICATION.md says: they   *)
(* append the next version (line 138), and remove old keys only after a    *)
(* rotation, begun once every server had the new ring, has confirmed that  *)
(* every row is sealed with the active versions (line 226).                *)
(***************************************************************************)
EXTENDS Naturals, FiniteSets, FiniteSetsExt

CONSTANTS
  Servers,        \* API processes
  Tools,          \* processes of the tool
  Sealables,      \* calls, by the order of their row ids
  PageSize,       \* CALL_PII_BACKFILL_BATCH_SIZE
  MaxKey          \* bound: versions of either kind of key

\* 0 stands before every row id, where verification starts.
ASSUME KeyBounds ==
  /\ PageSize \in Nat \ {0} /\ MaxKey \in Nat \ {0}
  /\ Sealables \subseteq Nat \ {0} /\ IsFiniteSet(Sealables)

VARIABLES
  pii,            \* call_logs: the envelope of each row
  newest,         \* the keyring that operators roll out
  keyring,        \* the keyring each server was started with
  tool,           \* the tool's processes
  confirmed       \* a rotation has confirmed that no row needs a key but the active ones

piiVars == <<pii, newest, keyring, tool, confirmed>>

Versions == 1..MaxKey
Absent   == [form |-> "absent"]
Legacy   == [form |-> "plain"]
Envelope == [form : {"sealed"}, format : {1, 2}, key : Versions, made : Versions,
             marker : Versions, modified : {0, 1}]

\* A keyring holds the versions from the oldest to the active one, which must be the highest.
Ring  == [oldest : Versions, active : Versions, oldestBlind : Versions, activeBlind : Versions]
First == [oldest |-> 1, active |-> 1, oldestBlind |-> 1, activeBlind |-> 1]

EncryptField(ring, modified) ==
  [form |-> "sealed", format |-> 2, key |-> ring.active, made |-> ring.activeBlind,
   marker |-> ring.activeBlind, modified |-> modified]

\* The key is configured, and the associated data, which names the blind-index version of a
\* format-2 envelope, agrees with the marker; format 1 knows no version but the first.
DecryptField(ring, e) ==
  /\ e.key \in ring.oldest..ring.active
  /\ e.marker \in ring.oldestBlind..ring.activeBlind
  /\ e.marker = e.made

Sealed == {r \in Sealables : pii[r].form = "sealed"}
Plain  == {r \in Sealables : pii[r].form = "plain"}

Idle == [mode |-> "idle"]

\* Seeds and the release before 0012 left plaintext and format-1 rows.
PiiInit ==
  /\ pii \in [Sealables -> {Absent, Legacy, [EncryptField(First, 0) EXCEPT !.format = 1]}]
  /\ newest = First
  /\ keyring = [s \in Servers |-> First]
  /\ tool = [t \in Tools |-> Idle]
  /\ confirmed = FALSE

--------------------------------------------------------------------------------
\* upsert_mobile_call_encrypted: an unchanged or stale retry writes nothing.  Whether the
\* number changed does not matter here: the blind index differs with the version that made it.
IsDuplicate(old, new) ==
  /\ old.form = "sealed"
  /\ \/ new.modified < old.modified
     \/ [new EXCEPT !.marker = old.marker] = old

\* The statement leaves a row its marker, or the trigger gives it the first version; the wrapper
\* of 0012 then replaces it.
Marked(old, new)  == [new EXCEPT !.marker = IF old.form = "sealed" THEN old.marker ELSE 1]
Wrapped(old, new) == [Marked(old, new) EXCEPT !.marker = new.marker]

\* A phone's batch brings a call for the first time or again.  A duplicate whose marker is not
\* the server's is refused with its whole batch (40001); either way nothing is written.
UpsertMobileCall(s, r) ==
  \E modified \in {0, 1} :
    LET new == EncryptField(keyring[s], modified) IN
    /\ ~IsDuplicate(pii[r], new)
    /\ pii' = [pii EXCEPT ![r] = Wrapped(@, new)]
    /\ UNCHANGED <<newest, keyring, tool, confirmed>>

\* A manual call is only ever inserted.
InsertManualCall(s, r) ==
  /\ pii[r] = Absent
  /\ pii' = [pii EXCEPT ![r] = Wrapped(@, EncryptField(keyring[s], 0))]
  /\ UNCHANGED <<newest, keyring, tool, confirmed>>

--------------------------------------------------------------------------------
RolledOut == \A s \in Servers : keyring[s] = newest

Deploy(s) ==
  /\ keyring[s] # newest
  /\ keyring' = [keyring EXCEPT ![s] = newest]
  /\ UNCHANGED <<pii, newest, tool, confirmed>>

AppendKeys ==
  /\ RolledOut
  /\ \E ring \in Ring :
       /\ ring.oldest = newest.oldest /\ ring.active \in {newest.active, newest.active + 1}
       /\ ring.oldestBlind = newest.oldestBlind
       /\ ring.activeBlind \in {newest.activeBlind, newest.activeBlind + 1}
       /\ ring # newest
       /\ newest' = ring
  /\ confirmed' = FALSE
  /\ UNCHANGED <<pii, keyring, tool>>

RemoveRetiredKeys ==
  /\ confirmed
  /\ newest' = [newest EXCEPT !.oldest = newest.active, !.oldestBlind = newest.activeBlind]
  /\ newest' # newest
  /\ confirmed' = FALSE
  /\ UNCHANGED <<pii, keyring, tool>>

--------------------------------------------------------------------------------
Begin(t, mode) ==
  /\ tool[t] = Idle
  /\ tool' = [tool EXCEPT ![t] = [mode |-> mode, step |-> "seal", ring |-> newest,
                                  rolledOut |-> RolledOut, after |-> 0]]
  /\ UNCHANGED <<pii, newest, keyring, confirmed>>

\* Any error ends the process; so may its operator.
Abandon(t) ==
  /\ tool[t] # Idle
  /\ tool' = [tool EXCEPT ![t] = Idle]
  /\ UNCHANGED <<pii, newest, keyring, confirmed>>

Page(S) == {r \in S : Cardinality({q \in S : q < r}) < PageSize}
Active_Slip(ring, e) == e.format = 2 /\ e.key = ring.active
Active(ring, e) == e.format = 2 /\ e.key = ring.active /\ e.marker = ring.activeBlind

\* One batch, in one transaction.  Rows that others have locked are skipped, and a batch that
\* is not full ends the loop even if it skipped some.
Claims(t, rows, taken) ==
  /\ \E locked \in SUBSET rows : taken = Page(rows \ locked)
  /\ tool' = IF Cardinality(taken) < PageSize THEN [tool EXCEPT ![t].step = "verify"] ELSE tool

Sealing(t, mode) == tool[t] # Idle /\ tool[t].mode = mode /\ tool[t].step = "seal"

BackfillBatch(t) ==
  /\ Sealing(t, "backfill")
  /\ \E taken \in SUBSET Plain :
       /\ Claims(t, Plain, taken)
       /\ pii' = [r \in Sealables |-> IF r \in taken THEN Wrapped(pii[r], EncryptField(tool[t].ring, 0))
                                     ELSE pii[r]]
  /\ UNCHANGED <<newest, keyring, confirmed>>

RotateBatch(t) ==
  /\ Sealing(t, "rotate")
  /\ \E taken \in SUBSET Sealed :
       /\ Claims(t, {r \in Sealed : ~Active(tool[t].ring, pii[r])}, taken)
       /\ \A r \in taken : DecryptField(tool[t].ring, pii[r])
       /\ pii' = [r \in Sealables |-> IF r \in taken THEN EncryptField(tool[t].ring, pii[r].modified)
                                     ELSE pii[r]]
  /\ UNCHANGED <<newest, keyring, confirmed>>

\* One page, read in a transaction of its own: rows are written behind it and ahead of it.
VerifyPage(t) ==
  /\ tool[t] # Idle /\ tool[t].step = "verify"
  /\ Plain = {}
  /\ LET page == Page({r \in Sealed : r > tool[t].after}) IN
     /\ \A r \in page : /\ DecryptField(tool[t].ring, pii[r])
                        /\ tool[t].mode = "rotate" => Active(tool[t].ring, pii[r])
     /\ IF Cardinality(page) = PageSize
          THEN tool' = [tool EXCEPT ![t].after = Max(page)] /\ UNCHANGED confirmed
          ELSE /\ tool' = [tool EXCEPT ![t] = Idle]
               /\ confirmed' = (\/ confirmed
                                \/ /\ tool[t].mode = "rotate"
                                   /\ tool[t].rolledOut /\ tool[t].ring = newest)
  /\ UNCHANGED <<pii, newest, keyring>>

PiiNext ==
  \/ \E s \in Servers, r \in Sealables : UpsertMobileCall(s, r) \/ InsertManualCall(s, r)
  \/ \E s \in Servers : Deploy(s)
  \/ AppendKeys \/ RemoveRetiredKeys
  \/ \E t \in Tools : \/ \E mode \in {"backfill", "rotate"} : Begin(t, mode)
                      \/ Abandon(t) \/ BackfillBatch(t) \/ RotateBatch(t) \/ VerifyPage(t)

PiiSpec == PiiInit /\ [][PiiNext]_piiVars

--------------------------------------------------------------------------------
Run == [mode : {"backfill", "rotate"}, step : {"seal", "verify"}, ring : Ring,
        rolledOut : BOOLEAN, after : Sealables \cup {0}]

PiiTypeOK ==
  /\ pii \in [Sealables -> Envelope \cup {Absent, Legacy}]
  /\ newest \in Ring /\ keyring \in [Servers -> Ring] /\ confirmed \in BOOLEAN
  /\ tool \in [Tools -> {Idle} \cup Run]

\* No key is given up too early: whatever servers and tools wrote meanwhile, behind or ahead of
\* the verification, every sealed call opens with the ring being rolled out, and so on every
\* server that has it.
SealedCallsOpen == PiiTypeOK /\ \A r \in Sealed : DecryptField(newest, pii[r])
================================================================================
