----------------------------- MODULE CallSync_proofs -----------------------------
(* Theorems about the call pipeline for every finite set of calls, every set of *)
(* leads, every batch and page size and any number of failures and crashes.     *)
EXTENDS CallSync, FiniteSetTheorems, WellFoundedInduction, TLAPS

\* The worker starts without rows in flight, takes some, and stops with the gate.
FlightInv ==
  /\ pc \in {"scan", "build"} => \A c \in Calls : queue[c] # "IN_FLIGHT"
  /\ pc = "waiting" => {c \in Calls : queue[c] = "IN_FLIGHT"} = sending.items
  /\ ~prefs.open => pc = "idle"

\* A row is stamped when it is inserted, once and for all: one that was pruned or purged since
\* is behind the checkpoint on disk, or older than the consent, and is not read again.
StampedOnce ==
  /\ prefs.open = disk.open
  /\ prefs.open => disk.scan <= prefs.scan
  /\ \A c \in Calls : queue[c] # "absent" => stamp[c] # 0
  /\ \A c \in Calls : stamp[c] # 0 => c \in logged
  /\ \A c \in Calls : (prefs.open /\ stamp[c] # 0 /\ queue[c] = "absent") => c <= disk.scan

\* So the calls of a request determine its bytes, wherever it has got to.
Determined(r) == r.sentAt = Max({stamp[c] : c \in r.items}) /\ \A c \in r.items : stamp[c] # 0
SameBytes ==
  /\ \A r \in wire : Determined(r)
  /\ \A i \in DOMAIN batches : Determined(batches[i])
  /\ reply # "conflict"

\* The server has the calls of the batches it registered or acknowledged.
ServerHas ==
  /\ \A i \in DOMAIN batches : \A c \in batches[i].items : stored[c] # 0
  /\ reply = "ok" => \A c \in sending.items : stored[c] # 0
  /\ \A c \in Calls : queue[c] = "SYNCED" => stored[c] # 0

SyncInv == TypeOK /\ FlightInv /\ StampedOnce /\ SameBytes /\ ServerHas /\ IngestedOnce /\ LastContactAgrees
-------------------------------------------------------------------------------
(* Greatest elements and first ones.                                          *)

\* Of a nonempty set of naturals, the least.
LEMMA LeastOf ==
  ASSUME NEW S \in SUBSET Nat, S # {}
  PROVE  \E x \in S : \A y \in S : x <= y
<1>1. PICK x \in S : \A y \in S : ~(<<y, x>> \in OpToRel(<, Nat))
  BY NatLessThanWellFounded, WFMin
<1>2. \A y \in S : x <= y
  <2> TAKE y \in S
  <2>1. ~(<<y, x>> \in OpToRel(<, Nat))
    BY <1>1
  <2>2. x \in Nat /\ y \in Nat
    OBVIOUS
  <2>3. ~(y < x)
    BY <2>1, <2>2 DEF OpToRel
  <2> QED BY <2>2, <2>3
<1> QED BY <1>2

\* The member with the fewest members above it has none above it: a finite set
\* of naturals has a greatest one.
LEMMA MaxIsGreatest ==
  ASSUME NEW S \in SUBSET Nat, S # {}, IsFiniteSet(S)
  PROVE  Max(S) \in S /\ \A y \in S : y <= Max(S)
<1> DEFINE Above(x) == {y \in S : y > x}
           Counts   == {Cardinality(Above(x)) : x \in S}
<1>1. \A x \in S : IsFiniteSet(Above(x)) /\ Cardinality(Above(x)) \in Nat
  BY FS_Subset, FS_CardinalityType
<1>2. Counts \in SUBSET Nat /\ Counts # {}
  BY <1>1
<1>3. PICK n \in Counts : \A k \in Counts : n <= k
  <2> HIDE DEF Counts
  <2> QED BY <1>2, LeastOf
<1>0. PICK x \in S : n = Cardinality(Above(x))
  OBVIOUS
<1>4. \A y \in S : y <= x
  <2> SUFFICES ASSUME NEW y \in S, y > x PROVE FALSE
    OBVIOUS
  <2>0. x \in Nat /\ y \in Nat
    OBVIOUS
  <2>1. Above(y) \subseteq Above(x) /\ y \in Above(x) /\ y \notin Above(y)
    <3>1. \A z \in S : z > y => z > x
      BY <2>0
    <3>2. ~(y > y)
      BY <2>0
    <3> QED BY <3>1, <3>2
  <2>2. Cardinality(Above(y)) <= Cardinality(Above(x)) /\ Cardinality(Above(y)) # Cardinality(Above(x))
    BY <1>1, <2>1, FS_Subset
  <2>3. Cardinality(Above(x)) <= Cardinality(Above(y))
    BY <1>0, <1>3
  <2> HIDE DEF Above
  <2> QED BY <1>1, <2>2, <2>3
<1> QED BY <1>4 DEF Max

LEMMA MaxIsThe ==
  ASSUME NEW S \in SUBSET Nat, NEW m \in S, \A y \in S : y <= m
  PROVE  Max(S) = m
<1>1. \A x \in S : (\A y \in S : x >= y) => x = m
  BY SMT
<1>2. \A y \in S : m >= y
  BY SMT
<1> QED BY <1>1, <1>2 DEF Max

LEMMA MaxOfTwo ==
  ASSUME NEW a \in Nat, NEW b \in Nat
  PROVE  /\ Max({a, b}) \in {a, b} /\ Max({a, b}) \in Nat
         /\ a <= Max({a, b}) /\ b <= Max({a, b})
<1>1. {a} \cup {b} = {a, b} /\ IsFiniteSet({a} \cup {b})
  BY FS_Singleton, FS_AddElement
<1>2. Max({a, b}) \in {a, b} /\ \A y \in {a, b} : y <= Max({a, b})
  BY <1>1, MaxIsGreatest
<1> QED BY <1>2

\* The greatest of a union is the greatest of the parts' greatest.
LEMMA MaxOfUnion ==
  ASSUME NEW S \in SUBSET Nat, S # {}, IsFiniteSet(S), NEW T \in SUBSET Nat, IsFiniteSet(T)
  PROVE  Max(S \cup T) = Max({Max(S)} \cup T)
<1>1. Max(S) \in S /\ \A y \in S : y <= Max(S)
  BY MaxIsGreatest
<1>2. IsFiniteSet(S \cup T) /\ IsFiniteSet({Max(S)} \cup T)
  BY FS_Union, FS_Singleton
<1> DEFINE U == {Max(S)} \cup T
<1>3. U \in SUBSET Nat /\ U # {}
  BY <1>1
<1>4. Max(U) \in U /\ \A y \in U : y <= Max(U)
  <2> HIDE DEF U
  <2> QED BY <1>2, <1>3, MaxIsGreatest DEF U
<1>5. Max(U) \in S \cup T /\ \A y \in S \cup T : y <= Max(U)
  <2>1. Max(U) \in S \cup T
    BY <1>1, <1>4
  <2>2. ASSUME NEW y \in S PROVE y <= Max(U)
    <3>1. y <= Max(S) /\ Max(S) <= Max(U) /\ y \in Nat /\ Max(S) \in Nat /\ Max(U) \in Nat
      BY <1>1, <1>3, <1>4
    <3> HIDE DEF U
    <3> QED BY <3>1
  <2>3. \A y \in T : y <= Max(U)
    BY <1>4
  <2> QED BY <2>1, <2>2, <2>3
<1> HIDE DEF U
<1>6. Max(S \cup T) = Max(U)
  BY <1>5, MaxIsThe
<1> QED BY <1>6 DEF U

LEMMA CallsFinite ==
  ASSUME NEW S \in SUBSET Calls
  PROVE  IsFiniteSet(S) /\ Cardinality(S) \in Nat /\ S \subseteq Nat \ {0}
BY CallsAreNumbered, FS_Subset, FS_CardinalityType

\* A set of calls has a latest one.
LEMMA LatestOf ==
  ASSUME NEW S \in SUBSET Calls
  PROVE  /\ Latest(S) \in S \cup {0} /\ Latest(S) \in Nat
         /\ \A c \in S : c <= Latest(S)
<1>1. S \cup {0} \in SUBSET Nat /\ IsFiniteSet(S \cup {0})
  BY CallsFinite, FS_AddElement
<1>2. Max(S \cup {0}) \in S \cup {0} /\ \A c \in S \cup {0} : c <= Max(S \cup {0})
  BY <1>1, MaxIsGreatest
<1> QED BY <1>1, <1>2 DEF Latest

\* Stamps are finitely many.
LEMMA StampsFinite ==
  ASSUME stamp \in [Calls -> Nat], NEW S \in SUBSET Calls
  PROVE  IsFiniteSet({stamp[c] : c \in S}) /\ {stamp[c] : c \in S} \in SUBSET Nat
<1> DEFINE T == {stamp[c] : c \in S}
           f == [c \in S |-> stamp[c]]
<1>1. f \in [S -> T] /\ \A t \in T : \E c \in S : f[c] = t
  OBVIOUS
<1>2. f \in Surjection(S, T)
  BY <1>1 DEF Surjection
<1>3. IsFiniteSet(T)
  <2> HIDE DEF f, T
  <2> QED BY <1>2, CallsFinite, FS_Surjection
<1> QED BY <1>3

LEMMA StampsHaveMax ==
  ASSUME stamp \in [Calls -> Nat], NEW S \in SUBSET Calls, S # {}
  PROVE  Max({stamp[c] : c \in S}) \in Nat
<1>1. {stamp[c] : c \in S} # {}
  OBVIOUS
<1> QED BY <1>1, StampsFinite, MaxIsGreatest

LEMMA NextStampIsNew ==
  ASSUME stamp \in [Calls -> Nat]
  PROVE  NextStamp \in Nat \ {0}
<1> DEFINE T == {stamp[c] : c \in Calls}
<1>1. IsFiniteSet(T) /\ T \in SUBSET Nat
  BY StampsFinite
<1> HIDE DEF T
<1>2. IsFiniteSet(T \cup {0}) /\ T \cup {0} \in SUBSET Nat /\ T \cup {0} # {}
  BY <1>1, FS_AddElement
<1>3. Max(T \cup {0}) \in Nat
  BY <1>2, MaxIsGreatest
<1> QED BY <1>3 DEF NextStamp, T

\* The first n calls of a set are a prefix of it, and not empty unless the set is.
LEMMA EarliestIsPrefix ==
  ASSUME NEW S \in SUBSET Calls, NEW n \in Nat \ {0}
  PROVE  /\ Earliest(S, n) \subseteq S
         /\ \A c \in S, d \in Earliest(S, n) : c <= d => c \in Earliest(S, n)
         /\ S # {} => Earliest(S, n) # {}
<1> DEFINE Before(c) == {d \in S : d < c}
<1>0. S \subseteq Nat
  BY CallsFinite
<1>1. \A c \in S : IsFiniteSet(Before(c)) /\ Cardinality(Before(c)) \in Nat
  BY CallsFinite
<1>2. ASSUME NEW c \in S, NEW d \in Earliest(S, n), c <= d PROVE c \in Earliest(S, n)
  <2>1. d \in S /\ Cardinality(Before(d)) < n
    BY DEF Earliest
  <2>2. Before(c) \subseteq Before(d)
    <3>1. c \in Nat /\ d \in Nat /\ c <= d /\ S \subseteq Nat
      BY <1>0, <1>2, <2>1
    <3>2. \A x \in Nat : x < c => x < d
      BY <3>1
    <3> QED BY <3>1, <3>2
  <2>3. Cardinality(Before(c)) <= Cardinality(Before(d))
    BY <1>1, <2>1, <2>2, FS_Subset
  <2>4. Cardinality(Before(c)) < n
    <3>1. Cardinality(Before(c)) \in Nat /\ Cardinality(Before(d)) \in Nat
      BY <1>1, <1>2, <2>1
    <3> HIDE DEF Before
    <3> QED BY <2>1, <2>3, <3>1
  <2> QED BY <2>4 DEF Earliest
<1>3. ASSUME S # {} PROVE Earliest(S, n) # {}
  <2>1. PICK c \in S : \A d \in S : c <= d
    BY <1>3, CallsFinite, LeastOf
  <2>2. Before(c) = {}
    <3>1. c \in Nat
      BY <1>0
    <3>2. \A d \in S : ~(d < c)
      BY <1>0, <2>1, <3>1
    <3> QED BY <3>2
  <2>3. Cardinality(Before(c)) < n
    BY <2>2, FS_EmptySet
  <2> QED BY <2>3 DEF Earliest
<1> QED BY <1>2, <1>3 DEF Earliest
-------------------------------------------------------------------------------
(* Types.                                                                     *)
LEMMA SpendType ==
  ASSUME TypeOK
  PROVE  /\ (spent.failures < MaxFailures /\ Spend("failures")) => spent' \in Bounds
         /\ (spent.crashes < MaxCrashes /\ Spend("crashes")) => spent' \in Bounds
         /\ (spent.rematches < MaxRematches /\ Spend("rematches")) => spent' \in Bounds
         /\ (spent.closings < MaxClosings /\ Spend("closings")) => spent' \in Bounds
<1>1. spent \in Bounds
  BY DEF TypeOK
<1>2. ASSUME spent.failures < MaxFailures, Spend("failures") PROVE spent' \in Bounds
  BY <1>1, <1>2, LimitsAreNat DEF Spend, Bounds
<1>3. ASSUME spent.crashes < MaxCrashes, Spend("crashes") PROVE spent' \in Bounds
  BY <1>1, <1>3, LimitsAreNat DEF Spend, Bounds
<1>4. ASSUME spent.rematches < MaxRematches, Spend("rematches") PROVE spent' \in Bounds
  BY <1>1, <1>4, LimitsAreNat DEF Spend, Bounds
<1>5. ASSUME spent.closings < MaxClosings, Spend("closings") PROVE spent' \in Bounds
  BY <1>1, <1>5, LimitsAreNat DEF Spend, Bounds
<1> QED BY <1>2, <1>3, <1>4, <1>5

LEMMA RunFailsType ==
  ASSUME TypeOK
  PROVE  RunFails => (pc' = "idle" /\ attempts' \in 0..MaxAttempts)
BY LimitsAreNat DEF TypeOK, RunFails

LEMMA ChosenType ==
  ASSUME TypeOK
  PROVE  /\ Chosen \subseteq DueCalls /\ Chosen \subseteq Calls
         /\ DueCalls # {} => Chosen # {}
         /\ Observed \subseteq Unread /\ Unread \subseteq logged /\ Observed \subseteq Calls
         /\ \A c \in Unread, d \in Observed : c <= d => c \in Observed
<1>1. DueCalls \in SUBSET Calls /\ Unread \in SUBSET Calls /\ Unread \subseteq logged
  BY DEF DueCalls, Unread, TypeOK
<1>2. MaxBatch \in Nat \ {0} /\ MaxRead \in Nat \ {0}
  BY LimitsAreNat
<1> QED BY <1>1, <1>2, EarliestIsPrefix DEF Chosen, Observed

LEMMA AnswersType ==
  ASSUME TypeOK, NEW r \in wire, NEW with \in {"ok", "conflict", "denied", "closed"}, Answers(r, with)
  PROVE  /\ wire' = wire \ {r} /\ wire' \subseteq Requests
         /\ reply' \in {"none", "ok", "conflict", "denied", "closed"}
         /\ reply' = reply \/ (pc = "waiting" /\ sending = r /\ reply' = with)
BY DEF TypeOK, Answers

LEMMA TypeInit == Init => TypeOK
<1> SUFFICES ASSUME Init PROVE TypeOK
  OBVIOUS
<1>1. /\ queue \in [Calls -> Statuses] /\ pc \in Steps /\ prefs \in Prefs /\ disk \in Prefs
      /\ sending \in Requests /\ spent \in Bounds /\ attempts \in 0..MaxAttempts
  BY LimitsAreNat DEF Init, Statuses, Steps, Prefs, Requests, Bounds
<1> QED BY <1>1 DEF Init, TypeOK

\* The steps of the phone's worker.
LEMMA WorkerTypes ==
  ASSUME TypeOK, Start \/ Scan \/ Upload \/ NothingDue \/ Acknowledge \/ Rejected \/ Finish
  PROVE  TypeOK'
<1>1. CASE Start
  <2>1. queue' \in [Calls -> Statuses] /\ pc' \in Steps
    BY <1>1 DEF Start, Recovered, TypeOK, Statuses, Steps
  <2> QED BY <1>1, <2>1 DEF Start, TypeOK, callVars, leadVars, deskVars
<1>2. CASE Scan
  <2>1. queue' \in [Calls -> Statuses] /\ pc' \in Steps
    BY <1>2 DEF Scan, TypeOK, Statuses, Steps
  <2>2. stamp' \in [Calls -> Nat]
    BY <1>2, NextStampIsNew DEF Scan, TypeOK
  <2>3. waiting' \subseteq Calls
    BY <1>2 DEF Scan, TypeOK
  <2>4. prefs' \in Prefs
    <3>1. prefs.scan \in Nat /\ prefs \in Prefs
      BY DEF TypeOK, Prefs
    <3>2. Latest(Observed) \in Nat
      BY ChosenType, LatestOf
    <3>3. Max({prefs.scan, Latest(Observed)}) \in Nat
      BY <3>1, <3>2, MaxOfTwo
    <3> QED BY <1>2, <3>1, <3>3 DEF Scan, Prefs
  <2> QED BY <1>2, <2>1, <2>2, <2>3, <2>4 DEF Scan, TypeOK, callVars, leadVars, deskVars
<1>3. CASE Upload
  <2>1. queue' \in [Calls -> Statuses] /\ pc' \in Steps
    BY <1>3 DEF Upload, TypeOK, Statuses, Steps
  <2>2. sending' \in Requests
    <3>1. Max({stamp[c] : c \in Chosen}) \in Nat
      BY <1>3, ChosenType, StampsHaveMax DEF Upload, TypeOK
    <3>2. sending.nr + 1 \in Nat /\ prefs.cursor \in Nat
      BY DEF TypeOK, Requests, Prefs
    <3> QED BY <1>3, <3>1, <3>2, ChosenType DEF Upload, Requests
  <2>3. wire' \subseteq Requests
    BY <1>3, <2>2 DEF Upload, TypeOK
  <2> QED BY <1>3, <2>1, <2>2, <2>3 DEF Upload, TypeOK, callVars, leadVars, deskVars
<1>4. CASE NothingDue
  BY <1>4 DEF NothingDue, TypeOK, Steps, phoneVars, callVars, leadVars, deskVars
<1>5. CASE Acknowledge
  <2>1. queue' \in [Calls -> Statuses] /\ pc' \in Steps
    BY <1>5 DEF Acknowledge, TypeOK, Statuses, Steps
  <2>2. prefs' \in Prefs
    <3>1. PICK i \in DOMAIN batches : prefs' = [prefs EXCEPT !.cursor = i]
      BY <1>5 DEF Acknowledge
    <3>2. i \in Nat /\ prefs \in Prefs
      BY DEF TypeOK
    <3> QED BY <3>1, <3>2 DEF Prefs
  <2> QED BY <1>5, <2>1, <2>2 DEF Acknowledge, TypeOK, callVars, leadVars, deskVars
<1>6. CASE Rejected
  <2>1. queue' \in [Calls -> Statuses] /\ pc' \in Steps /\ attempts' \in 0..MaxAttempts
    BY <1>6, LimitsAreNat DEF Rejected, TypeOK, Statuses, Steps
  <2>2. spent' \in Bounds
    BY <1>6, SpendType DEF Rejected, TypeOK
  <2> QED BY <1>6, <2>1, <2>2 DEF Rejected, TypeOK, callVars, leadVars, deskVars
<1>7. CASE Finish
  <2>1. queue' \in [Calls -> Statuses] /\ pc' \in Steps /\ attempts' \in 0..MaxAttempts
    BY <1>7, LimitsAreNat DEF Finish, TypeOK, Statuses, Steps
  <2> QED BY <1>7, <2>1 DEF Finish, TypeOK, callVars, leadVars, deskVars
<1> QED BY <1>1, <1>2, <1>3, <1>4, <1>5, <1>6, <1>7

\* What goes wrong on the phone, and what happens beside the worker.
LEMMA PhoneTypes ==
  ASSUME TypeOK, UploadFails \/ HeartbeatFails \/ Flush \/ Die \/ CloseGate \/ OpenGate
                 \/ \E c \in Calls : LogCall(c) \/ DelayOver(c)
  PROVE  TypeOK'
<1>1. CASE UploadFails
  <2>1. queue' \in [Calls -> Statuses] /\ waiting' \subseteq Calls
    BY <1>1 DEF UploadFails, TypeOK, Statuses, Requests
  <2>2. pc' = "idle" /\ attempts' \in 0..MaxAttempts /\ spent' \in Bounds
    BY <1>1, RunFailsType, SpendType DEF UploadFails
  <2> QED BY <1>1, <2>1, <2>2 DEF UploadFails, TypeOK, Steps, callVars, leadVars, deskVars
<1>2. CASE HeartbeatFails
  <2>1. pc' = "idle" /\ attempts' \in 0..MaxAttempts /\ spent' \in Bounds
    BY <1>2, RunFailsType, SpendType, LimitsAreNat DEF HeartbeatFails
  <2> QED BY <1>2, <2>1 DEF HeartbeatFails, TypeOK, Steps, phoneVars, callVars, leadVars, deskVars
<1>3. CASE Flush
  BY <1>3 DEF Flush, TypeOK, workerVars, callVars, leadVars, deskVars
<1>4. CASE Die
  <2>1. pc' \in Steps /\ attempts' \in 0..MaxAttempts /\ spent' \in Bounds
    BY <1>4, RunFailsType, SpendType DEF Die, TypeOK, Steps
  <2> QED BY <1>4, <2>1 DEF Die, TypeOK, callVars, leadVars, deskVars
<1>5. CASE CloseGate
  <2>1. pc' \in Steps /\ attempts' \in 0..MaxAttempts /\ spent' \in Bounds
    BY <1>5, SpendType, LimitsAreNat DEF CloseGate, Steps
  <2>2. queue' \in [Calls -> Statuses] /\ waiting' \subseteq Calls
    BY <1>5 DEF CloseGate, Statuses
  <2>3. prefs' \in Prefs /\ disk' \in Prefs
    BY <1>5 DEF CloseGate, TypeOK, Prefs
  <2> QED BY <1>5, <2>1, <2>2, <2>3 DEF CloseGate, TypeOK, callVars, leadVars, deskVars
<1>6. CASE OpenGate
  <2>1. prefs' \in Prefs /\ disk' \in Prefs
    <3>1. PICK t \in Checkpoints : prefs' = [scan |-> t, cursor |-> prefs.cursor, open |-> TRUE] /\ disk' = prefs'
      BY <1>6 DEF OpenGate
    <3>2. t \in Nat
      BY CallsAreNumbered DEF Checkpoints
    <3>3. prefs.cursor \in Nat
      BY DEF TypeOK, Prefs
    <3> QED BY <3>1, <3>2, <3>3 DEF Prefs
  <2> QED BY <1>6, <2>1 DEF OpenGate, TypeOK, workerVars, callVars, leadVars, deskVars
<1>7. ASSUME NEW c \in Calls, LogCall(c) PROVE TypeOK'
  BY <1>7 DEF LogCall, TypeOK, phoneVars, workerVars, callVars, leadVars, deskVars
<1>8. ASSUME NEW c \in Calls, DelayOver(c) PROVE TypeOK'
  BY <1>8 DEF DelayOver, TypeOK, workerVars, callVars, leadVars, deskVars
<1> QED BY <1>1, <1>2, <1>3, <1>4, <1>5, <1>6, <1>7, <1>8

\* What the server's new batch does to calls, links and leads.
LEMMA IngestFields ==
  ASSUME TypeOK, NEW r \in wire, IngestNew(r)
  PROVE  /\ batches' = Append(batches, [prev |-> r.prev, items |-> r.items, sentAt |-> r.sentAt])
         /\ DOMAIN batches' = DOMAIN batches \cup {Len(batches) + 1}
         /\ Len(batches) + 1 \in Nat \ {0} /\ Len(batches) + 1 \notin DOMAIN batches
         /\ \A i \in DOMAIN batches : batches'[i] = batches[i]
         /\ batches'[Len(batches) + 1] = [prev |-> r.prev, items |-> r.items, sentAt |-> r.sentAt]
         /\ batches' \in Seq([prev : Nat, items : SUBSET Calls, sentAt : Nat])
<1>1. /\ batches \in Seq([prev : Nat, items : SUBSET Calls, sentAt : Nat])
      /\ [prev |-> r.prev, items |-> r.items, sentAt |-> r.sentAt] \in [prev : Nat, items : SUBSET Calls, sentAt : Nat]
  BY DEF TypeOK, Requests
<1>2. batches' = Append(batches, [prev |-> r.prev, items |-> r.items, sentAt |-> r.sentAt])
  BY DEF IngestNew
<1> DEFINE row == [prev |-> r.prev, items |-> r.items, sentAt |-> r.sentAt]
           Rows == [prev : Nat, items : SUBSET Calls, sentAt : Nat]
<1>3. batches \in Seq(Rows) /\ row \in Rows /\ batches' = Append(batches, row)
  BY <1>1, <1>2
<1> HIDE DEF row, Rows
<1>4. /\ DOMAIN batches' = DOMAIN batches \cup {Len(batches) + 1} /\ batches' \in Seq(Rows)
      /\ Len(batches) + 1 \in Nat \ {0} /\ Len(batches) + 1 \notin DOMAIN batches
      /\ \A i \in DOMAIN batches : batches'[i] = batches[i]
      /\ batches'[Len(batches) + 1] = row
  BY <1>3
<1> QED BY <1>2, <1>4 DEF row, Rows

\* The calls that a batch writes, those that it links, and the answered ones it dates a lead by.
Touched(r)    == {c \in r.items : Outcome(c, Len(batches) + 1) # "duplicate"}
Fresh(r)      == {c \in Touched(r) : Linkable(c)}
Contact(r, l) == {c \in Touched(r) \cap Answered : matching[c] = l /\ (c \in Fresh(r) \/ link[c] = l)}

LEMMA IngestEffect ==
  ASSUME TypeOK, NEW r \in wire, IngestNew(r)
  PROVE  /\ stored' = [c \in Calls |-> IF c \in Touched(r) THEN Len(batches) + 1 ELSE stored[c]]
         /\ ingested' = [c \in Calls |->
              IF c \in Touched(r) /\ Outcome(c, Len(batches) + 1) = "created" THEN ingested[c] + 1 ELSE ingested[c]]
         /\ link' = [c \in Calls |-> IF c \in Fresh(r) THEN matching[c] ELSE link[c]]
         /\ manual' = manual \ Fresh(r)
         /\ lastContact' = [l \in Leads |-> Max({lastContact[l]} \cup Contact(r, l))]
         /\ r.items \subseteq Calls /\ Touched(r) \subseteq Calls /\ Fresh(r) \subseteq Calls
         /\ \A c \in r.items : c \notin Touched(r) => stored[c] # 0
<1>1. r.items \subseteq Calls
  BY DEF TypeOK, Requests
<1>2. \A c \in r.items : c \notin Touched(r) => stored[c] # 0
  BY DEF Touched, Outcome
<1> QED BY <1>1, <1>2 DEF IngestNew, Items, Touched, Fresh, Contact

LEMMA ContactType ==
  ASSUME TypeOK, NEW r \in wire, NEW l \in Leads
  PROVE  /\ Contact(r, l) \in SUBSET Nat /\ IsFiniteSet(Contact(r, l)) /\ Contact(r, l) \subseteq Calls
         /\ Max({lastContact[l]} \cup Contact(r, l)) \in Nat
<1>1. Contact(r, l) \in SUBSET Calls /\ lastContact[l] \in Nat
  BY CallsAreNumbered DEF Contact, TypeOK
<1>2. Contact(r, l) \in SUBSET Nat /\ IsFiniteSet(Contact(r, l))
  BY <1>1, CallsFinite
<1>3. IsFiniteSet({lastContact[l]} \cup Contact(r, l))
  BY <1>2, FS_Union, FS_Singleton
<1>4. {lastContact[l]} \cup Contact(r, l) \in SUBSET Nat
  BY <1>1, <1>2
<1> QED BY <1>1, <1>2, <1>3, <1>4, MaxIsGreatest

LEMMA IngestNewTypes ==
  ASSUME TypeOK, NEW r \in wire, IngestNew(r)
  PROVE  /\ batches' \in Seq([prev : Nat, items : SUBSET Calls, sentAt : Nat])
         /\ stored' \in [Calls -> Nat] /\ ingested' \in [Calls -> Nat]
         /\ link' \in [Calls -> Leads \cup {NoLead}] /\ manual' \subseteq Calls
         /\ lastContact' \in [Leads -> Nat]
<1> DEFINE n == Len(batches) + 1
<1>0. n \in Nat /\ stored \in [Calls -> Nat] /\ ingested \in [Calls -> Nat]
  BY IngestFields DEF TypeOK
<1>1. stored' \in [Calls -> Nat] /\ ingested' \in [Calls -> Nat]
  <2>1. stored' = [c \in Calls |-> IF c \in Touched(r) THEN n ELSE stored[c]]
    BY IngestEffect
  <2>2. ingested' = [c \in Calls |->
          IF c \in Touched(r) /\ Outcome(c, n) = "created" THEN ingested[c] + 1 ELSE ingested[c]]
    BY IngestEffect
  <2> HIDE DEF n
  <2>3. stored' \in [Calls -> Nat]
    BY <1>0, <2>1
  <2>4. ingested' \in [Calls -> Nat]
    BY <1>0, <2>2
  <2> QED BY <2>3, <2>4
<1>2. link' \in [Calls -> Leads \cup {NoLead}] /\ manual' \subseteq Calls
  BY IngestEffect DEF TypeOK
<1>3. lastContact' \in [Leads -> Nat]
  BY IngestEffect, ContactType
<1> QED BY <1>1, <1>2, <1>3, IngestFields

LEMMA ServerTypes ==
  ASSUME TypeOK, \/ \E r \in wire : Ingest(r) \/ Refuse(r)
                 \/ \E c \in Calls, l \in Leads \cup {NoLead} : Rematch(c, l)
                 \/ \E k \in 1..MaxCorrections, c \in Calls, l \in Leads \cup {NoLead} : Ask(k, c, l)
                 \/ \E q \in asked : Correct(q)
  PROVE  TypeOK'
<1>1. ASSUME NEW r \in wire, Ingest(r) PROVE TypeOK'
  <2>1. PICK with \in {"ok", "conflict"} : Answers(r, with)
    BY <1>1 DEF Ingest
  <2>2. wire' \subseteq Requests /\ reply' \in {"none", "ok", "conflict", "denied", "closed"}
    BY <2>1, AnswersType
  <2>3. /\ batches' \in Seq([prev : Nat, items : SUBSET Calls, sentAt : Nat])
        /\ stored' \in [Calls -> Nat] /\ ingested' \in [Calls -> Nat]
        /\ link' \in [Calls -> Leads \cup {NoLead}] /\ manual' \subseteq Calls
        /\ lastContact' \in [Leads -> Nat]
    <3>1. CASE IngestNew(r)
      BY <3>1, IngestNewTypes
    <3>2. CASE UNCHANGED <<callVars, link, manual, lastContact>>
      BY <3>2 DEF TypeOK, callVars
    <3> QED BY <1>1, <3>1, <3>2 DEF Ingest
  <2> QED BY <1>1, <2>2, <2>3 DEF Ingest, TypeOK, phoneVars, workerVars, deskVars
<1>2. ASSUME NEW r \in wire, Refuse(r) PROVE TypeOK'
  <2>1. PICK with \in {"denied", "closed"} : Answers(r, with)
    BY <1>2 DEF Refuse
  <2>2. wire' \subseteq Requests /\ reply' \in {"none", "ok", "conflict", "denied", "closed"} /\ spent' \in Bounds
    BY <1>2, <2>1, AnswersType, SpendType DEF Refuse
  <2> QED BY <1>2, <2>2 DEF Refuse, TypeOK, phoneVars, workerVars, callVars, leadVars, deskVars
<1>3. ASSUME NEW c \in Calls, NEW l \in Leads \cup {NoLead}, Rematch(c, l) PROVE TypeOK'
  <2>1. matching' \in [Calls -> Leads \cup {NoLead}] /\ spent' \in Bounds
    BY <1>3, SpendType DEF Rematch, TypeOK
  <2> QED BY <1>3, <2>1 DEF Rematch, TypeOK, phoneVars, workerVars, callVars, deskVars
<1>4. ASSUME NEW k \in 1..MaxCorrections, NEW c \in Calls, NEW l \in Leads \cup {NoLead}, Ask(k, c, l) PROVE TypeOK'
  <2>1. link[c] \in Leads \cup {NoLead}
    BY DEF TypeOK
  <2>2. asked' \subseteq [id : 1..MaxCorrections, call : Calls,
                          expected : Leads \cup {NoLead}, replacement : Leads \cup {NoLead}]
    BY <1>4, <2>1 DEF Ask, TypeOK
  <2> QED BY <1>4, <2>2 DEF Ask, TypeOK, phoneVars, workerVars, callVars, leadVars
<1>5. ASSUME NEW q \in asked, Correct(q) PROVE TypeOK'
  <2>1. /\ q.id \in 1..MaxCorrections /\ q.call \in Calls /\ q.replacement \in Leads \cup {NoLead}
    BY DEF TypeOK
  <2>2. link' \in [Calls -> Leads \cup {NoLead}] /\ manual' \subseteq Calls /\ done' \subseteq 1..MaxCorrections
    <3>1. /\ link' = [link EXCEPT ![q.call] = q.replacement] /\ manual' = manual \cup {q.call}
          /\ done' = done \cup {q.id}
      BY <1>5 DEF Correct
    <3>2. link \in [Calls -> Leads \cup {NoLead}] /\ manual \subseteq Calls /\ done \subseteq 1..MaxCorrections
      BY DEF TypeOK
    <3> QED BY <2>1, <3>1, <3>2
  <2>3. lastContact' \in [Leads -> Nat]
    <3>1. \A l \in Leads : Latest(Contacts(l, q.call, q.replacement)) \in Nat
      BY CallsAreNumbered, LatestOf DEF Contacts
    <3>2. lastContact \in [Leads -> Nat]
      BY DEF TypeOK
    <3> QED BY <1>5, <3>1, <3>2 DEF Correct
  <2> QED BY <1>5, <2>2, <2>3 DEF Correct, TypeOK, phoneVars, workerVars, callVars
<1> QED BY <1>1, <1>2, <1>3, <1>4, <1>5

LEMMA TypeStep ==
  ASSUME TypeOK, [Next]_vars
  PROVE  TypeOK'
<1>1. CASE UNCHANGED vars
  BY <1>1 DEF TypeOK, vars, phoneVars, workerVars, callVars, leadVars, deskVars
<1>2. CASE Next
  BY <1>2, WorkerTypes, PhoneTypes, ServerTypes DEF Next, WorkerStep
<1> QED BY <1>1, <1>2
-------------------------------------------------------------------------------
(* The worker and the rows in flight.                                         *)

LEMMA FlightStep ==
  ASSUME TypeOK, TypeOK', FlightInv, [Next]_vars
  PROVE  FlightInv'
<1> DEFINE Moving(q) == {c \in Calls : q[c] = "IN_FLIGHT"}
<1>1. CASE Start
  BY <1>1 DEF Start, Recovered, FlightInv, TypeOK
<1>2. CASE Scan
  BY <1>2 DEF Scan, FlightInv, TypeOK
<1>3. CASE Upload
  <2>1. \A c \in Calls : queue[c] # "IN_FLIGHT"
    BY <1>3 DEF Upload, FlightInv
  <2>2. pc' = "waiting" /\ sending'.items = Chosen /\ prefs' = prefs /\ prefs.open
    BY <1>3 DEF Upload, FlightInv
  <2>3. queue' = [c \in Calls |-> IF c \in Chosen THEN "IN_FLIGHT" ELSE queue[c]]
    BY <1>3 DEF Upload
  <2>4. {c \in Calls : queue'[c] = "IN_FLIGHT"} = Chosen
    BY <2>1, <2>3, ChosenType
  <2> QED BY <2>2, <2>4 DEF FlightInv
<1>4. CASE NothingDue
  BY <1>4 DEF NothingDue, FlightInv, phoneVars
<1>5. CASE Acknowledge
  <2>1. PICK i \in DOMAIN batches : prefs' = [prefs EXCEPT !.cursor = i]
    BY <1>5 DEF Acknowledge
  <2>2. prefs'.open = prefs.open /\ prefs.open
    BY <1>5, <2>1 DEF Acknowledge, FlightInv, TypeOK, Prefs
  <2> QED BY <1>5, <2>2 DEF Acknowledge, FlightInv
<1>6. CASE Rejected \/ Finish
  BY <1>6 DEF Rejected, Finish, FlightInv
<1>7. CASE UploadFails \/ HeartbeatFails \/ Die \/ CloseGate \/ OpenGate
  BY <1>7 DEF UploadFails, HeartbeatFails, Die, CloseGate, OpenGate, RunFails, FlightInv, workerVars
<1>8. CASE UNCHANGED <<queue, pc, sending, prefs>>
  BY <1>8 DEF FlightInv
<1>9. (\/ Flush \/ UNCHANGED vars
       \/ \E c \in Calls : LogCall(c) \/ DelayOver(c)
       \/ \E r \in wire : Ingest(r) \/ Refuse(r)
       \/ \E c \in Calls, l \in Leads \cup {NoLead} : Rematch(c, l)
       \/ \E k \in 1..MaxCorrections, c \in Calls, l \in Leads \cup {NoLead} : Ask(k, c, l)
       \/ \E q \in asked : Correct(q)) => UNCHANGED <<queue, pc, sending, prefs>>
  BY DEF Flush, LogCall, DelayOver, Ingest, Refuse, Rematch, Ask, Correct, vars, phoneVars, workerVars
<1> QED BY <1>1, <1>2, <1>3, <1>4, <1>5, <1>6, <1>7, <1>8, <1>9 DEF Next, WorkerStep

-------------------------------------------------------------------------------
(* The stamps and the checkpoint.                                             *)

\* What a scan takes up was never in the queue.
LEMMA InsertedIsNew ==
  ASSUME TypeOK, FlightInv, StampedOnce, pc = "scan"
  PROVE  /\ prefs.open /\ Inserted \subseteq Observed /\ Inserted \subseteq logged
         /\ \A c \in Inserted : stamp[c] = 0 /\ queue[c] = "absent"
<1>1. prefs.open
  BY DEF FlightInv
<1>2. Inserted \subseteq Observed /\ Inserted \subseteq Unread /\ Inserted \subseteq logged /\ Inserted \subseteq Calls
  BY ChosenType DEF Inserted
<1>3. ASSUME NEW c \in Inserted PROVE stamp[c] = 0 /\ queue[c] = "absent"
  <2>1. queue[c] = "absent"
    BY DEF Inserted
  <2>2. c > prefs.scan /\ c \in Calls
    BY <1>2 DEF Unread
  <2>3. ~(c <= disk.scan)
    <3>1. c \in Nat /\ prefs.scan \in Nat /\ disk.scan \in Nat
      BY <2>2, CallsAreNumbered DEF TypeOK, Prefs
    <3>2. disk.scan <= prefs.scan
      BY <1>1 DEF StampedOnce
    <3> QED BY <2>2, <3>1, <3>2
  <2> QED BY <1>1, <2>1, <2>2, <2>3 DEF StampedOnce
<1> QED BY <1>1, <1>2, <1>3

\* A stamp, once given, stays.
LEMMA StampStays ==
  ASSUME TypeOK, FlightInv, StampedOnce, [Next]_vars
  PROVE  \A c \in Calls : stamp[c] # 0 => stamp'[c] = stamp[c]
<1>1. CASE Scan
  <2>1. stamp' = [c \in Calls |-> IF c \in Inserted THEN NextStamp ELSE stamp[c]] /\ pc = "scan"
    BY <1>1 DEF Scan
  <2> QED BY <2>1, InsertedIsNew
<1>2. CASE UNCHANGED stamp
  BY <1>2
<1>3. [Next]_vars /\ ~Scan => UNCHANGED stamp
  BY DEF Next, WorkerStep, Start, Upload, NothingDue, Acknowledge, Rejected, Finish, UploadFails,
         HeartbeatFails, Flush, Die, CloseGate, OpenGate, LogCall, DelayOver, Ingest, Refuse, Rematch,
         Ask, Correct, vars, phoneVars
<1> QED BY <1>1, <1>2, <1>3

LEMMA StampedStep ==
  ASSUME TypeOK, TypeOK', FlightInv, StampedOnce, [Next]_vars
  PROVE  StampedOnce'
<1>0. /\ prefs \in Prefs /\ disk \in Prefs /\ prefs.scan \in Nat /\ disk.scan \in Nat
      /\ Calls \subseteq Nat
  BY CallsAreNumbered DEF TypeOK, Prefs
<1>1. ASSUME UNCHANGED <<stamp, prefs, disk>>, logged \subseteq logged',
             \A c \in Calls : queue'[c] # "absent" => queue[c] # "absent",
             \A c \in Calls : (prefs.open /\ stamp[c] # 0 /\ queue[c] # "absent" /\ queue'[c] = "absent")
                                => c <= disk.scan
      PROVE  StampedOnce'
  BY <1>1 DEF StampedOnce
<1>2. CASE Start
  <2>1. \A c \in Calls : queue'[c] = "absent" <=> queue[c] = "absent"
    BY <1>2 DEF Start, Recovered, TypeOK
  <2> QED BY <1>1, <1>2, <2>1 DEF Start
<1>3. CASE Scan
  <2>1. /\ prefs.open /\ Inserted \subseteq logged /\ logged' = logged /\ disk' = disk
        /\ \A c \in Inserted : stamp[c] = 0 /\ queue[c] = "absent"
    BY <1>3, InsertedIsNew DEF Scan
  <2>2. prefs'.open = prefs.open /\ prefs'.scan = Max({prefs.scan, Latest(Observed)})
    BY <1>0, <1>3 DEF Scan, Prefs
  <2>3. prefs.scan <= prefs'.scan
    BY <1>0, <2>2, ChosenType, LatestOf, MaxOfTwo
  <2>4. disk.scan <= prefs'.scan
    <3>1. prefs'.scan \in Nat /\ disk.scan <= prefs.scan
      BY <2>1 DEF TypeOK, Prefs, StampedOnce
    <3> QED BY <1>0, <2>3, <3>1
  <2>5. \A c \in Calls : /\ stamp'[c] = IF c \in Inserted THEN NextStamp ELSE stamp[c]
                         /\ queue'[c] = IF c \in Inserted THEN "PENDING" ELSE queue[c]
    BY <1>3 DEF Scan
  <2>6. NextStamp # 0
    BY NextStampIsNew DEF TypeOK
  <2>7. \A c \in Calls : queue'[c] # "absent" => stamp'[c] # 0
    BY <2>5, <2>6 DEF StampedOnce
  <2>8. \A c \in Calls : stamp'[c] # 0 => c \in logged'
    BY <2>1, <2>5 DEF StampedOnce
  <2>9. \A c \in Calls : (prefs'.open /\ stamp'[c] # 0 /\ queue'[c] = "absent") => c <= disk'.scan
    BY <2>1, <2>5 DEF StampedOnce
  <2> QED BY <2>1, <2>2, <2>4, <2>7, <2>8, <2>9 DEF StampedOnce
<1>4. CASE Upload
  <2>1. \A c \in Chosen : queue[c] # "absent"
    BY ChosenType DEF DueCalls
  <2>2. \A c \in Calls : queue'[c] = "absent" <=> queue[c] = "absent"
    BY <1>4, <2>1 DEF Upload
  <2> QED BY <1>1, <1>4, <2>2 DEF Upload
<1>5. CASE Acknowledge \/ Rejected \/ UploadFails
  <2>1. pc = "waiting" /\ UNCHANGED <<stamp, disk, logged>>
    BY <1>5 DEF Acknowledge, Rejected, UploadFails
  <2>2. \A c \in sending.items : c \in Calls /\ queue[c] = "IN_FLIGHT"
    BY <2>1 DEF FlightInv
  <2>3. \A c \in Calls : queue'[c] = "absent" <=> queue[c] = "absent"
    BY <1>5, <2>2 DEF Acknowledge, Rejected, UploadFails, TypeOK
  <2>4. prefs'.open = prefs.open /\ prefs'.scan = prefs.scan
    BY <1>0, <1>5 DEF Acknowledge, Rejected, UploadFails, Prefs
  <2> QED BY <2>1, <2>3, <2>4 DEF StampedOnce
<1>6. CASE Finish
  <2>1. PICK gone \in SUBSET Calls : /\ \A c \in gone : c <= disk.scan
                                     /\ queue' = [c \in Calls |-> IF c \in gone THEN "absent" ELSE queue[c]]
    <3>1. PICK old \in 0..NextStamp :
            LET gone == {c \in Calls : queue[c] = "SYNCED" /\ stamp[c] < old}
            IN  /\ \A c \in gone : c <= disk.scan
                /\ queue' = [c \in Calls |-> IF c \in gone THEN "absent" ELSE queue[c]]
      BY <1>6 DEF Finish
    <3> QED BY <3>1
  <2>2. \A c \in Calls : queue'[c] # "absent" => queue[c] # "absent"
    BY <2>1
  <2>3. \A c \in Calls : (queue[c] # "absent" /\ queue'[c] = "absent") => c <= disk.scan
    BY <2>1
  <2> QED BY <1>1, <1>6, <2>2, <2>3 DEF Finish
<1>7. CASE Flush
  <2>1. disk' = prefs /\ prefs' = prefs /\ UNCHANGED <<queue, stamp, logged>>
    BY <1>7 DEF Flush
  <2>2. ASSUME NEW c \in Calls, prefs.open, stamp[c] # 0, queue[c] = "absent" PROVE c <= prefs.scan
    <3>1. c <= disk.scan /\ disk.scan <= prefs.scan /\ c \in Nat
      BY <1>0, <2>2 DEF StampedOnce
    <3> QED BY <1>0, <3>1
  <2>3. prefs.scan <= prefs.scan
    BY <1>0
  <2> QED BY <2>1, <2>2, <2>3 DEF StampedOnce
<1>8. CASE Die
  <2>1. prefs' = disk /\ disk' = disk /\ UNCHANGED <<queue, stamp, logged>>
    BY <1>8 DEF Die
  <2>2. disk.scan <= disk.scan
    BY <1>0
  <2> QED BY <2>1, <2>2 DEF StampedOnce
<1>9. CASE CloseGate
  <2>1. ~prefs'.open /\ ~disk'.open /\ (\A c \in Calls : queue'[c] = "absent") /\ UNCHANGED <<stamp, logged>>
    BY <1>0, <1>9 DEF CloseGate, Prefs
  <2> QED BY <2>1 DEF StampedOnce, TypeOK, Prefs
<1>10. CASE OpenGate
  <2>1. PICK t \in Checkpoints : prefs' = [scan |-> t, cursor |-> prefs.cursor, open |-> TRUE] /\ disk' = prefs'
    BY <1>10 DEF OpenGate
  <2>2. UNCHANGED <<queue, stamp, logged>> /\ t \in Nat /\ \A c \in logged : c <= t
    BY <1>0, <1>10, <2>1 DEF OpenGate, Checkpoints
  <2>3. prefs'.scan = t /\ disk'.scan = t /\ prefs'.open /\ disk'.open /\ t <= t
    BY <2>1, <2>2
  <2> QED BY <2>2, <2>3 DEF StampedOnce
<1>11. ASSUME UNCHANGED <<queue, stamp, prefs, disk>>, logged \subseteq logged' PROVE StampedOnce'
  BY <1>11 DEF StampedOnce
<1>12. (\/ NothingDue \/ HeartbeatFails \/ UNCHANGED vars
        \/ \E c \in Calls : LogCall(c) \/ DelayOver(c)
        \/ \E r \in wire : Ingest(r) \/ Refuse(r)
        \/ \E c \in Calls, l \in Leads \cup {NoLead} : Rematch(c, l)
        \/ \E k \in 1..MaxCorrections, c \in Calls, l \in Leads \cup {NoLead} : Ask(k, c, l)
        \/ \E q \in asked : Correct(q)) => UNCHANGED <<queue, stamp, prefs, disk>> /\ logged \subseteq logged'
  BY DEF NothingDue, HeartbeatFails, LogCall, DelayOver, Ingest, Refuse, Rematch, Ask, Correct, vars, phoneVars
<1> QED BY <1>2, <1>3, <1>4, <1>5, <1>6, <1>7, <1>8, <1>9, <1>10, <1>11, <1>12 DEF Next, WorkerStep
-------------------------------------------------------------------------------
(* The bytes of a request.                                                    *)

LEMMA ItemsAreCalls ==
  ASSUME TypeOK
  PROVE  /\ sending.items \subseteq Calls
         /\ \A r \in wire : r.items \subseteq Calls
         /\ \A i \in DOMAIN batches : batches[i].items \subseteq Calls
<1> DEFINE Rows == [prev : Nat, items : SUBSET Calls, sentAt : Nat]
<1>1. batches \in Seq(Rows) /\ sending \in Requests /\ wire \subseteq Requests
  BY DEF TypeOK
<1>2. \A r \in Rows : r.items \subseteq Calls
  OBVIOUS
<1>3. \A r \in Requests : r.items \subseteq Calls
  BY DEF Requests
<1> HIDE DEF Rows
<1>4. \A i \in DOMAIN batches : batches[i] \in Rows
  BY <1>1
<1> QED BY <1>1, <1>2, <1>3, <1>4

\* Stamps that stay keep every request that they determine as it is.
LEMMA DeterminedStays ==
  ASSUME NEW r, Determined(r), r.items \subseteq Calls,
         \A c \in Calls : stamp[c] # 0 => stamp'[c] = stamp[c]
  PROVE  r.sentAt = Max({stamp'[c] : c \in r.items}) /\ \A c \in r.items : stamp'[c] # 0
<1>1. \A c \in r.items : stamp'[c] = stamp[c] /\ stamp[c] # 0
  BY DEF Determined
<1>2. {stamp'[c] : c \in r.items} = {stamp[c] : c \in r.items}
  BY <1>1
<1> QED BY <1>1, <1>2 DEF Determined

\* A registered batch of the same calls carries the same bytes: no conflict.
LEMMA NeverConflicts ==
  ASSUME TypeOK, SameBytes, NEW r \in wire, NEW i \in Registered(r)
  PROVE  SamePayload(i, r)
<1>1. i \in DOMAIN batches /\ batches[i].items = r.items
  BY DEF Registered
<1>2. Determined(r) /\ Determined(batches[i])
  BY <1>1 DEF SameBytes
<1> QED BY <1>1, <1>2 DEF Determined, SamePayload

LEMMA BytesStep ==
  ASSUME TypeOK, TypeOK', FlightInv, StampedOnce, SameBytes, [Next]_vars
  PROVE  SameBytes'
<1>0. /\ \A c \in Calls : stamp[c] # 0 => stamp'[c] = stamp[c]
      /\ \A r \in wire : r.items \subseteq Calls
      /\ \A i \in DOMAIN batches : batches[i].items \subseteq Calls
  BY StampStays, ItemsAreCalls
<1>1. \A r \in wire : r.sentAt = Max({stamp'[c] : c \in r.items}) /\ \A c \in r.items : stamp'[c] # 0
  BY <1>0, DeterminedStays DEF SameBytes
<1>2. \A i \in DOMAIN batches : /\ batches[i].sentAt = Max({stamp'[c] : c \in batches[i].items})
                                /\ \A c \in batches[i].items : stamp'[c] # 0
  BY <1>0, DeterminedStays DEF SameBytes
<1>3. ASSUME wire' \subseteq wire, UNCHANGED batches, reply' # "conflict" PROVE SameBytes'
  BY <1>1, <1>2, <1>3 DEF SameBytes, Determined
<1>4. CASE Upload
  <2>1. /\ wire' = wire \cup {sending'} /\ batches' = batches /\ reply' = "none" /\ stamp' = stamp
        /\ sending'.items = Chosen /\ sending'.sentAt = Max({stamp[c] : c \in Chosen})
    BY <1>4 DEF Upload, callVars
  <2>2. \A c \in Chosen : stamp[c] # 0
    BY ChosenType DEF DueCalls, StampedOnce
  <2>3. sending'.sentAt = Max({stamp'[c] : c \in sending'.items}) /\ \A c \in sending'.items : stamp'[c] # 0
    BY <2>1, <2>2
  <2> QED BY <1>1, <1>2, <2>1, <2>3 DEF SameBytes, Determined
<1>5. ASSUME NEW r \in wire, Ingest(r) PROVE SameBytes'
  <2>1. CASE IngestNew(r) /\ Answers(r, "ok")
    <3>1. wire' \subseteq wire /\ reply' # "conflict"
      BY <2>1, AnswersType DEF SameBytes
    <3> DEFINE n == Len(batches) + 1
    <3>2. /\ DOMAIN batches' = DOMAIN batches \cup {n}
          /\ \A i \in DOMAIN batches : batches'[i] = batches[i]
          /\ batches'[n].items = r.items /\ batches'[n].sentAt = r.sentAt
      <4>1. batches'[n] = [prev |-> r.prev, items |-> r.items, sentAt |-> r.sentAt]
        BY <2>1, IngestFields
      <4>2. DOMAIN batches' = DOMAIN batches \cup {n} /\ \A i \in DOMAIN batches : batches'[i] = batches[i]
        BY <2>1, IngestFields
      <4> HIDE DEF n
      <4> QED BY <4>1, <4>2
    <3> HIDE DEF n
    <3>3. \A i \in DOMAIN batches' : /\ batches'[i].sentAt = Max({stamp'[c] : c \in batches'[i].items})
                                     /\ \A c \in batches'[i].items : stamp'[c] # 0
      <4>1. ASSUME NEW i \in DOMAIN batches PROVE /\ batches'[i].sentAt = Max({stamp'[c] : c \in batches'[i].items})
                                                  /\ \A c \in batches'[i].items : stamp'[c] # 0
        BY <1>2, <3>2
      <4>2. batches'[n].sentAt = Max({stamp'[c] : c \in batches'[n].items}) /\ \A c \in batches'[n].items : stamp'[c] # 0
        BY <1>1, <3>2
      <4> QED BY <3>2, <4>1, <4>2
    <3> QED BY <1>1, <3>1, <3>3 DEF SameBytes, Determined
  <2>2. CASE Answers(r, "ok") /\ UNCHANGED batches
    <3>1. wire' \subseteq wire /\ reply' # "conflict"
      BY <2>2, AnswersType DEF SameBytes
    <3> QED BY <1>3, <2>2, <3>1
  <2> QED BY <1>5, <2>1, <2>2, NeverConflicts DEF Ingest, callVars
<1>6. ASSUME NEW r \in wire, Refuse(r) PROVE SameBytes'
  <2>1. wire' \subseteq wire /\ reply' # "conflict"
    BY <1>6, AnswersType DEF Refuse, SameBytes
  <2> QED BY <1>3, <1>6, <2>1 DEF Refuse, callVars
<1>7. (\/ Start \/ Scan \/ NothingDue \/ Acknowledge \/ Rejected \/ Finish \/ UploadFails \/ HeartbeatFails
       \/ Flush \/ Die \/ CloseGate \/ OpenGate \/ UNCHANGED vars
       \/ \E c \in Calls : LogCall(c) \/ DelayOver(c)
       \/ \E c \in Calls, l \in Leads \cup {NoLead} : Rematch(c, l)
       \/ \E k \in 1..MaxCorrections, c \in Calls, l \in Leads \cup {NoLead} : Ask(k, c, l)
       \/ \E q \in asked : Correct(q)) => UNCHANGED <<wire, reply, batches>>
  BY DEF Start, Scan, NothingDue, Acknowledge, Rejected, Finish, UploadFails, HeartbeatFails, Flush, Die,
         CloseGate, OpenGate, LogCall, DelayOver, Rematch, Ask, Correct, vars, callVars
<1>8. ASSUME UNCHANGED <<wire, reply, batches>> PROVE SameBytes'
  BY <1>3, <1>8 DEF SameBytes
<1> QED BY <1>4, <1>5, <1>6, <1>7, <1>8 DEF Next, WorkerStep

-------------------------------------------------------------------------------
(* What the server has.                                                       *)

\* A new batch stores its calls and forgets none; each call that it creates gets its one event.
LEMMA IngestStores ==
  ASSUME TypeOK, NEW r \in wire, IngestNew(r)
  PROVE  /\ \A c \in Calls : stored[c] # 0 => stored'[c] # 0
         /\ \A c \in r.items : stored'[c] # 0
         /\ IngestedOnce => IngestedOnce'
<1> DEFINE n == Len(batches) + 1
<1>1. n # 0
  BY IngestFields
<1>2. /\ \A c \in Calls : stored'[c] = IF c \in Touched(r) THEN n ELSE stored[c]
      /\ \A c \in Calls : ingested'[c] = IF c \in Touched(r) /\ Outcome(c, n) = "created"
                                           THEN ingested[c] + 1 ELSE ingested[c]
      /\ r.items \subseteq Calls /\ \A c \in r.items : c \notin Touched(r) => stored[c] # 0
      /\ \A c \in Touched(r) : c \in Calls
  BY IngestEffect
<1>3. \A c \in Calls : Outcome(c, n) = "created" <=> stored[c] = 0
  BY DEF Outcome
<1> HIDE DEF n
<1>4. ASSUME IngestedOnce, NEW c \in Calls PROVE ingested'[c] = IF stored'[c] # 0 THEN 1 ELSE 0
  <2>1. ingested[c] = IF stored[c] # 0 THEN 1 ELSE 0
    BY <1>4 DEF IngestedOnce
  <2> QED BY <1>1, <1>2, <1>3, <2>1
<1> QED BY <1>1, <1>2, <1>4 DEF IngestedOnce

LEMMA StoredStays ==
  ASSUME TypeOK, [Next]_vars
  PROVE  \A c \in Calls : stored[c] # 0 => stored'[c] # 0
<1>1. ASSUME NEW r \in wire, Ingest(r) PROVE \A c \in Calls : stored[c] # 0 => stored'[c] # 0
  BY <1>1, IngestStores DEF Ingest, callVars
<1>2. [Next]_vars /\ ~(\E r \in wire : Ingest(r)) => UNCHANGED stored
  BY DEF Next, WorkerStep, Start, Scan, Upload, NothingDue, Acknowledge, Rejected, Finish, UploadFails,
         HeartbeatFails, Flush, Die, CloseGate, OpenGate, LogCall, DelayOver, Refuse, Rematch,
         Ask, Correct, vars, callVars
<1> QED BY <1>1, <1>2

LEMMA ServerStep ==
  ASSUME TypeOK, TypeOK', FlightInv, SameBytes, ServerHas, [Next]_vars
  PROVE  ServerHas'
<1>0. \A c \in Calls : stored[c] # 0 => stored'[c] # 0
  BY StoredStays
<1>01. /\ sending.items \subseteq Calls
       /\ \A i \in DOMAIN batches : batches[i].items \subseteq Calls
  BY ItemsAreCalls
<1>1. ASSUME UNCHANGED batches, \A c \in Calls : queue'[c] = "SYNCED" => queue[c] = "SYNCED",
             reply' = "ok" => (reply = "ok" /\ sending' = sending)
      PROVE  ServerHas'
  BY <1>0, <1>01, <1>1 DEF ServerHas
<1>2. CASE Start \/ Scan \/ Upload \/ Rejected \/ Finish \/ UploadFails \/ CloseGate
  <2>1. \A c \in Calls : queue'[c] = "SYNCED" => queue[c] = "SYNCED"
    BY <1>2 DEF Start, Recovered, Scan, Upload, Rejected, Finish, UploadFails, CloseGate, TypeOK
  <2>2. UNCHANGED batches /\ (reply' = "none" \/ UNCHANGED <<reply, sending>>)
    BY <1>2 DEF Start, Scan, Upload, Rejected, Finish, UploadFails, CloseGate, callVars
  <2> QED BY <1>1, <2>1, <2>2
<1>3. CASE Acknowledge
  <2>1. /\ queue' = [c \in Calls |-> IF c \in sending.items THEN "SYNCED" ELSE queue[c]]
        /\ UNCHANGED <<batches, stored, reply, sending>> /\ reply = "ok"
    BY <1>3 DEF Acknowledge, callVars
  <2>2. \A c \in Calls : queue'[c] = "SYNCED" => stored'[c] # 0
    BY <2>1 DEF ServerHas
  <2> QED BY <2>1, <2>2 DEF ServerHas
<1>4. ASSUME NEW r \in wire, Ingest(r) PROVE ServerHas'
  <2>1. UNCHANGED <<queue, sending>>
    BY <1>4 DEF Ingest, phoneVars, workerVars
  <2>2. CASE IngestNew(r) /\ Answers(r, "ok")
    <3> DEFINE n == Len(batches) + 1
    <3>1. /\ DOMAIN batches' = DOMAIN batches \cup {n}
          /\ \A i \in DOMAIN batches : batches'[i] = batches[i]
          /\ batches'[n].items = r.items
      <4>1. batches'[n] = [prev |-> r.prev, items |-> r.items, sentAt |-> r.sentAt]
        BY <2>2, IngestFields
      <4>2. DOMAIN batches' = DOMAIN batches \cup {n} /\ \A i \in DOMAIN batches : batches'[i] = batches[i]
        BY <2>2, IngestFields
      <4> HIDE DEF n
      <4> QED BY <4>1, <4>2
    <3> HIDE DEF n
    <3>2. \A c \in r.items : stored'[c] # 0
      BY <2>2, IngestStores
    <3>3. \A i \in DOMAIN batches' : \A c \in batches'[i].items : stored'[c] # 0
      BY <1>0, <1>01, <3>1, <3>2 DEF ServerHas
    <3>4. reply' = "ok" => \A c \in sending.items : stored'[c] # 0
      BY <1>0, <1>01, <2>2, <3>2, AnswersType DEF ServerHas
    <3> QED BY <1>0, <2>1, <3>3, <3>4 DEF ServerHas
  <2>3. CASE Answers(r, "ok") /\ Registered(r) # {} /\ UNCHANGED callVars
    <3>1. PICK i \in DOMAIN batches : batches[i].items = r.items
      BY <2>3 DEF Registered
    <3>2. \A c \in r.items : stored[c] # 0
      BY <3>1 DEF ServerHas
    <3>3. reply' = "ok" => \A c \in sending.items : stored[c] # 0
      BY <2>3, <3>2, AnswersType DEF ServerHas
    <3> QED BY <2>1, <2>3, <3>3 DEF ServerHas, callVars
  <2> QED BY <1>4, <2>2, <2>3, NeverConflicts DEF Ingest
<1>5. ASSUME NEW r \in wire, Refuse(r) PROVE ServerHas'
  <2>1. reply' = "ok" => reply = "ok"
    BY <1>5, AnswersType DEF Refuse
  <2> QED BY <1>1, <1>5, <2>1 DEF Refuse, phoneVars, workerVars, callVars
<1>6. (\/ NothingDue \/ HeartbeatFails \/ Flush \/ Die \/ OpenGate \/ UNCHANGED vars
       \/ \E c \in Calls : LogCall(c) \/ DelayOver(c)
       \/ \E c \in Calls, l \in Leads \cup {NoLead} : Rematch(c, l)
       \/ \E k \in 1..MaxCorrections, c \in Calls, l \in Leads \cup {NoLead} : Ask(k, c, l)
       \/ \E q \in asked : Correct(q)) => UNCHANGED <<queue, reply, sending, batches>>
  BY DEF NothingDue, HeartbeatFails, Flush, Die, OpenGate, LogCall, DelayOver, Rematch, Ask, Correct,
         vars, phoneVars, workerVars, callVars
<1> QED BY <1>1, <1>2, <1>3, <1>4, <1>5, <1>6 DEF Next, WorkerStep

LEMMA IngestedStep ==
  ASSUME TypeOK, IngestedOnce, [Next]_vars
  PROVE  IngestedOnce'
<1>1. ASSUME NEW r \in wire, Ingest(r) PROVE IngestedOnce'
  BY <1>1, IngestStores DEF Ingest, callVars, IngestedOnce
<1>2. [Next]_vars /\ ~(\E r \in wire : Ingest(r)) => UNCHANGED <<stored, ingested>>
  BY DEF Next, WorkerStep, Start, Scan, Upload, NothingDue, Acknowledge, Rejected, Finish, UploadFails,
         HeartbeatFails, Flush, Die, CloseGate, OpenGate, LogCall, DelayOver, Refuse, Rematch,
         Ask, Correct, vars, callVars
<1> QED BY <1>1, <1>2 DEF IngestedOnce
-------------------------------------------------------------------------------
(* The last contact of a lead.                                                *)
Linked(l) == {c \in Answered : link[c] = l}

LEMMA LinkedFinite ==
  ASSUME NEW S \in SUBSET Answered
  PROVE  S \in SUBSET Nat /\ IsFiniteSet(S) /\ S \in SUBSET Calls
BY CallsAreNumbered, CallsFinite

\* A batch adds its answered calls to those of the lead: the later of the old date and theirs.
LEMMA ContactIngest ==
  ASSUME TypeOK, LastContactAgrees, NEW r \in wire, IngestNew(r)
  PROVE  LastContactAgrees'
<1> SUFFICES ASSUME NEW l \in Leads
             PROVE  lastContact'[l] = Max({c \in Answered : link'[c] = l} \cup {0})
  BY DEF LastContactAgrees, Latest
<1>1. lastContact'[l] = Max({lastContact[l]} \cup Contact(r, l))
  BY IngestEffect
<1>2. lastContact[l] = Max(Linked(l) \cup {0})
  BY DEF LastContactAgrees, Latest, Linked
<1>3. /\ Linked(l) \in SUBSET Nat /\ IsFiniteSet(Linked(l))
      /\ Contact(r, l) \in SUBSET Nat /\ IsFiniteSet(Contact(r, l))
  BY LinkedFinite, ContactType DEF Linked
<1>4. Linked(l) \cup {0} \in SUBSET Nat /\ IsFiniteSet(Linked(l) \cup {0}) /\ Linked(l) \cup {0} # {}
  BY <1>3, FS_AddElement
<1>5. Max((Linked(l) \cup {0}) \cup Contact(r, l)) = lastContact'[l]
  BY <1>1, <1>2, <1>3, <1>4, MaxOfUnion
<1>6. {c \in Answered : link'[c] = l} = Linked(l) \cup Contact(r, l)
  <2>1. \A c \in Answered : link'[c] = IF c \in Fresh(r) THEN matching[c] ELSE link[c]
    BY IngestEffect, CallsAreNumbered
  <2>2. \A c \in Fresh(r) : c \in Touched(r) /\ link[c] = NoLead
    BY DEF Fresh, Linkable
  <2>3. l # NoLead
    BY CallsAreNumbered
  <2>4. \A c \in Answered : c \in Contact(r, l) <=> c \in Touched(r) /\ matching[c] = l /\ (c \in Fresh(r) \/ link[c] = l)
    BY DEF Contact
  <2>5. Contact(r, l) \subseteq Answered
    BY DEF Contact
  <2>6. \A c \in Answered : link'[c] = l <=> c \in Linked(l) \cup Contact(r, l)
    BY <2>1, <2>2, <2>3, <2>4 DEF Linked
  <2>7. Linked(l) \subseteq Answered
    BY DEF Linked
  <2> QED BY <2>5, <2>6, <2>7
<1>7. (Linked(l) \cup Contact(r, l)) \cup {0} = (Linked(l) \cup {0}) \cup Contact(r, l)
  OBVIOUS
<1> QED BY <1>5, <1>6, <1>7

LEMMA ContactCorrect ==
  ASSUME TypeOK, LastContactAgrees, NEW q \in asked, Correct(q)
  PROVE  LastContactAgrees'
<1> SUFFICES ASSUME NEW l \in Leads
             PROVE  lastContact'[l] = Latest({c \in Answered : link'[c] = l})
  BY DEF LastContactAgrees, Latest
<1>1. /\ link' = [link EXCEPT ![q.call] = q.replacement] /\ link[q.call] = q.expected
      /\ lastContact'[l] = IF l \in {q.expected, q.replacement}
                             THEN Latest(Contacts(l, q.call, q.replacement)) ELSE lastContact[l]
  BY DEF Correct
<1>2. \A c \in Answered : link'[c] = IF c = q.call THEN q.replacement ELSE link[c]
  BY <1>1, CallsAreNumbered DEF TypeOK
<1>3. {c \in Answered : link'[c] = l} = Contacts(l, q.call, q.replacement)
  BY <1>2 DEF Contacts
<1>4. CASE l \in {q.expected, q.replacement}
  BY <1>1, <1>3, <1>4
<1>5. CASE l \notin {q.expected, q.replacement}
  <2>1. {c \in Answered : link'[c] = l} = {c \in Answered : link[c] = l}
    BY <1>1, <1>2, <1>5
  <2> QED BY <1>1, <1>5, <2>1 DEF LastContactAgrees
<1> QED BY <1>4, <1>5

LEMMA ContactStep ==
  ASSUME TypeOK, LastContactAgrees, [Next]_vars
  PROVE  LastContactAgrees'
<1>1. ASSUME UNCHANGED <<link, lastContact>> PROVE LastContactAgrees'
  BY <1>1 DEF LastContactAgrees, Latest
<1>2. ASSUME NEW r \in wire, Ingest(r) PROVE LastContactAgrees'
  BY <1>1, <1>2, ContactIngest DEF Ingest
<1>3. ASSUME NEW q \in asked, Correct(q) PROVE LastContactAgrees'
  BY <1>3, ContactCorrect
<1>4. [Next]_vars /\ ~(\E r \in wire : Ingest(r)) /\ ~(\E q \in asked : Correct(q)) => UNCHANGED <<link, lastContact>>
  BY DEF Next, WorkerStep, Start, Scan, Upload, NothingDue, Acknowledge, Rejected, Finish, UploadFails,
         HeartbeatFails, Flush, Die, CloseGate, OpenGate, LogCall, DelayOver, Refuse, Rematch,
         Ask, vars, leadVars
<1> QED BY <1>1, <1>2, <1>3, <1>4

-------------------------------------------------------------------------------
(* The theorems.                                                              *)

LEMMA SyncInit == Init => SyncInv
<1> SUFFICES ASSUME Init PROVE SyncInv
  OBVIOUS
<1>1. TypeOK
  BY TypeInit
<1>2. FlightInv /\ ServerHas /\ IngestedOnce
  BY DEF Init, FlightInv, ServerHas, IngestedOnce
<1>3. StampedOnce
  BY DEF Init, StampedOnce
<1>4. SameBytes
  BY DEF Init, SameBytes
<1>5. LastContactAgrees
  <2>1. \A l \in Leads : {c \in Answered : link[c] = l} = {}
    BY CallsAreNumbered DEF Init
  <2>2. Latest({}) = 0
    <3>1. Latest({}) \in {} \cup {0}
      BY LatestOf
    <3> QED BY <3>1
  <2> QED BY <2>1, <2>2 DEF Init, LastContactAgrees
<1> QED BY <1>1, <1>2, <1>3, <1>4, <1>5 DEF SyncInv

LEMMA SyncStep == SyncInv /\ [Next]_vars => SyncInv'
<1> SUFFICES ASSUME SyncInv, [Next]_vars PROVE SyncInv'
  OBVIOUS
<1>1. TypeOK'
  BY TypeStep DEF SyncInv
<1> QED BY <1>1, FlightStep, StampedStep, BytesStep, ServerStep, IngestedStep, ContactStep DEF SyncInv

\* The inductive invariant: types, the rows in flight, stamps given once and requests whose
\* bytes follow from their calls, and a server that has whatever it acknowledged.
THEOREM SyncInvariant == Spec => []SyncInv
BY SyncInit, SyncStep, PTL DEF Spec

\* While the worker waits, the rows in flight are exactly those of its batch: the queue's check
\* "Queue batch state changed concurrently" never fails.
THEOREM BatchIsInFlight == Spec => []CallSyncInv
<1>1. SyncInv => CallSyncInv
  BY DEF SyncInv, FlightInv, CallSyncInv
<1> QED BY <1>1, SyncInvariant, PTL

\* A row that the phone calls synced, and prunes a day later, is a call that the server has.
THEOREM AcknowledgedIsStored == Spec => []SyncedIsStored
<1>1. SyncInv => SyncedIsStored
  BY DEF SyncInv, ServerHas, SyncedIsStored
<1> QED BY <1>1, SyncInvariant, PTL

\* Each stored call has one call.ingested event, in however many batches it came.
THEOREM OneEventPerCall == Spec => []IngestedOnce
<1>1. SyncInv => IngestedOnce
  BY DEF SyncInv
<1> QED BY <1>1, SyncInvariant, PTL

\* No request is refused because its batch id is registered with other bytes.
THEOREM BatchIdNamesOnePayload == Spec => []NoBatchConflict
<1>1. SyncInv => NoBatchConflict
  BY DEF SyncInv, SameBytes, NoBatchConflict
<1> QED BY <1>1, SyncInvariant, PTL

\* A lead's last contact is its latest answered call, through ingestion in any order and corrections.
THEOREM LastContactIsLatest == Spec => []LastContactAgrees
<1>1. SyncInv => LastContactAgrees
  BY DEF SyncInv
<1> QED BY <1>1, SyncInvariant, PTL

\* What the checkpoint passes in a step is in the queue after it.
LEMMA CheckpointStep ==
  ASSUME SyncInv, [Next]_vars, NEW c \in logged, prefs.open, prefs.scan < c, c <= prefs'.scan
  PROVE  queue'[c] # "absent"
<1>0. /\ TypeOK /\ TypeOK' /\ c \in Calls /\ c \in Nat /\ prefs \in Prefs /\ prefs.scan \in Nat
      /\ prefs'.scan \in Nat /\ disk.scan \in Nat
  BY TypeStep, CallsAreNumbered DEF SyncInv, TypeOK, Prefs
<1>1. CASE Scan
  <2>1. prefs'.scan = Max({prefs.scan, Latest(Observed)})
    BY <1>0, <1>1 DEF Scan, Prefs
  <2>2. Latest(Observed) \in Observed \cup {0} /\ Latest(Observed) \in Nat
    BY <1>0, ChosenType, LatestOf
  <2>3. prefs'.scan \in {prefs.scan, Latest(Observed)}
    BY <1>0, <2>1, <2>2, MaxOfTwo
  <2>4. c <= Latest(Observed) /\ Latest(Observed) # 0
    BY <1>0, <2>2, <2>3
  <2>5. c \in Unread
    BY <1>0 DEF Unread
  <2>6. c \in Observed
    BY <1>0, <2>2, <2>4, <2>5, ChosenType
  <2>7. queue'[c] = IF c \in Inserted THEN "PENDING" ELSE queue[c]
    BY <1>0, <1>1 DEF Scan
  <2> QED BY <2>6, <2>7 DEF Inserted
<1>2. ASSUME prefs'.scan <= prefs.scan PROVE FALSE
  BY <1>0, <1>2
<1>3. CASE Acknowledge
  <2>1. prefs'.scan = prefs.scan
    BY <1>0, <1>3 DEF Acknowledge, Prefs
  <2> QED BY <1>0, <1>2, <2>1
<1>4. CASE Die
  <2>1. prefs' = disk /\ disk.scan <= prefs.scan
    BY <1>4 DEF Die, SyncInv, StampedOnce
  <2> QED BY <1>2, <2>1
<1>5. CASE CloseGate
  <2>1. prefs'.scan = 0
    BY <1>5 DEF CloseGate
  <2> QED BY <1>0, <1>2, <2>1
<1>6. CASE OpenGate
  BY <1>6 DEF OpenGate
<1>7. [Next]_vars /\ ~(Scan \/ Acknowledge \/ Die \/ CloseGate \/ OpenGate) => UNCHANGED prefs
  BY DEF Next, WorkerStep, Start, Upload, NothingDue, Rejected, Finish, UploadFails,
         HeartbeatFails, Flush, LogCall, DelayOver, Ingest, Refuse, Rematch, Ask, Correct, vars, phoneVars
<1> QED BY <1>0, <1>1, <1>2, <1>3, <1>4, <1>5, <1>6, <1>7

\* The checkpoint never passes a call that the scan did not insert, and a crash takes it back
\* only over calls that are read again.
THEOREM NoCallIsSkipped == Spec => CheckpointCoversQueue
<1>1. SyncInv /\ [Next]_vars => [\A c \in logged : prefs.open /\ prefs.scan < c /\ c <= prefs'.scan
                                     => queue'[c] # "absent"]_vars
  BY CheckpointStep
<1> QED BY <1>1, SyncInvariant, PTL DEF Spec, CheckpointCoversQueue

\* Only a correction moves a link that a manager set: ingestion leaves every standing link alone.
THEOREM ManagerHasTheLastWord == Spec => ManualLinkStands
<1>1. SyncInv /\ [Next]_vars => [\A c \in manual : link[c] # NoLead /\ link'[c] # link[c] => done' # done]_vars
  <2> SUFFICES ASSUME SyncInv, [Next]_vars, NEW c \in manual, link[c] # NoLead, link'[c] # link[c]
               PROVE  done' # done
    OBVIOUS
  <2>0. TypeOK /\ c \in Calls
    BY DEF SyncInv, TypeOK
  <2>1. ASSUME NEW r \in wire, Ingest(r) PROVE FALSE
    <3>1. CASE IngestNew(r)
      BY <2>0, <3>1, IngestEffect DEF Fresh, Linkable
    <3>2. CASE UNCHANGED link
      BY <3>2
    <3> QED BY <2>1, <3>1, <3>2 DEF Ingest
  <2>2. ASSUME NEW q \in asked, Correct(q) PROVE done' # done
    BY <2>2 DEF Correct, NotDone
  <2>3. [Next]_vars /\ ~(\E r \in wire : Ingest(r)) /\ ~(\E q \in asked : Correct(q)) => UNCHANGED link
    BY DEF Next, WorkerStep, Start, Scan, Upload, NothingDue, Acknowledge, Rejected, Finish, UploadFails,
           HeartbeatFails, Flush, Die, CloseGate, OpenGate, LogCall, DelayOver, Refuse, Rematch,
           Ask, vars, leadVars
  <2> QED BY <2>1, <2>2, <2>3
<1> QED BY <1>1, SyncInvariant, PTL DEF Spec, ManualLinkStands
===============================================================================
