--------------------------- MODULE BackOffice_proofs ---------------------------
(* Two parts of the server that share no state: the keys that seal the calls   *)
(* (SealedCallsOpen, for every number of servers, processes of the tool,       *)
(* calls, page size and key versions), and the in-memory repository, which     *)
(* implements SessionChain for every set of employees, phones, codes,          *)
(* requests and calls, and every bound.                                        *)
EXTENDS CallPii, MemTrust, FiniteSetTheorems, WellFoundedInduction, TLAPS

-------------------------------------------------------------------------------
(* The keys.                                                                   *)

\* Of a nonempty set of naturals, the least.
LEMMA LeastOf ==
  ASSUME NEW S \in SUBSET Nat, S # {}
  PROVE  \E x \in S : \A y \in S : x <= y
<1>1. PICK x \in S : \A y \in S : ~(<<y, x>> \in OpToRel(<, Nat))
  BY NatLessThanWellFounded, WFMin
<1>2. \A y \in S : x <= y
  <2> TAKE y \in S
  <2>1. ~(<<y, x>> \in OpToRel(<, Nat))
    BY <1>1
  <2>2. x \in Nat /\ y \in Nat
    OBVIOUS
  <2>3. ~(y < x)
    BY <2>1, <2>2 DEF OpToRel
  <2> QED BY <2>2, <2>3
<1> QED BY <1>2

\* The member with the fewest members above it has none above it: a finite set
\* of naturals has a greatest one.
LEMMA MaxIsGreatest ==
  ASSUME NEW S \in SUBSET Nat, S # {}, IsFiniteSet(S)
  PROVE  Max(S) \in S /\ \A y \in S : y <= Max(S)
<1> DEFINE Above(x) == {y \in S : y > x}
           Counts   == {Cardinality(Above(x)) : x \in S}
<1>1. \A x \in S : IsFiniteSet(Above(x)) /\ Cardinality(Above(x)) \in Nat
  BY FS_Subset, FS_CardinalityType
<1>2. Counts \in SUBSET Nat /\ Counts # {}
  BY <1>1
<1>3. PICK n \in Counts : \A k \in Counts : n <= k
  <2> HIDE DEF Counts
  <2> QED BY <1>2, LeastOf
<1>0. PICK x \in S : n = Cardinality(Above(x))
  OBVIOUS
<1>4. \A y \in S : y <= x
  <2> SUFFICES ASSUME NEW y \in S, y > x PROVE FALSE
    OBVIOUS
  <2>0. x \in Nat /\ y \in Nat
    OBVIOUS
  <2>1. Above(y) \subseteq Above(x) /\ y \in Above(x) /\ y \notin Above(y)
    <3>1. \A z \in S : z > y => z > x
      BY <2>0
    <3>2. ~(y > y)
      BY <2>0
    <3> QED BY <3>1, <3>2
  <2>2. Cardinality(Above(y)) <= Cardinality(Above(x)) /\ Cardinality(Above(y)) # Cardinality(Above(x))
    BY <1>1, <2>1, FS_Subset
  <2>3. Cardinality(Above(x)) <= Cardinality(Above(y))
    BY <1>0, <1>3
  <2> HIDE DEF Above
  <2> QED BY <1>1, <2>2, <2>3
<1> QED BY <1>4 DEF Max

\* A page holds as many rows as asked for at most.
LEMMA PageBounded ==
  ASSUME NEW S \in SUBSET Sealables
  PROVE  Cardinality(Page(S)) <= PageSize
<1>1. S \subseteq Nat /\ IsFiniteSet(S) /\ PageSize \in Nat \ {0} /\ Page(S) \subseteq S
  BY KeyBounds, FS_Subset DEF Page
<1>2. CASE Page(S) = {}
  BY <1>1, <1>2, FS_EmptySet
<1>3. CASE Page(S) # {}
  <2> DEFINE last  == Max(Page(S))
             below == {q \in S : q < last}
  <2>1. last \in Page(S) /\ \A y \in Page(S) : y <= last
    BY <1>1, <1>3, FS_Subset, MaxIsGreatest
  <2>2. Cardinality(below) < PageSize
    BY <2>1 DEF Page
  <2> HIDE DEF last
  <2>3. IsFiniteSet(below) /\ Cardinality(below) \in Nat
    BY <1>1, FS_Subset, FS_CardinalityType
  <2>4. Page(S) \subseteq below \cup {last}
    <3>1. last \in Nat /\ \A y \in Page(S) : y \in Nat /\ y <= last
      BY <1>1, <2>1
    <3>2. \A y \in Page(S) : y = last \/ y < last
      BY <3>1
    <3> QED BY <1>1, <3>2
  <2> HIDE DEF below
  <2>5. IsFiniteSet(below \cup {last}) /\ Cardinality(below \cup {last}) <= Cardinality(below) + 1
    BY <2>3, FS_AddElement
  <2>6. /\ Cardinality(Page(S)) <= Cardinality(below \cup {last})
        /\ Cardinality(Page(S)) \in Nat /\ Cardinality(below \cup {last}) \in Nat
    BY <2>4, <2>5, FS_Subset, FS_CardinalityType
  <2> QED BY <1>1, <2>2, <2>3, <2>5, <2>6
<1> QED BY <1>2, <1>3

\* A page that is not full holds every row asked for.
LEMMA ShortPage ==
  ASSUME NEW S \in SUBSET Sealables, Cardinality(Page(S)) # PageSize
  PROVE  Page(S) = S
<1>0. Cardinality(Page(S)) < PageSize
  <2>1. IsFiniteSet(Page(S)) /\ PageSize \in Nat
    BY KeyBounds, FS_Subset DEF Page
  <2>2. Cardinality(Page(S)) \in Nat
    BY <2>1, FS_CardinalityType
  <2> QED BY <2>1, <2>2, PageBounded
<1>1. S \subseteq Nat /\ IsFiniteSet(S) /\ PageSize \in Nat
  BY KeyBounds, FS_Subset
<1>2. SUFFICES ASSUME S \ Page(S) # {} PROVE FALSE
  BY DEF Page
<1>3. PICK x \in S \ Page(S) : \A y \in S \ Page(S) : x <= y
  BY <1>1, <1>2, LeastOf
<1> DEFINE Below == {q \in S : q < x}
<1>4. Below \subseteq Page(S)
  <2>1. \A q \in S \ Page(S) : ~(q < x)
    BY <1>1, <1>3
  <2> QED BY <2>1
<1>5. IsFiniteSet(Page(S))
  BY <1>1, FS_Subset DEF Page
<1>6. /\ Cardinality(Below) <= Cardinality(Page(S))
      /\ Cardinality(Below) \in Nat /\ Cardinality(Page(S)) \in Nat
  <2>1. IsFiniteSet(Below)
    BY <1>4, <1>5, FS_Subset
  <2> QED BY <1>4, <1>5, <2>1, FS_Subset, FS_CardinalityType
<1>7. Cardinality(Below) < PageSize
  BY <1>0, <1>1, <1>6
<1> QED BY <1>3, <1>7 DEF Page

\* A full page has a last row, and holds every row asked for up to that one.
LEMMA FullPage ==
  ASSUME NEW S \in SUBSET Sealables, Cardinality(Page(S)) = PageSize
  PROVE  /\ Max(Page(S)) \in Page(S)
         /\ \A r \in S : r <= Max(Page(S)) => r \in Page(S)
<1>1. S \subseteq Nat /\ IsFiniteSet(S) /\ PageSize \in Nat \ {0} /\ Page(S) \subseteq S
  BY KeyBounds, FS_Subset DEF Page
<1>2. IsFiniteSet(Page(S)) /\ Page(S) # {} /\ Page(S) \in SUBSET Nat
  BY <1>1, FS_Subset, FS_EmptySet
<1>3. Max(Page(S)) \in Page(S)
  BY <1>2, MaxIsGreatest
<1>4. ASSUME NEW r \in S, r <= Max(Page(S)) PROVE r \in Page(S)
  <2> DEFINE Below(x) == {q \in S : q < x}
             last == Max(Page(S))
  <2>1. Below(r) \subseteq Below(last)
    <3>1. r \in Nat /\ last \in Nat /\ r <= last
      BY <1>1, <1>3, <1>4
    <3> HIDE DEF last
    <3>2. \A q \in S : q < r => q < last
      BY <1>1, <3>1
    <3> QED BY <3>2
  <2>2. IsFiniteSet(Below(last)) /\ Cardinality(Below(last)) \in Nat /\ Cardinality(Below(last)) < PageSize
    <3>1. Cardinality(Below(last)) < PageSize
      BY <1>3 DEF Page
    <3>2. Below(last) \subseteq S
      OBVIOUS
    <3> QED BY <1>1, <3>1, <3>2, FS_Subset, FS_CardinalityType
  <2>3. Cardinality(Below(r)) <= Cardinality(Below(last)) /\ Cardinality(Below(r)) \in Nat
    BY <2>1, <2>2, FS_Subset, FS_CardinalityType
  <2>4. Cardinality(Below(r)) < PageSize
    BY <1>1, <2>2, <2>3
  <2> QED BY <2>4 DEF Page
<1> QED BY <1>3, <1>4

-------------------------------------------------------------------------------
(* The inductive invariant.  What is written with a ring opens with the one   *)
(* being rolled out as long as that one still has its active keys.            *)
Serves(ring) ==
  /\ ring.active \in newest.oldest..newest.active
  /\ ring.activeBlind \in newest.oldestBlind..newest.activeBlind
Fresh(e) == e.key = newest.active /\ e.marker = newest.activeBlind /\ e.made = newest.activeBlind

\* Servers write with keys that are kept.  A process of the tool may hold an older ring.
RingsServe ==
  /\ Serves(newest) /\ \A s \in Servers : Serves(keyring[s])
  /\ \A t \in Tools : tool[t] # Idle =>
       /\ tool[t].ring.active <= newest.active /\ tool[t].ring.oldest <= newest.oldest
       /\ tool[t].ring.activeBlind <= newest.activeBlind
       /\ tool[t].ring.oldestBlind <= newest.oldestBlind

\* Keys are removed only once no row is plain, and verification moves on only then.
PlainKeepsKeys ==
  Plain # {} => /\ newest.oldest = 1 /\ newest.oldestBlind = 1 /\ ~confirmed
                /\ \A t \in Tools : tool[t] # Idle => tool[t].after = 0

\* A rotation begun with the newest ring on every server finds that ring on every server
\* still, and the rows behind its verification stay sealed with its active keys.
RotatesNewest(t) ==
  tool[t] # Idle /\ tool[t].mode = "rotate" /\ tool[t].rolledOut /\ tool[t].ring = newest
VerifiedIsFresh ==
  /\ \A t \in Tools : RotatesNewest(t) =>
       RolledOut /\ \A r \in Sealed : r <= tool[t].after => Fresh(pii[r])
  /\ confirmed => RolledOut /\ \A r \in Sealed : Fresh(pii[r])

PiiInv == SealedCallsOpen /\ RingsServe /\ PlainKeepsKeys /\ VerifiedIsFresh

\* Rows and rings: what is in them.
LEMMA SealedRow ==
  ASSUME PiiTypeOK, NEW r \in Sealed
  PROVE  r \in Sealables /\ pii[r] \in Envelope
BY DEF PiiTypeOK, Sealed, Absent, Legacy

LEMMA RingFields ==
  ASSUME NEW ring \in Ring
  PROVE  /\ ring.oldest \in Nat \ {0} /\ ring.active \in Nat \ {0} /\ ring.oldest \in Versions
         /\ ring.oldestBlind \in Nat \ {0} /\ ring.activeBlind \in Nat \ {0}
         /\ ring.active \in Versions /\ ring.activeBlind \in Versions /\ ring.oldestBlind \in Versions
         /\ ring = [oldest |-> ring.oldest, active |-> ring.active,
                    oldestBlind |-> ring.oldestBlind, activeBlind |-> ring.activeBlind]
<1>1. Versions \subseteq Nat \ {0}
  BY KeyBounds DEF Versions
<1> QED BY <1>1 DEF Ring

LEMMA ToolFields ==
  ASSUME PiiTypeOK, NEW t \in Tools, tool[t] # Idle
  PROVE  /\ tool[t] \in Run /\ tool[t].ring \in Ring /\ tool[t].after \in Nat
         /\ tool[t].after \in Sealables \cup {0}
         /\ tool[t].mode \in {"backfill", "rotate"} /\ tool[t].rolledOut \in BOOLEAN
<1>1. tool[t] \in Run
  BY DEF PiiTypeOK
<1>2. /\ tool[t].ring \in Ring /\ tool[t].after \in Sealables \cup {0}
      /\ tool[t].mode \in {"backfill", "rotate"} /\ tool[t].rolledOut \in BOOLEAN
  BY <1>1 DEF Run
<1>3. Sealables \cup {0} \subseteq Nat
  BY KeyBounds
<1> QED BY <1>1, <1>2, <1>3

LEMMA EncryptTyped ==
  ASSUME NEW ring \in Ring, NEW modified \in {0, 1}
  PROVE  LET e == EncryptField(ring, modified) IN
         /\ e \in Envelope /\ e.form = "sealed" /\ e.key = ring.active
         /\ e.made = ring.activeBlind /\ e.marker = ring.activeBlind
BY RingFields DEF EncryptField, Envelope

\* The wrapper of 0012 gives a row the marker it was sealed with.
LEMMA WrappedIs == ASSUME NEW old, NEW e \in Envelope PROVE Wrapped(old, e) = e
BY DEF Wrapped, Marked, Envelope

LEMMA PiiInvInit == PiiInit => PiiInv
<1> SUFFICES ASSUME PiiInit PROVE PiiInv
  OBVIOUS
<1> DEFINE old == [EncryptField(First, 0) EXCEPT !.format = 1]
<1>1. First \in Ring /\ 1 \in Versions /\ Versions \subseteq Nat
  BY KeyBounds DEF First, Ring, Versions
<1>2. old \in Envelope /\ old.form = "sealed" /\ old.key = 1 /\ old.marker = 1 /\ old.made = 1
  BY <1>1 DEF EncryptField, First, Envelope
<1>3. PiiTypeOK
  <2> HIDE DEF old
  <2>1. pii \in [Sealables -> Envelope \cup {Absent, Legacy}]
    <3>1. pii \in [Sealables -> {Absent, Legacy, old}]
      BY DEF PiiInit, old
    <3> QED BY <1>2, <3>1
  <2> QED BY <1>1, <2>1 DEF PiiInit, PiiTypeOK
<1>4. \A r \in Sealed : pii[r] = old
  BY DEF PiiInit, Sealed, Absent, Legacy
<1> HIDE DEF old
<1>5. SealedCallsOpen
  BY <1>1, <1>2, <1>3, <1>4 DEF SealedCallsOpen, DecryptField, PiiInit, First
<1>6. RingsServe /\ PlainKeepsKeys /\ VerifiedIsFresh
  BY <1>1 DEF RingsServe, Serves, PlainKeepsKeys, VerifiedIsFresh, RotatesNewest, PiiInit, First, Idle
<1> QED BY <1>5, <1>6 DEF PiiInv

\* A step that writes rows: each row it changes still opens, and is fresh if the servers
\* have the newest ring or if it was fresh before; or it was plain, and then nothing has been
\* verified yet.
LEMMA WriteKeeps ==
  ASSUME PiiInv, PiiTypeOK', UNCHANGED <<newest, keyring, confirmed>>,
         \A t \in Tools : tool'[t] # Idle =>
           /\ tool[t] # Idle /\ tool'[t].mode = tool[t].mode /\ tool'[t].ring = tool[t].ring
           /\ tool'[t].rolledOut = tool[t].rolledOut /\ tool'[t].after = tool[t].after,
         \A r \in Sealables : \/ pii'[r] = pii[r]
                              \/ /\ pii'[r].form = "sealed" /\ DecryptField(newest, pii'[r])
                                 /\ \/ r \in Plain
                                    \/ RolledOut => Fresh(pii'[r])
                                    \/ r \in Sealed /\ (Fresh(pii[r]) => Fresh(pii'[r]))
  PROVE  PiiInv'
<1>0. PiiTypeOK /\ SealedCallsOpen /\ RingsServe /\ PlainKeepsKeys /\ VerifiedIsFresh
  BY DEF PiiInv, SealedCallsOpen
<1>1. Plain' \subseteq Plain
  BY DEF Plain
<1>2. SealedCallsOpen'
  BY <1>0 DEF SealedCallsOpen, Sealed, DecryptField
<1>3. RingsServe'
  BY <1>0 DEF RingsServe, Serves
<1>4. PlainKeepsKeys'
  BY <1>0, <1>1 DEF PlainKeepsKeys
<1>5. ASSUME NEW r \in Sealed', RolledOut, r \in Sealed => Fresh(pii[r]), r \notin Plain
      PROVE  Fresh(pii'[r])
  BY <1>5 DEF Sealed
<1>6. \A r \in Sealables : ~(r <= 0)
  BY KeyBounds
<1>7. ASSUME NEW t \in Tools, RotatesNewest(t)'
      PROVE  (RolledOut /\ \A r \in Sealed : r <= tool[t].after => Fresh(pii[r]))'
  <2>1. RotatesNewest(t) /\ tool'[t].after = tool[t].after
    BY <1>7 DEF RotatesNewest
  <2>2. RolledOut /\ \A r \in Sealed : r <= tool[t].after => Fresh(pii[r])
    BY <1>0, <2>1 DEF VerifiedIsFresh
  <2>3. ASSUME NEW r \in Sealed', r <= tool[t].after PROVE Fresh(pii'[r])
    <3>1. r \notin Plain
      BY <1>0, <1>6, <2>1, <2>3 DEF PlainKeepsKeys, RotatesNewest, Sealed
    <3> QED BY <1>5, <2>2, <2>3, <3>1
  <2> QED BY <2>1, <2>2, <2>3 DEF RolledOut, Fresh
<1>8. ASSUME confirmed PROVE (RolledOut /\ \A r \in Sealed : Fresh(pii[r]))'
  <2>1. RolledOut /\ (\A r \in Sealed : Fresh(pii[r])) /\ Plain = {}
    BY <1>0, <1>8 DEF VerifiedIsFresh, PlainKeepsKeys
  <2> QED BY <1>5, <2>1 DEF RolledOut, Fresh
<1>9. VerifiedIsFresh'
  BY <1>7, <1>8 DEF VerifiedIsFresh
<1> QED BY <1>2, <1>3, <1>4, <1>9 DEF PiiInv

-------------------------------------------------------------------------------
(* The steps of servers, of operators, and of the tool.                        *)

LEMMA UpsertKeeps ==
  ASSUME PiiInv, NEW s \in Servers, NEW r \in Sealables, UpsertMobileCall(s, r) \/ InsertManualCall(s, r)
  PROVE  PiiInv'
<1>0. PiiTypeOK /\ RingsServe
  BY DEF PiiInv, SealedCallsOpen
<1>1. PICK modified \in {0, 1} :
        /\ pii' = [pii EXCEPT ![r] = Wrapped(@, EncryptField(keyring[s], modified))]
        /\ UNCHANGED <<newest, keyring, tool, confirmed>>
  BY DEF UpsertMobileCall, InsertManualCall
<1> DEFINE e == EncryptField(keyring[s], modified)
<1>2. /\ e \in Envelope /\ e.form = "sealed" /\ e.key = keyring[s].active
      /\ e.made = keyring[s].activeBlind /\ e.marker = keyring[s].activeBlind
  BY <1>0, EncryptTyped DEF PiiTypeOK
<1>3. pii' = [pii EXCEPT ![r] = e]
  BY <1>1, <1>2, WrappedIs
<1> HIDE DEF e
<1>4. PiiTypeOK'
  BY <1>0, <1>1, <1>2, <1>3 DEF PiiTypeOK
<1>5. DecryptField(newest, e) /\ (RolledOut => Fresh(e))
  BY <1>0, <1>2 DEF RingsServe, Serves, DecryptField, Fresh, RolledOut
<1>6. \A q \in Sealables : pii'[q] = IF q = r THEN e ELSE pii[q]
  BY <1>0, <1>3 DEF PiiTypeOK
<1> QED BY <1>1, <1>2, <1>4, <1>5, <1>6, WriteKeeps

\* How a batch changes the tool: it may end the sealing.
LEMMA ClaimsTool ==
  ASSUME PiiTypeOK, NEW t \in Tools, tool[t] # Idle, NEW rows, NEW taken, Claims(t, rows, taken)
  PROVE  /\ taken \subseteq rows
         /\ tool' \in [Tools -> {Idle} \cup Run]
         /\ \A u \in Tools : tool'[u] # Idle =>
              /\ tool[u] # Idle /\ tool'[u].mode = tool[u].mode /\ tool'[u].ring = tool[u].ring
              /\ tool'[u].rolledOut = tool[u].rolledOut /\ tool'[u].after = tool[u].after
<1>1. taken \subseteq rows
  BY DEF Claims, Page
<1> DEFINE run == [tool[t] EXCEPT !.step = "verify"]
<1>2. /\ run \in Run /\ run.mode = tool[t].mode /\ run.ring = tool[t].ring
      /\ run.rolledOut = tool[t].rolledOut /\ run.after = tool[t].after
  BY ToolFields DEF Run
<1>3. tool' = tool \/ tool' = [tool EXCEPT ![t] = run]
  BY DEF Claims
<1> HIDE DEF run
<1> QED BY <1>1, <1>2, <1>3 DEF PiiTypeOK

LEMMA BackfillKeeps ==
  ASSUME PiiInv, NEW t \in Tools, BackfillBatch(t)
  PROVE  PiiInv'
<1>0. PiiTypeOK /\ RingsServe /\ PlainKeepsKeys
  BY DEF PiiInv, SealedCallsOpen
<1>1. tool[t] # Idle
  BY DEF BackfillBatch, Sealing
<1>2. PICK taken \in SUBSET Plain :
        /\ Claims(t, Plain, taken)
        /\ pii' = [r \in Sealables |-> IF r \in taken THEN Wrapped(pii[r], EncryptField(tool[t].ring, 0))
                                      ELSE pii[r]]
  BY DEF BackfillBatch
<1> DEFINE e == EncryptField(tool[t].ring, 0)
           ring == tool[t].ring
<1>3. /\ e \in Envelope /\ e.form = "sealed" /\ e.key = ring.active
      /\ e.made = ring.activeBlind /\ e.marker = ring.activeBlind /\ ring \in Ring
  BY <1>0, <1>1, ToolFields, EncryptTyped
<1>4. \A r \in Sealables : pii'[r] = IF r \in taken THEN e ELSE pii[r]
  BY <1>2, <1>3, WrappedIs
<1> HIDE DEF e
<1>5. PiiTypeOK'
  <2>1. pii' \in [Sealables -> Envelope \cup {Absent, Legacy}]
    BY <1>0, <1>2, <1>3, <1>4 DEF PiiTypeOK
  <2> QED BY <1>0, <1>1, <1>2, <2>1, ClaimsTool DEF PiiTypeOK, BackfillBatch
<1>6. Plain # {} => DecryptField(newest, e)
  BY <1>0, <1>1, <1>3, RingFields DEF PiiTypeOK, RingsServe, PlainKeepsKeys, DecryptField
<1>7. UNCHANGED <<newest, keyring, confirmed>>
  BY DEF BackfillBatch
<1> QED BY <1>0, <1>1, <1>2, <1>3, <1>4, <1>5, <1>6, <1>7, ClaimsTool, WriteKeeps

\* A ring that opens a row which the newest one opens too writes rows that the newest one opens,
\* and leaves a fresh row fresh.
LEMMA RotateKeeps ==
  ASSUME PiiInv, NEW t \in Tools, RotateBatch(t)
  PROVE  PiiInv'
<1>0. PiiTypeOK /\ SealedCallsOpen /\ RingsServe
  BY DEF PiiInv, SealedCallsOpen
<1>1. tool[t] # Idle
  BY DEF RotateBatch, Sealing
<1> DEFINE rows == {r \in Sealed : ~Active(tool[t].ring, pii[r])}
           ring == tool[t].ring
<1>2. PICK taken \in SUBSET Sealed :
        /\ Claims(t, rows, taken)
        /\ \A r \in taken : DecryptField(ring, pii[r])
        /\ pii' = [r \in Sealables |-> IF r \in taken THEN EncryptField(ring, pii[r].modified)
                                      ELSE pii[r]]
  BY DEF RotateBatch
<1>3. /\ ring \in Ring /\ ring.active <= newest.active /\ ring.activeBlind <= newest.activeBlind
      /\ newest \in Ring
  BY <1>0, <1>1, ToolFields DEF RingsServe, PiiTypeOK
<1> HIDE DEF ring, rows
<1>4. ASSUME NEW r \in taken
      PROVE  /\ pii'[r] \in Envelope /\ pii'[r].form = "sealed" /\ pii'[r].key = ring.active
             /\ pii'[r].made = ring.activeBlind /\ pii'[r].marker = ring.activeBlind
  <2>1. r \in Sealables /\ pii[r].modified \in {0, 1}
    BY <1>0, SealedRow DEF Envelope
  <2> QED BY <1>2, <1>3, <2>1, EncryptTyped
<1>5. ASSUME NEW r \in taken
      PROVE  DecryptField(newest, pii'[r]) /\ (Fresh(pii[r]) => Fresh(pii'[r]))
  <2>1. DecryptField(ring, pii[r]) /\ DecryptField(newest, pii[r])
    BY <1>0, <1>2 DEF SealedCallsOpen
  <2>2. pii[r] \in Envelope /\ pii[r].key \in Nat /\ pii[r].marker \in Nat
    <3>1. pii[r] \in Envelope /\ Versions \subseteq Nat
      BY <1>0, SealedRow DEF Versions
    <3> QED BY <3>1 DEF Envelope
  <2> QED BY <1>3, <1>4, <2>1, <2>2, RingFields DEF DecryptField, Fresh
<1>6. \A r \in Sealables : r \notin taken => pii'[r] = pii[r]
  BY <1>2
<1>7. UNCHANGED <<newest, keyring, confirmed>>
  BY DEF RotateBatch
<1>8. PiiTypeOK'
  <2>1. pii' \in [Sealables -> Envelope \cup {Absent, Legacy}]
    BY <1>0, <1>2, <1>4, <1>6 DEF PiiTypeOK
  <2> QED BY <1>0, <1>1, <1>2, <1>7, <2>1, ClaimsTool DEF PiiTypeOK
<1> QED BY <1>0, <1>1, <1>2, <1>4, <1>5, <1>6, <1>7, <1>8, ClaimsTool, WriteKeeps

\* A verified page of a rotation is fresh up to its last row; the last page is all that was left.
LEMMA VerifyKeeps ==
  ASSUME PiiInv, NEW t \in Tools, VerifyPage(t)
  PROVE  PiiInv'
<1>0. PiiTypeOK /\ SealedCallsOpen /\ RingsServe /\ PlainKeepsKeys /\ VerifiedIsFresh
  BY DEF PiiInv, SealedCallsOpen
<1> DEFINE rest == {r \in Sealed : r > tool[t].after}
           last == Max(Page(rest))
           run  == [tool[t] EXCEPT !.after = last]
<1>1. /\ tool[t] # Idle /\ Plain = {} /\ UNCHANGED <<pii, newest, keyring>>
      /\ \A r \in Page(rest) : /\ DecryptField(tool[t].ring, pii[r])
                               /\ tool[t].mode = "rotate" => Active(tool[t].ring, pii[r])
  BY DEF VerifyPage
<1>2. rest \subseteq Sealables /\ tool[t].after \in Nat /\ Sealed \subseteq Nat
  BY <1>0, <1>1, ToolFields, KeyBounds DEF Sealed
<1>3. ASSUME RotatesNewest(t), NEW r \in Sealed, r <= tool[t].after \/ r \in Page(rest)
      PROVE  Fresh(pii[r])
  BY <1>0, <1>1, <1>3 DEF VerifiedIsFresh, RotatesNewest, Active, DecryptField, Fresh
<1>4. UNCHANGED <<Sealed, Plain>>
  BY <1>1 DEF Sealed, Plain
<1>5. CASE Cardinality(Page(rest)) = PageSize
  <2>1. last \in Page(rest) /\ \A r \in rest : r <= last => r \in Page(rest)
    BY <1>2, <1>5, FullPage
  <2>2. last \in Sealables
    BY <1>2, <2>1 DEF Page
  <2>3. tool' = [tool EXCEPT ![t] = run] /\ UNCHANGED confirmed
    BY <1>5 DEF VerifyPage
  <2> HIDE DEF last
  <2>4. /\ run \in Run /\ run.mode = tool[t].mode /\ run.ring = tool[t].ring
        /\ run.rolledOut = tool[t].rolledOut /\ run.after = last /\ run # Idle
    <3>1. tool[t] \in Run
      BY <1>0, <1>1, ToolFields
    <3>2. run \in Run /\ run.mode = tool[t].mode
      BY <2>2, <3>1 DEF Run
    <3>3. "idle" \notin {"backfill", "rotate"} /\ run.mode \in {"backfill", "rotate"}
      BY <3>1, <3>2 DEF Run
    <3>4. run # Idle
      BY <3>3 DEF Idle
    <3> QED BY <3>1, <3>2, <3>4 DEF Run
  <2> HIDE DEF run
  <2>5. PiiTypeOK'
    BY <1>0, <1>1, <2>3, <2>4 DEF PiiTypeOK
  <2>6. \A u \in Tools : tool'[u] = IF u = t THEN run ELSE tool[u]
    BY <1>0, <2>3 DEF PiiTypeOK
  <2>7. SealedCallsOpen' /\ RingsServe' /\ PlainKeepsKeys'
    BY <1>0, <1>1, <1>4, <2>4, <2>5, <2>6
    DEF SealedCallsOpen, RingsServe, PlainKeepsKeys, Serves
  <2>8. ASSUME NEW u \in Tools, RotatesNewest(u)'
        PROVE  (RolledOut /\ \A r \in Sealed : r <= tool[u].after => Fresh(pii[r]))'
    <3>1. RotatesNewest(u)
      BY <1>1, <2>4, <2>6, <2>8 DEF RotatesNewest
    <3>2. RolledOut'
      BY <1>0, <1>1, <3>1 DEF VerifiedIsFresh, RolledOut
    <3>3. ASSUME NEW r \in Sealed, r <= tool'[u].after PROVE Fresh(pii[r])
      <4>1. CASE u = t
        <5>1. r <= tool[t].after \/ r \in rest
          BY <1>2
        <5> QED BY <1>3, <2>1, <2>4, <2>6, <3>1, <3>3, <4>1, <5>1
      <4>2. CASE u # t
        BY <1>0, <2>6, <3>1, <3>3, <4>2 DEF VerifiedIsFresh
      <4> QED BY <4>1, <4>2
    <3> QED BY <1>1, <1>4, <3>2, <3>3 DEF Fresh
  <2>9. VerifiedIsFresh'
    BY <1>0, <1>1, <1>4, <2>3, <2>8 DEF VerifiedIsFresh, RolledOut, Fresh
  <2> QED BY <2>7, <2>9 DEF PiiInv
<1>6. CASE Cardinality(Page(rest)) # PageSize
  <2>1. /\ tool' = [tool EXCEPT ![t] = Idle]
        /\ confirmed' => confirmed \/ RotatesNewest(t)
        /\ confirmed' \in BOOLEAN
    BY <1>1, <1>6 DEF VerifyPage, RotatesNewest
  <2>2. \A u \in Tools : tool'[u] = IF u = t THEN Idle ELSE tool[u]
    BY <1>0, <2>1 DEF PiiTypeOK
  <2>3. Page(rest) = rest
    BY <1>2, <1>6, ShortPage
  <2>4. RotatesNewest(t) => RolledOut /\ \A r \in Sealed : Fresh(pii[r])
    <3>1. \A r \in Sealed : r <= tool[t].after \/ r \in rest
      BY <1>2
    <3> QED BY <1>0, <1>3, <2>3, <3>1 DEF VerifiedIsFresh
  <2> HIDE DEF rest
  <2>5. PiiTypeOK'
    BY <1>0, <1>1, <2>1 DEF PiiTypeOK
  <2>6. SealedCallsOpen' /\ RingsServe' /\ PlainKeepsKeys'
    BY <1>0, <1>1, <1>4, <2>2, <2>5 DEF SealedCallsOpen, RingsServe, PlainKeepsKeys, Serves
  <2>7. \A u \in Tools : RotatesNewest(u)' => RotatesNewest(u) /\ tool'[u].after = tool[u].after
    BY <1>1, <2>2 DEF RotatesNewest
  <2>8. VerifiedIsFresh'
    BY <1>0, <1>1, <1>4, <2>1, <2>4, <2>7 DEF VerifiedIsFresh, RolledOut, Fresh
  <2> QED BY <2>6, <2>8 DEF PiiInv
<1> QED BY <1>5, <1>6

LEMMA BeginKeeps ==
  ASSUME PiiInv, NEW t \in Tools, NEW mode \in {"backfill", "rotate"}, Begin(t, mode)
  PROVE  PiiInv'
<1>0. PiiTypeOK /\ SealedCallsOpen /\ RingsServe /\ PlainKeepsKeys /\ VerifiedIsFresh
  BY DEF PiiInv, SealedCallsOpen
<1> DEFINE run == [mode |-> mode, step |-> "seal", ring |-> newest, rolledOut |-> RolledOut, after |-> 0]
<1>1. tool' = [tool EXCEPT ![t] = run] /\ UNCHANGED <<pii, newest, keyring, confirmed>>
  BY DEF Begin
<1>2. /\ run \in Run /\ run.ring = newest /\ run.rolledOut = RolledOut /\ run.after = 0
  BY <1>0 DEF Run, PiiTypeOK, RolledOut
<1> HIDE DEF run
<1>3. PiiTypeOK'
  BY <1>0, <1>1, <1>2 DEF PiiTypeOK
<1>4. \A u \in Tools : tool'[u] = IF u = t THEN run ELSE tool[u]
  BY <1>0, <1>1 DEF PiiTypeOK
<1>5. UNCHANGED <<Sealed, Plain, RolledOut>>
  BY <1>1 DEF Sealed, Plain, RolledOut
<1>6. newest.active <= newest.active /\ newest.oldest <= newest.oldest
      /\ newest.activeBlind <= newest.activeBlind /\ newest.oldestBlind <= newest.oldestBlind
  BY <1>0, RingFields DEF PiiTypeOK
<1>7. SealedCallsOpen' /\ RingsServe' /\ PlainKeepsKeys'
  BY <1>0, <1>1, <1>2, <1>3, <1>4, <1>5, <1>6 DEF SealedCallsOpen, RingsServe, PlainKeepsKeys, Serves
<1>8. \A r \in Sealed : ~(r <= 0)
  BY KeyBounds DEF Sealed
<1>9. ASSUME NEW u \in Tools, RotatesNewest(u)'
      PROVE  (RolledOut /\ \A r \in Sealed : r <= tool[u].after => Fresh(pii[r]))'
  <2>1. CASE u = t
    BY <1>1, <1>2, <1>4, <1>5, <1>8, <1>9, <2>1 DEF RotatesNewest
  <2>2. CASE u # t
    BY <1>0, <1>1, <1>4, <1>5, <1>9, <2>2 DEF RotatesNewest, VerifiedIsFresh, Fresh
  <2> QED BY <2>1, <2>2
<1>10. VerifiedIsFresh'
  BY <1>0, <1>1, <1>5, <1>9 DEF VerifiedIsFresh, Fresh
<1> QED BY <1>7, <1>10 DEF PiiInv

LEMMA AbandonKeeps ==
  ASSUME PiiInv, NEW t \in Tools, Abandon(t)
  PROVE  PiiInv'
<1>0. PiiTypeOK
  BY DEF PiiInv, SealedCallsOpen
<1>1. /\ PiiTypeOK' /\ UNCHANGED <<pii, newest, keyring, confirmed>>
      /\ \A u \in Tools : tool'[u] # Idle => tool'[u] = tool[u]
  BY <1>0 DEF Abandon, PiiTypeOK
<1> QED BY <1>1, WriteKeeps

\* A server starts with the newest ring.  While a rotation of that ring counts on every server
\* having it, none is left to do so.
LEMMA DeployKeeps ==
  ASSUME PiiInv, NEW s \in Servers, Deploy(s)
  PROVE  PiiInv'
<1>0. PiiTypeOK /\ SealedCallsOpen /\ RingsServe /\ PlainKeepsKeys /\ VerifiedIsFresh
  BY DEF PiiInv, SealedCallsOpen
<1>1. UNCHANGED <<pii, newest, tool, confirmed, Sealed, Plain>>
  BY DEF Deploy, Sealed, Plain
<1>2. PiiTypeOK' /\ \A u \in Servers : keyring'[u] \in {keyring[u], newest}
  BY <1>0 DEF Deploy, PiiTypeOK
<1>3. ~RolledOut
  BY DEF Deploy, RolledOut
<1>4. RingsServe' /\ SealedCallsOpen' /\ PlainKeepsKeys'
  BY <1>0, <1>1, <1>2 DEF RingsServe, Serves, SealedCallsOpen, PlainKeepsKeys
<1>5. VerifiedIsFresh'
  BY <1>0, <1>1, <1>3 DEF VerifiedIsFresh, RotatesNewest
<1> QED BY <1>4, <1>5 DEF PiiInv

\* The new ring has every key of the old one, and no rotation has it yet.
LEMMA AppendKeeps ==
  ASSUME PiiInv, AppendKeys
  PROVE  PiiInv'
<1>0. PiiTypeOK /\ SealedCallsOpen /\ RingsServe /\ PlainKeepsKeys
  BY DEF PiiInv, SealedCallsOpen
<1>1. PICK ring \in Ring :
        /\ ring.oldest = newest.oldest /\ ring.active \in {newest.active, newest.active + 1}
        /\ ring.oldestBlind = newest.oldestBlind
        /\ ring.activeBlind \in {newest.activeBlind, newest.activeBlind + 1}
        /\ ring # newest /\ newest' = ring
  BY DEF AppendKeys
<1>2. /\ UNCHANGED <<pii, keyring, tool, Sealed, Plain>> /\ confirmed' = FALSE
      /\ \A s \in Servers : keyring[s] = newest
  BY DEF AppendKeys, Sealed, Plain, RolledOut
<1>3. newest \in Ring /\ PiiTypeOK'
  BY <1>0, <1>1, <1>2 DEF PiiTypeOK
<1>4. /\ newest'.oldest = newest.oldest /\ newest.active <= newest'.active
      /\ newest'.oldestBlind = newest.oldestBlind /\ newest.activeBlind <= newest'.activeBlind
      /\ newest.active < newest'.active \/ newest.activeBlind < newest'.activeBlind
  BY <1>1, <1>3, RingFields
<1>5. \A n : n \in newest.oldest..newest.active => n \in newest'.oldest..newest'.active
  BY <1>1, <1>3, <1>4, RingFields
<1>6. \A n : n \in newest.oldestBlind..newest.activeBlind => n \in newest'.oldestBlind..newest'.activeBlind
  BY <1>1, <1>3, <1>4, RingFields
<1>7. SealedCallsOpen'
  BY <1>0, <1>2, <1>3, <1>5, <1>6 DEF SealedCallsOpen, DecryptField
<1>8. ASSUME NEW t \in Tools, tool[t] # Idle
      PROVE  /\ tool[t].ring.active <= newest'.active /\ tool[t].ring.oldest <= newest'.oldest
             /\ tool[t].ring.activeBlind <= newest'.activeBlind
             /\ tool[t].ring.oldestBlind <= newest'.oldestBlind /\ tool[t].ring # newest'
  <2>1. tool[t].ring \in Ring
    BY <1>0, <1>8, ToolFields
  <2> QED BY <1>0, <1>1, <1>3, <1>4, <1>8, <2>1, RingFields DEF RingsServe
<1>9. RingsServe'
  <2>1. Serves(newest)' /\ \A s \in Servers : Serves(keyring[s])'
    BY <1>0, <1>1, <1>2, <1>3, <1>4, <1>5, <1>6, RingFields DEF RingsServe, Serves
  <2> QED BY <1>2, <1>8, <2>1 DEF RingsServe
<1>10. PlainKeepsKeys'
  BY <1>0, <1>2, <1>4 DEF PlainKeepsKeys
<1>11. VerifiedIsFresh'
  BY <1>2, <1>8 DEF VerifiedIsFresh, RotatesNewest
<1> QED BY <1>7, <1>9, <1>10, <1>11 DEF PiiInv

\* Keys go once every row is fresh, and every server writes with those that stay.
LEMMA RemoveKeeps ==
  ASSUME PiiInv, RemoveRetiredKeys
  PROVE  PiiInv'
<1>0. PiiTypeOK /\ SealedCallsOpen /\ RingsServe /\ PlainKeepsKeys /\ VerifiedIsFresh
  BY DEF PiiInv, SealedCallsOpen
<1>1. /\ confirmed /\ confirmed' = FALSE /\ newest' # newest /\ UNCHANGED <<pii, keyring, tool, Sealed, Plain>>
      /\ newest' = [newest EXCEPT !.oldest = newest.active, !.oldestBlind = newest.activeBlind]
  BY DEF RemoveRetiredKeys, Sealed, Plain
<1>2. (\A s \in Servers : keyring[s] = newest) /\ (\A r \in Sealed : Fresh(pii[r])) /\ Plain = {}
  BY <1>0, <1>1 DEF VerifiedIsFresh, PlainKeepsKeys, RolledOut
<1>3. newest \in Ring
  BY <1>0 DEF PiiTypeOK
<1>4. /\ newest' \in Ring /\ newest'.active = newest.active /\ newest'.oldest = newest.active
      /\ newest'.activeBlind = newest.activeBlind /\ newest'.oldestBlind = newest.activeBlind
  BY <1>1, <1>3 DEF Ring
<1>5. PiiTypeOK'
  BY <1>0, <1>1, <1>4 DEF PiiTypeOK
<1>6. newest.active \in newest'.oldest..newest'.active /\ newest.activeBlind \in newest'.oldestBlind..newest'.activeBlind
  BY <1>3, <1>4, RingFields
<1>7. SealedCallsOpen'
  BY <1>1, <1>2, <1>5, <1>6 DEF SealedCallsOpen, DecryptField, Fresh
<1>8. /\ newest.oldest <= newest.active /\ newest.oldestBlind <= newest.activeBlind
      /\ newest.oldest < newest.active \/ newest.oldestBlind < newest.activeBlind
  <2>1. newest.oldest <= newest.active /\ newest.oldestBlind <= newest.activeBlind
    BY <1>0, <1>3, RingFields DEF RingsServe, Serves
  <2>2. ~(newest.oldest = newest.active /\ newest.oldestBlind = newest.activeBlind)
    BY <1>1, <1>3, <1>4, RingFields
  <2>3. /\ newest.oldest \in Nat /\ newest.active \in Nat
        /\ newest.oldestBlind \in Nat /\ newest.activeBlind \in Nat
    BY <1>3, RingFields
  <2> QED BY <2>1, <2>2, <2>3
<1>9. ASSUME NEW t \in Tools, tool[t] # Idle
      PROVE  /\ tool[t].ring.active <= newest'.active /\ tool[t].ring.oldest <= newest'.oldest
             /\ tool[t].ring.activeBlind <= newest'.activeBlind
             /\ tool[t].ring.oldestBlind <= newest'.oldestBlind /\ tool[t].ring # newest'
  <2>1. tool[t].ring \in Ring
    BY <1>0, <1>9, ToolFields
  <2> QED BY <1>0, <1>3, <1>4, <1>8, <1>9, <2>1, RingFields DEF RingsServe
<1>10. RingsServe'
  BY <1>1, <1>2, <1>4, <1>6, <1>9 DEF RingsServe, Serves
<1>11. PlainKeepsKeys' /\ VerifiedIsFresh'
  BY <1>1, <1>2, <1>9 DEF PlainKeepsKeys, VerifiedIsFresh, RotatesNewest
<1> QED BY <1>7, <1>10, <1>11 DEF PiiInv

LEMMA PiiStep == PiiInv /\ [PiiNext]_piiVars => PiiInv'
<1> SUFFICES ASSUME PiiInv, [PiiNext]_piiVars PROVE PiiInv'
  OBVIOUS
<1>1. CASE UNCHANGED piiVars
  <2>1. UNCHANGED <<pii, newest, keyring, tool, confirmed>>
    BY <1>1 DEF piiVars
  <2> QED BY <2>1, WriteKeeps DEF PiiInv, SealedCallsOpen, PiiTypeOK
<1> QED BY <1>1, UpsertKeeps, DeployKeeps, AppendKeeps, RemoveKeeps, BeginKeeps, AbandonKeeps,
           BackfillKeeps, RotateKeeps, VerifyKeeps
        DEF PiiNext

\* Every sealed call opens with the ring being rolled out, in every reachable state: what
\* servers with an older ring and tools begun earlier wrote behind or ahead of the rotation
\* is either written again or opens with the keys that stay.
THEOREM KeysKeptLongEnough == PiiSpec => []SealedCallsOpen
<1>1. PiiInv => SealedCallsOpen
  BY DEF PiiInv
<1> QED BY <1>1, PiiInvInit, PiiStep, PTL DEF PiiSpec

-------------------------------------------------------------------------------
(* The in-memory repository.                                                   *)

\* The state that the maps hold, and who owns what: a stored code has an employee, and so has
\* every phone that was ever paired.
Requests == [op : TokenOps, req : Tokens \cup {NoToken}, by : Tokens, terms : 0..MaxTerms]
Record   == [op : TokenOps \cup {"redeem"}, phone : Phones, by : Tokens \cup {NoToken},
             terms : 0..MaxTerms]

TrustTypeOK ==
  /\ ticket \in [Tickets -> [state : {"none", "open", "revoked", "consumed"},
                             of : Staff \cup {NoStaff}, expired : BOOLEAN]]
  /\ standing \in [Staff -> {"invited", "active", "paused"}]
  /\ phone \in [Phones -> [owner : Staff \cup {NoStaff}, consent : 0..MaxTerms,
                           status : {"none", "pending", "connected", "revoked"}]]
  /\ token \in [Tokens -> [life : {"none", "pending", "active", "consumed", "revoked"},
                           revoked : BOOLEAN, expired : BOOLEAN]]
  /\ done \in [Tokens -> {Undone} \cup Record]
  /\ calls \in [Phones -> SUBSET CallIds]
  /\ open \subseteq Requests
  /\ \A m \in open : m.op # "ingest" => m.req \in Tokens
  /\ \A k \in Tickets : ticket[k].state = "open" => ticket[k].of \in Staff
  /\ \A p \in Phones : phone[p].status # "none" => phone[p].owner \in Staff

\* A request id that was not used yet names no token, and a token that does not exist is not
\* revoked.
UnusedIsNone ==
  \A i \in Tokens : /\ done[i] = Undone => token[i].life = "none"
                    /\ token[i].life = "none" => ~token[i].revoked

\* At most one session of a phone has standing, and only while the phone is connected and
\* its employee active.
OneStanding == \A p \in Phones : \A i, j \in Standing(p) : i = j
StandingIsServed ==
  \A p \in Phones : Standing(p) # {} => /\ phone[p].status = "connected"
                                        /\ standing[phone[p].owner] = "active"

\* A pending token was prepared for a session of the same phone, and is not revoked before it.
PendingHasSource ==
  \A i \in Tokens : token[i].life = "pending" =>
    /\ done[i].op = "prepare" /\ done[i].by \in Tokens
    /\ token[done[i].by].life # "none"
    /\ Session(done[i].by) /\ Home(done[i].by) = Home(i)
    /\ token[i].revoked => token[done[i].by].revoked

ChainInv == TrustTypeOK /\ UnusedIsNone /\ OneStanding /\ StandingIsServed /\ PendingHasSource

(* What SessionChain's variables stand for.                                    *)
Holds  == [p \in Phones |-> Standing(p)]
Spent  == {i \in Tokens : token[i].revoked}
Barred == {p \in Phones : phone[p].owner # NoStaff /\ standing[phone[p].owner] = "paused"}
chainVars == <<Holds, Spent, Barred, calls>>

LEMMA ChainInvInit == TrustInit => ChainInv
<1> SUFFICES ASSUME TrustInit PROVE ChainInv
  OBVIOUS
<1>1. TrustTypeOK
  BY TrustBounds DEF TrustInit, TrustTypeOK
<1>2. \A p \in Phones : Standing(p) = {}
  BY DEF TrustInit, Standing
<1>3. OneStanding /\ StandingIsServed
  BY <1>2 DEF OneStanding, StandingIsServed
<1>4. UnusedIsNone /\ PendingHasSource
  BY DEF TrustInit, UnusedIsNone, PendingHasSource
<1> QED BY <1>1, <1>3, <1>4 DEF ChainInv
-------------------------------------------------------------------------------
(* The steps of SessionChain, and what the fields of the records are.          *)

LEMMA HandStep ==
  ASSUME NEW p \in Phones, NEW c \in Tokens,
         p \notin Barred, c \notin Spent, \A q \in Phones : c \notin Standing(q),
         \A q \in Phones : (Standing(q))' = IF q = p THEN {c} ELSE Standing(q),
         Spent \cup Standing(p) \subseteq Spent', c \notin Spent',
         Barred' = Barred, calls' = calls
  PROVE  Chain!Next
<1>1. Holds' = [Holds EXCEPT ![p] = {c}]
  BY DEF Holds
<1>2. Chain!Hand(p, c)
  BY <1>1 DEF Chain!Hand, Holds, Spent, Barred
<1> QED BY <1>2 DEF Chain!Next

LEMMA TakeStep ==
  ASSUME NEW P \in SUBSET Phones,
         \A q \in Phones : (Standing(q))' = IF q \in P THEN {} ELSE Standing(q),
         Spent \subseteq Spent', \A q \in P : Standing(q) \subseteq Spent',
         Barred \subseteq Barred', \A q \in Barred' : (Standing(q))' = {}, calls' = calls
  PROVE  Chain!Next
<1>1. Holds' = [q \in Phones |-> IF q \in P THEN {} ELSE Holds[q]]
  BY DEF Holds
<1>2. \A q \in Phones : Holds'[q] \cap Spent' = {}
  BY DEF Holds, Spent, Standing
<1>3. Spent \cup UNION {Holds[q] : q \in P} \subseteq Spent'
  BY DEF Holds
<1>4. \A q \in Barred' : Holds'[q] = {}
  BY DEF Holds, Barred
<1>5. Chain!Take(P)
  BY <1>1, <1>2, <1>3, <1>4 DEF Chain!Take, Holds, Spent, Barred
<1> QED BY <1>5 DEF Chain!Next

LEMMA StoreStep ==
  ASSUME NEW p \in Phones, Standing(p) # {}, p \notin Barred, calls[p] \subseteq calls'[p],
         \A q \in Phones \ {p} : calls'[q] = calls[q], UNCHANGED <<Holds, Spent, Barred>>
  PROVE  Chain!Next
<1>1. Chain!Store(p)
  BY DEF Chain!Store, Holds, Spent, Barred
<1> QED BY <1>1 DEF Chain!Next

\* A token that exists was proposed by a request that is done, for a phone.
LEMMA TokenFields ==
  ASSUME ChainInv, NEW i \in Tokens
  PROVE  /\ token[i] \in [life : {"none", "pending", "active", "consumed", "revoked"},
                          revoked : BOOLEAN, expired : BOOLEAN]
         /\ token[i].life # "none" => done[i] \in Record /\ Home(i) \in Phones
         /\ done[i] = Undone => token[i].life = "none" /\ ~token[i].revoked
<1>1. \A r \in Record : r.phone \in Phones
  BY DEF Record
<1> QED BY <1>1 DEF ChainInv, TrustTypeOK, UnusedIsNone, Home

LEMMA OpenFields ==
  ASSUME ChainInv, NEW m \in open
  PROVE  /\ m \in Requests /\ m.by \in Tokens /\ m.op \in TokenOps /\ m.terms \in 0..MaxTerms
         /\ m.op # "ingest" => m.req \in Tokens
BY DEF ChainInv, TrustTypeOK, Requests

\* An executed call takes an id that was not used, and is recorded for the phone it was for.
LEMMA RecordedCall ==
  ASSUME ChainInv, NEW m \in open, m.op # "ingest", Executed(m), Home(m.by) \in Phones
  PROVE  /\ m.req \in Tokens /\ done[m.req] = Undone
         /\ token[m.req].life = "none" /\ ~token[m.req].revoked
         /\ done'[m.req].op = m.op /\ done'[m.req].phone = Home(m.by) /\ done'[m.req].by = m.by
         /\ done'[m.req] # Undone /\ \A i \in Tokens \ {m.req} : done'[i] = done[i]
         /\ done' \in [Tokens -> {Undone} \cup Record]
         /\ open' \subseteq open /\ UNCHANGED <<ticket, calls, terms>>
<1>1. m.req \in Tokens /\ done[m.req] = Undone
  BY OpenFields DEF Executed, Can, FirstTime
<1> DEFINE r == [op |-> m.op, phone |-> Home(m.by), by |-> m.by, terms |-> m.terms]
<1>2. r \in Record /\ r # Undone
  <2>1. r \in Record
    BY OpenFields DEF Record
  <2>2. r.op \in TokenOps /\ Undone.op \notin TokenOps
    BY OpenFields DEF Undone, TokenOps
  <2> QED BY <2>1, <2>2
<1>3. done' = [done EXCEPT ![m.req] = r] /\ open' \subseteq open /\ UNCHANGED <<ticket, calls, terms>>
  BY DEF Executed
<1>4. done \in [Tokens -> {Undone} \cup Record]
  BY DEF ChainInv, TrustTypeOK
<1>5. r.op = m.op /\ r.phone = Home(m.by) /\ r.by = m.by
  OBVIOUS
<1> HIDE DEF r
<1>6. done' \in [Tokens -> {Undone} \cup Record] /\ done'[m.req] = r
      /\ \A i \in Tokens \ {m.req} : done'[i] = done[i]
  BY <1>1, <1>2, <1>3, <1>4
<1> QED BY <1>1, <1>2, <1>3, <1>5, <1>6, TokenFields

\* A session that is let in is the one of its phone, which is not barred.
LEMMA CurrentSession ==
  ASSUME ChainInv, NEW i \in Tokens, Current(i, TRUE)
  PROVE  /\ token[i].life = "active" /\ ~token[i].revoked /\ Session(i)
         /\ Home(i) \in Phones /\ Standing(Home(i)) = {i} /\ Home(i) \notin Barred
         /\ phone[Home(i)].status = "connected" /\ phone[Home(i)].owner \in Staff
         /\ standing[phone[Home(i)].owner] = "active"
<1>1. /\ token[i].life = "active" /\ ~token[i].revoked /\ Session(i)
      /\ phone[Home(i)].status = "connected" /\ standing[phone[Home(i)].owner] = "active"
  BY DEF Current
<1>2. Home(i) \in Phones
  BY <1>1, TokenFields
<1>3. i \in Standing(Home(i))
  BY <1>1 DEF Standing
<1>4. Standing(Home(i)) = {i}
  BY <1>2, <1>3 DEF ChainInv, OneStanding
<1> QED BY <1>1, <1>2, <1>4 DEF ChainInv, TrustTypeOK, Barred

\* Nothing that the chain or its invariant speaks of changes: requests are recorded that
\* propose no token, dates pass, consents are renewed.
LEMMA FrameKeeps ==
  ASSUME ChainInv, TrustTypeOK', UNCHANGED standing,
         \A p \in Phones : phone'[p].owner = phone[p].owner /\ phone'[p].status = phone[p].status,
         \A i \in Tokens : token'[i].life = token[i].life /\ token'[i].revoked = token[i].revoked,
         \A i \in Tokens : \/ done'[i] = done[i]
                           \/ token[i].life = "none" /\ done'[i] # Undone
  PROVE  ChainInv' /\ UNCHANGED <<Holds, Spent, Barred>>
<1>1. \A p \in Phones : (Standing(p))' = Standing(p)
  BY DEF Standing, Session, Home
<1>2. OneStanding' /\ StandingIsServed'
  BY <1>1 DEF ChainInv, OneStanding, StandingIsServed
<1>3. UnusedIsNone' /\ PendingHasSource'
  BY DEF ChainInv, UnusedIsNone, PendingHasSource, Session, Home
<1>4. UNCHANGED <<Holds, Spent, Barred>>
  BY <1>1 DEF Holds, Spent, Barred
<1> QED BY <1>2, <1>3, <1>4 DEF ChainInv
-------------------------------------------------------------------------------
(* Every step keeps the invariant and is a step of SessionChain, or none.      *)

LEMMA QuietSteps ==
  ASSUME ChainInv,
         \/ \E k \in Tickets : (\E e \in Staff : IssueTicket(k, e)) \/ RevokeTicket(k)
         \/ TimePasses \/ ReplacePolicy
         \/ \E op \in TokenOps, by \in Tokens : \E i \in AskedAs(op), t \in Agreed(op) :
              Authenticate([op |-> op, req |-> i, by |-> by, terms |-> t])
         \/ \E m \in open : Refused(m) \/ Renew(m)
  PROVE  ChainInv' /\ UNCHANGED chainVars
<1>0. TrustTypeOK
  BY DEF ChainInv
<1> DEFINE Frame == /\ TrustTypeOK' /\ UNCHANGED <<standing, calls>>
                    /\ \A p \in Phones : phone'[p].owner = phone[p].owner /\ phone'[p].status = phone[p].status
                    /\ \A i \in Tokens : token'[i].life = token[i].life /\ token'[i].revoked = token[i].revoked
                    /\ \A i \in Tokens : \/ done'[i] = done[i]
                                         \/ token[i].life = "none" /\ done'[i] # Undone
<1>1. ASSUME NEW k \in Tickets, NEW e \in Staff, IssueTicket(k, e) PROVE Frame
  BY <1>0, <1>1 DEF IssueTicket, TrustTypeOK
<1>2. ASSUME NEW k \in Tickets, RevokeTicket(k) PROVE Frame
  BY <1>0, <1>2 DEF RevokeTicket, TrustTypeOK
<1>3. ASSUME TimePasses PROVE Frame
  <2>0. UNCHANGED <<standing, phone, done, calls, terms, open>>
    BY <1>3 DEF TimePasses
  <2>1. ASSUME NEW k \in Tickets, ticket' = [ticket EXCEPT ![k].expired = TRUE], UNCHANGED token
        PROVE  Frame
    <3> DEFINE T == [state : {"none", "open", "revoked", "consumed"},
                     of : Staff \cup {NoStaff}, expired : BOOLEAN]
    <3>1. ticket \in [Tickets -> T]
      BY <1>0 DEF TrustTypeOK
    <3>2. \A j \in Tickets : ticket'[j] \in T /\ ticket'[j].state = ticket[j].state /\ ticket'[j].of = ticket[j].of
      BY <2>1, <3>1
    <3>3. ticket' \in [Tickets -> T]
      BY <2>1, <3>1, <3>2
    <3> QED BY <1>0, <2>0, <2>1, <3>2, <3>3 DEF TrustTypeOK
  <2>2. ASSUME NEW i \in Tokens, token' = [token EXCEPT ![i].expired = TRUE], UNCHANGED ticket
        PROVE  Frame
    <3> DEFINE T == [life : {"none", "pending", "active", "consumed", "revoked"},
                     revoked : BOOLEAN, expired : BOOLEAN]
    <3>1. token \in [Tokens -> T]
      BY <1>0 DEF TrustTypeOK
    <3>2. \A j \in Tokens : /\ token'[j] \in T
                            /\ token'[j].life = token[j].life /\ token'[j].revoked = token[j].revoked
      BY <2>2, <3>1
    <3>3. token' \in [Tokens -> T]
      BY <2>2, <3>1, <3>2
    <3> QED BY <1>0, <2>0, <2>2, <3>2, <3>3 DEF TrustTypeOK
  <2> QED BY <1>3, <2>1, <2>2 DEF TimePasses
<1>4. ASSUME ReplacePolicy PROVE Frame
  BY <1>0, <1>4 DEF ReplacePolicy, TrustTypeOK
<1>5. ASSUME NEW op \in TokenOps, NEW by \in Tokens, NEW i \in AskedAs(op), NEW t \in Agreed(op),
             Authenticate([op |-> op, req |-> i, by |-> by, terms |-> t])
      PROVE  Frame
  <2>1. i \in Tokens \cup {NoToken} /\ (op # "ingest" => i \in Tokens) /\ t \in 0..MaxTerms
    BY TrustBounds DEF AskedAs, Agreed
  <2>2. [op |-> op, req |-> i, by |-> by, terms |-> t] \in Requests
    BY <2>1 DEF Requests
  <2> QED BY <1>0, <1>5, <2>1, <2>2 DEF Authenticate, TrustTypeOK
<1>6. ASSUME NEW m \in open, Refused(m) PROVE Frame
  BY <1>0, <1>6 DEF Refused, TrustTypeOK
<1>7. ASSUME NEW m \in open, Renew(m) PROVE Frame
  <2>1. Current(m.by, TRUE) /\ done[m.req] = Undone
    BY <1>7 DEF Renew, Executed, Can, CanReconsent, FirstTime
  <2>2. m.op = "reconsent" /\ Executed(m) /\ m.by \in Tokens /\ m.terms \in 0..MaxTerms
        /\ phone' = [phone EXCEPT ![Home(m.by)].consent = m.terms] /\ UNCHANGED <<standing, token>>
    BY <1>7, OpenFields DEF Renew
  <2>3. Home(m.by) \in Phones
    BY <2>1, <2>2, CurrentSession
  <2>4. /\ done' \in [Tokens -> {Undone} \cup Record] /\ open' \subseteq open
        /\ UNCHANGED <<ticket, calls, terms>>
        /\ \A i \in Tokens : done'[i] = done[i] \/ (token[i].life = "none" /\ done'[i] # Undone)
    BY <1>0, <2>2, <2>3, RecordedCall DEF TrustTypeOK
  <2>5. /\ phone' \in [Phones -> [owner : Staff \cup {NoStaff}, consent : 0..MaxTerms,
                                  status : {"none", "pending", "connected", "revoked"}]]
        /\ \A p \in Phones : phone'[p].owner = phone[p].owner /\ phone'[p].status = phone[p].status
    BY <1>0, <2>2, <2>3 DEF TrustTypeOK
  <2> QED BY <1>0, <2>2, <2>4, <2>5 DEF TrustTypeOK
<1>8. Frame
  BY <1>1, <1>2, <1>3, <1>4, <1>5, <1>6, <1>7
<1> QED BY <1>8, FrameKeeps DEF chainVars

\* Sessions are taken from some phones, and nothing else happens to those of the others.
LEMMA TakenKeeps ==
  ASSUME ChainInv, TrustTypeOK', UNCHANGED calls, NEW P \in SUBSET Phones,
         \A i \in Tokens : \/ token'[i].life = token[i].life /\ token'[i].revoked = token[i].revoked
                           \/ /\ token[i].life # "none" /\ token'[i].life \in {token[i].life, "revoked"}
                              /\ token'[i].revoked
                           \/ /\ done[i] = Undone /\ done'[i] # Undone /\ done'[i].op = "redeem"
                              /\ token'[i].life = "active" /\ ~token'[i].revoked,
         \A i \in Tokens : \/ done'[i] = done[i]
                           \/ token[i].life = "none" /\ done'[i] # Undone,
         \A p \in P : \A i \in Standing(p) : token'[i].revoked,
         \A i \in Tokens : (token'[i].revoked /\ ~token[i].revoked) => Home(i) \in P,
         \A i \in Tokens : (token[i].life = "pending" /\ token'[i].life = "pending" /\ token'[i].revoked)
                              => token'[done[i].by].revoked,
         \A q \in Phones \ P : phone'[q].status = phone[q].status /\ phone'[q].owner = phone[q].owner,
         \A q \in Phones \ P : Standing(q) # {} => standing'[phone[q].owner] = "active",
         Barred \subseteq Barred', Barred' \subseteq Barred \cup P
  PROVE  ChainInv' /\ Chain!Next
<1>0. TrustTypeOK
  BY DEF ChainInv
<1>1. \A q \in Phones : (Standing(q))' = IF q \in P THEN {} ELSE Standing(q)
  <2> TAKE q \in Phones
  <2>1. ASSUME NEW i \in (Standing(q))' PROVE i \in Standing(q) /\ q \notin P
    <3>1. i \in Tokens /\ token'[i].life = "active" /\ ~token'[i].revoked /\ Session(i)' /\ Home(i)' = q
      BY DEF Standing
    <3>2. done'[i].op # "redeem"
      BY <3>1 DEF Session
    <3>3. token[i].life = "active" /\ ~token[i].revoked
      BY <3>1, <3>2
    <3>4. done'[i] = done[i]
      BY <3>1, <3>3
    <3>5. i \in Standing(q)
      BY <3>1, <3>3, <3>4 DEF Standing, Session, Home
    <3> QED BY <3>1, <3>5
  <2>2. ASSUME NEW i \in Standing(q), q \notin P PROVE i \in (Standing(q))'
    <3>1. i \in Tokens /\ token[i].life = "active" /\ ~token[i].revoked /\ Session(i) /\ Home(i) = q
      BY DEF Standing
    <3>2. done'[i] = done[i] /\ done[i] # Undone
      BY <3>1, TokenFields
    <3>3. token'[i].life = "active" /\ ~token'[i].revoked
      <4>1. ~token'[i].revoked
        <5>1. token[i].revoked \in BOOLEAN /\ token'[i].revoked \in BOOLEAN
          BY <1>0, <3>1 DEF TrustTypeOK
        <5> QED BY <2>2, <3>1, <5>1
      <4> QED BY <3>1, <3>2, <4>1
    <3> QED BY <3>1, <3>2, <3>3 DEF Standing, Session, Home
  <2>3. CASE q \in P
    <3>1. (Standing(q))' = {}
      BY <2>1, <2>3
    <3> QED BY <2>3, <3>1
  <2>4. CASE q \notin P
    <3>1. (Standing(q))' \subseteq Standing(q)
      BY <2>1
    <3>2. Standing(q) \subseteq (Standing(q))'
      BY <2>2, <2>4
    <3>3. (Standing(q))' = Standing(q)
      BY <3>1, <3>2
    <3> QED BY <2>4, <3>3
  <2> QED BY <2>3, <2>4
<1>2. Chain!Next
  <2>1. Spent \subseteq Spent'
    <3>1. \A i \in Tokens : token[i].revoked => token'[i].revoked
      BY TokenFields
    <3> QED BY <3>1 DEF Spent
  <2>2. \A q \in P : Standing(q) \subseteq Spent'
    BY DEF Standing, Spent
  <2>3. \A q \in Barred' : (Standing(q))' = {}
    <3>1. \A q \in Barred : Standing(q) = {}
      BY DEF ChainInv, StandingIsServed, Barred
    <3>2. \A q \in Barred' : q \in Phones /\ (q \in Barred \/ q \in P)
      BY DEF Barred
    <3> QED BY <1>1, <3>1, <3>2
  <2> QED BY <1>1, <2>1, <2>2, <2>3, TakeStep
<1>3. OneStanding' /\ StandingIsServed'
  BY <1>1 DEF ChainInv, OneStanding, StandingIsServed
<1>4. UnusedIsNone'
  BY DEF ChainInv, UnusedIsNone
<1>5. PendingHasSource'
  <2> SUFFICES ASSUME NEW i \in Tokens, token'[i].life = "pending"
      PROVE  /\ done'[i].op = "prepare" /\ done'[i].by \in Tokens
             /\ token'[done'[i].by].life # "none"
             /\ Session(done[i].by)' /\ Home(done[i].by)' = Home(i)'
             /\ done'[i].by = done[i].by
             /\ token'[i].revoked => token'[done'[i].by].revoked
    BY DEF PendingHasSource, Session, Home
  <2>1. token[i].life = "pending" /\ done'[i] = done[i]
    OBVIOUS
  <2>2. /\ done[i].op = "prepare" /\ done[i].by \in Tokens /\ token[done[i].by].life # "none"
        /\ Session(done[i].by) /\ Home(done[i].by) = Home(i)
    BY <2>1 DEF ChainInv, PendingHasSource
  <2>3. done'[done[i].by] = done[done[i].by] /\ done[done[i].by] # Undone
    BY <2>2, TokenFields
  <2>4. token'[done[i].by].life # "none"
    BY <2>2, <2>3
  <2> QED BY <2>1, <2>2, <2>3, <2>4 DEF Session, Home
<1> QED BY <1>2, <1>3, <1>4, <1>5 DEF ChainInv

LEMMA RevokedTokens ==
  ASSUME TrustTypeOK, NEW S \in SUBSET Tokens
  PROVE  /\ RevokedOf(S) \in [Tokens -> [life : {"none", "pending", "active", "consumed", "revoked"},
                                         revoked : BOOLEAN, expired : BOOLEAN]]
         /\ \A i \in S : RevokedOf(S)[i].life = "revoked" /\ RevokedOf(S)[i].revoked
         /\ \A i \in Tokens \ S : RevokedOf(S)[i] = token[i]
<1>1. \A i \in Tokens : token[i] \in [life : {"none", "pending", "active", "consumed", "revoked"},
                                      revoked : BOOLEAN, expired : BOOLEAN]
  BY DEF TrustTypeOK
<1> QED BY <1>1 DEF RevokedOf

LEMMA SuspendKeeps ==
  ASSUME ChainInv, NEW e \in Staff, Suspend(e)
  PROVE  ChainInv' /\ Chain!Next
<1>0. TrustTypeOK
  BY DEF ChainInv
<1> DEFINE P == {p \in Phones : phone[p].owner = e}
<1>1. /\ standing' = [standing EXCEPT ![e] = "paused"] /\ UNCHANGED <<ticket, done, calls, terms, open>>
      /\ \A p \in Phones : phone'[p] = IF p \in P THEN [phone[p] EXCEPT !.status = "revoked"] ELSE phone[p]
      /\ \A i \in Tokens : token'[i] = IF \E p \in P : i \in Held(p)
                                         THEN [token[i] EXCEPT !.revoked = TRUE] ELSE token[i]
  BY DEF Suspend
<1>2. /\ \A p \in Phones : phone'[p].owner = phone[p].owner
      /\ \A p \in P : phone'[p].status = "revoked" /\ phone[p].owner \in Staff
  <2>1. \A p \in Phones : phone[p] \in [owner : Staff \cup {NoStaff}, consent : 0..MaxTerms,
                                        status : {"none", "pending", "connected", "revoked"}]
    BY <1>0 DEF TrustTypeOK
  <2>2. \A p \in P : phone'[p].owner = phone[p].owner /\ phone'[p].status = "revoked"
    BY <1>1, <2>1
  <2>3. \A p \in Phones \ P : phone'[p] = phone[p]
    BY <1>1
  <2> QED BY <2>2, <2>3
<1>3. \A i \in Tokens : /\ (token[i].life # "none" /\ Home(i) \in P) => token'[i].revoked
                        /\ token'[i].life = token[i].life
                        /\ token'[i].revoked => \/ token[i].revoked
                                                \/ token[i].life # "none" /\ Home(i) \in P
                        /\ token[i].revoked => token'[i].revoked
                        /\ token'[i].revoked \in BOOLEAN /\ token'[i].expired = token[i].expired
  <2> TAKE i \in Tokens
  <2>1. token[i] \in [life : {"none", "pending", "active", "consumed", "revoked"},
                      revoked : BOOLEAN, expired : BOOLEAN]
    BY <1>0 DEF TrustTypeOK
  <2>2. (\E p \in P : i \in Held(p)) <=> (token[i].life # "none" /\ Home(i) \in P)
    BY DEF Held
  <2>3. token'[i] = IF token[i].life # "none" /\ Home(i) \in P THEN [token[i] EXCEPT !.revoked = TRUE] ELSE token[i]
    BY <1>1, <2>2
  <2> HIDE DEF P
  <2> QED BY <2>1, <2>3
<1>4. TrustTypeOK'
  <2>1. standing' \in [Staff -> {"invited", "active", "paused"}]
    BY <1>0, <1>1 DEF TrustTypeOK
  <2>2. phone' \in [Phones -> [owner : Staff \cup {NoStaff}, consent : 0..MaxTerms,
                               status : {"none", "pending", "connected", "revoked"}]]
    BY <1>0 DEF Suspend, TrustTypeOK
  <2>3. token' \in [Tokens -> [life : {"none", "pending", "active", "consumed", "revoked"},
                               revoked : BOOLEAN, expired : BOOLEAN]]
    BY <1>0 DEF Suspend, TrustTypeOK
  <2>4. \A p \in Phones : phone'[p].status # "none" => phone'[p].owner \in Staff
    BY <1>0, <1>1, <1>2 DEF TrustTypeOK
  <2> QED BY <1>0, <1>1, <2>1, <2>2, <2>3, <2>4 DEF TrustTypeOK
<1>5. \A i \in Tokens : (token[i].life = "pending" /\ token'[i].revoked) => token'[done[i].by].revoked
  <2> TAKE i \in Tokens
  <2> HAVE token[i].life = "pending" /\ token'[i].revoked
  <2>1. /\ done[i].by \in Tokens /\ token[done[i].by].life # "none" /\ Home(done[i].by) = Home(i)
        /\ token[i].revoked => token[done[i].by].revoked
    BY DEF ChainInv, PendingHasSource
  <2> QED BY <1>3, <2>1
<1>6. \A q \in Phones \ P : Standing(q) # {} => standing'[phone[q].owner] = "active"
  <2> TAKE q \in Phones \ P
  <2> HAVE Standing(q) # {}
  <2>1. phone[q].owner \in Staff /\ standing[phone[q].owner] = "active" /\ phone[q].owner # e
    BY <1>0 DEF ChainInv, StandingIsServed, TrustTypeOK
  <2> QED BY <1>0, <1>1, <2>1 DEF TrustTypeOK
<1>7. Barred \subseteq Barred' /\ Barred' \subseteq Barred \cup P
  <2>1. \A q \in Phones : phone[q].owner # NoStaff => phone[q].owner \in Staff
    BY <1>0 DEF TrustTypeOK
  <2>2. \A d \in Staff : standing'[d] = IF d = e THEN "paused" ELSE standing[d]
    BY <1>0, <1>1 DEF TrustTypeOK
  <2> QED BY <1>2, <2>1, <2>2 DEF Barred
<1>8. \A i \in Tokens : \/ token'[i].life = token[i].life /\ token'[i].revoked = token[i].revoked
                        \/ /\ token[i].life # "none" /\ token'[i].life \in {token[i].life, "revoked"}
                           /\ token'[i].revoked
  BY <1>0, <1>1 DEF TrustTypeOK, Held
<1>9. \A p \in P : \A i \in Standing(p) : token'[i].revoked
  BY <1>3 DEF Standing
<1>10. \A q \in Phones \ P : phone'[q].status = phone[q].status /\ phone'[q].owner = phone[q].owner
  BY <1>1
<1>11. /\ UNCHANGED calls /\ P \in SUBSET Phones /\ \A i \in Tokens : done'[i] = done[i]
       /\ \A i \in Tokens : (token'[i].revoked /\ ~token[i].revoked) => Home(i) \in P
  BY <1>1, <1>3
<1> HIDE DEF P
<1> QED BY <1>4, <1>5, <1>6, <1>7, <1>8, <1>9, <1>10, <1>11, TakenKeeps

\* The credentials of S, all of one phone and all that had standing, are revoked with it.
LEMMA PhoneRevoked ==
  ASSUME ChainInv, TrustTypeOK', NEW p \in Phones, NEW S \in SUBSET Held(p),
         Standing(p) \subseteq S, token' = RevokedOf(S), phone' = Withdrawn(p),
         \A i \in Tokens : \/ done'[i] = done[i]
                           \/ token[i].life = "none" /\ done'[i] # Undone,
         UNCHANGED <<standing, calls>>
  PROVE  ChainInv' /\ Chain!Next
<1>0. TrustTypeOK /\ S \subseteq Tokens
  BY DEF ChainInv, Held
<1>1. /\ \A i \in S : token'[i].life = "revoked" /\ token'[i].revoked /\ Home(i) = p /\ token[i].life # "none"
      /\ \A i \in Tokens \ S : token'[i] = token[i]
  BY <1>0, RevokedTokens DEF Held
<1>2. \A q \in Phones : phone'[q].owner = phone[q].owner /\ (q # p => phone'[q].status = phone[q].status)
  BY <1>0 DEF Withdrawn, TrustTypeOK
<1>3. \A i \in Tokens : (token[i].life = "pending" /\ token'[i].life = "pending" /\ token'[i].revoked)
                           => token'[done[i].by].revoked
  <2> TAKE i \in Tokens
  <2> HAVE token[i].life = "pending" /\ token'[i].life = "pending" /\ token'[i].revoked
  <2>1. done[i].by \in Tokens /\ token[done[i].by].revoked
    BY <1>1 DEF ChainInv, PendingHasSource
  <2> QED BY <1>1, <2>1
<1>4. /\ \A i \in Tokens : \/ token'[i].life = token[i].life /\ token'[i].revoked = token[i].revoked
                           \/ /\ token[i].life # "none" /\ token'[i].life \in {token[i].life, "revoked"}
                              /\ token'[i].revoked
      /\ \A q \in {p} : \A i \in Standing(q) : token'[i].revoked
      /\ \A i \in Tokens : (token'[i].revoked /\ ~token[i].revoked) => Home(i) \in {p}
  BY <1>1
<1>5. \A q \in Phones \ {p} : Standing(q) # {} => standing'[phone[q].owner] = "active"
  BY DEF ChainInv, StandingIsServed
<1>6. Barred' = Barred
  BY <1>2 DEF Barred
<1>7. {p} \in SUBSET Phones /\ \A q \in Phones \ {p} : phone'[q].status = phone[q].status /\ phone'[q].owner = phone[q].owner
  BY <1>2
<1> QED BY <1>3, <1>4, <1>5, <1>6, <1>7, TakenKeeps

LEMMA WithdrawnPhones ==
  ASSUME TrustTypeOK, NEW p \in Phones
  PROVE  /\ Withdrawn(p) \in [Phones -> [owner : Staff \cup {NoStaff}, consent : 0..MaxTerms,
                                         status : {"none", "pending", "connected", "revoked"}]]
         /\ \A q \in Phones : Withdrawn(p)[q].owner = phone[q].owner
         /\ \A q \in Phones \ {p} : Withdrawn(p)[q].status = phone[q].status
<1> DEFINE T == [owner : Staff \cup {NoStaff}, consent : 0..MaxTerms,
                 status : {"none", "pending", "connected", "revoked"}]
<1>1. 0 \in 0..MaxTerms
  BY TrustBounds
<1>2. phone \in [Phones -> T]
  BY DEF TrustTypeOK
<1>3. [phone[p] EXCEPT !.status = "revoked", !.consent = 0] \in T
  BY <1>1, <1>2
<1>4. Withdrawn(p) = [phone EXCEPT ![p] = [phone[p] EXCEPT !.status = "revoked", !.consent = 0]]
  BY DEF Withdrawn
<1>5. [phone[p] EXCEPT !.status = "revoked", !.consent = 0].owner = phone[p].owner
  BY <1>2
<1> HIDE DEF T
<1> QED BY <1>2, <1>3, <1>4, <1>5 DEF T

\* A phone that was withdrawn keeps its owner.
LEMMA WithdrawnOwned ==
  ASSUME TrustTypeOK, NEW p \in Phones, phone' = Withdrawn(p), phone[p].status # "none"
  PROVE  \A q \in Phones : phone'[q].status # "none" => phone'[q].owner \in Staff
<1> TAKE q \in Phones
<1>1. \A r \in Phones : phone[r].status # "none" => phone[r].owner \in Staff
  BY DEF TrustTypeOK
<1>2. phone'[q].owner = phone[q].owner /\ (q # p => phone'[q].status = phone[q].status)
  BY WithdrawnPhones
<1> QED BY <1>1, <1>2

LEMMA RevokePhoneKeeps ==
  ASSUME ChainInv, NEW p \in Phones, RevokePhone(p)
  PROVE  ChainInv' /\ Chain!Next
<1>0. TrustTypeOK
  BY DEF ChainInv
<1> DEFINE S == {i \in Held(p) : token[i].life \in {"pending", "active"}}
<1>1. /\ token' = RevokedOf(S) /\ phone' = Withdrawn(p) /\ phone[p].status # "none"
      /\ UNCHANGED <<ticket, standing, done, calls, terms, open>>
  BY DEF RevokePhone
<1>2. S \in SUBSET Held(p) /\ S \in SUBSET Tokens /\ Standing(p) \subseteq S
  BY DEF Held, Standing
<1>3. TrustTypeOK'
  <2>1. \A q \in Phones : phone'[q].status # "none" => phone'[q].owner \in Staff
    BY <1>0, <1>1, WithdrawnOwned
  <2> HIDE DEF S
  <2> QED BY <1>0, <1>1, <1>2, <2>1, RevokedTokens, WithdrawnPhones DEF TrustTypeOK
<1> HIDE DEF S
<1> QED BY <1>1, <1>2, <1>3, PhoneRevoked

LEMMA RevokeSessionKeeps ==
  ASSUME ChainInv, NEW m \in open, RevokeSession(m)
  PROVE  ChainInv' /\ Chain!Next
<1>0. TrustTypeOK /\ m.by \in Tokens /\ m.op # "ingest" /\ Executed(m) /\ Current(m.by, TRUE)
  BY OpenFields DEF ChainInv, RevokeSession, Executed, Can, CanRevoke
<1> DEFINE p == Home(m.by)
           S == Unrevoked(p)
<1>1. p \in Phones /\ phone[p].status = "connected"
  BY <1>0, CurrentSession
<1>2. /\ token' = RevokedOf(S) /\ phone' = Withdrawn(p) /\ UNCHANGED <<standing, ticket, calls, terms>>
      /\ open' \subseteq open /\ done' \in [Tokens -> {Undone} \cup Record]
      /\ \A i \in Tokens : \/ done'[i] = done[i]
                           \/ token[i].life = "none" /\ done'[i] # Undone
  BY <1>0, <1>1, RecordedCall DEF RevokeSession, TrustTypeOK
<1>3. S \in SUBSET Held(p) /\ S \in SUBSET Tokens /\ Standing(p) \subseteq S
  BY DEF Held, Standing, Unrevoked
<1>4. TrustTypeOK'
  <2> HIDE DEF S, p
  <2>0. phone' = Withdrawn(p) /\ p \in Phones /\ phone[p].status # "none"
    BY <1>1, <1>2
  <2>1. \A q \in Phones : phone'[q].status # "none" => phone'[q].owner \in Staff
    BY <1>0, <2>0, WithdrawnOwned
  <2> QED BY <1>0, <1>1, <1>2, <1>3, <2>1, RevokedTokens, WithdrawnPhones DEF TrustTypeOK
<1> HIDE DEF S, p
<1> QED BY <1>1, <1>2, <1>3, <1>4, PhoneRevoked

LEMMA RedeemKeeps ==
  ASSUME ChainInv, NEW i \in Tokens, NEW k \in Tickets, NEW p \in Phones, RedeemTicket(i, k, p)
  PROVE  ChainInv' /\ Chain!Next
<1>0. TrustTypeOK
  BY DEF ChainInv
<1> DEFINE e == ticket[k].of
           S == Unrevoked(p)
<1>1. /\ done[i] = Undone /\ Hired(e) /\ phone[p].owner \in {NoStaff, e} /\ e \in Staff
      /\ ticket' = [ticket EXCEPT ![k].state = "consumed"]
      /\ phone' = [phone EXCEPT ![p] = [owner |-> e, status |-> "pending", consent |-> 0]]
      /\ token' = [RevokedOf(S) EXCEPT ![i].life = "active"]
      /\ done' = [done EXCEPT ![i] = [op |-> "redeem", phone |-> p, by |-> NoToken, terms |-> 0]]
      /\ UNCHANGED <<standing, calls, terms, open>>
  BY <1>0 DEF RedeemTicket, TrustTypeOK
<1>2. /\ token[i].life = "none" /\ ~token[i].revoked /\ i \notin S /\ S \in SUBSET Tokens
      /\ \A j \in S : token[j].life # "none" /\ Home(j) = p
      /\ \A j \in Held(p) : j \in S \/ token[j].revoked
  BY <1>1, TokenFields DEF Unrevoked, Held
<1> HIDE DEF S, e
<1>3. /\ token' \in [Tokens -> [life : {"none", "pending", "active", "consumed", "revoked"},
                                revoked : BOOLEAN, expired : BOOLEAN]]
      /\ token'[i].life = "active" /\ ~token'[i].revoked
      /\ \A j \in S : token'[j].life = "revoked" /\ token'[j].revoked
      /\ \A j \in Tokens : j \in S \/ j = i \/ token'[j] = token[j]
  BY <1>0, <1>1, <1>2, RevokedTokens
<1>4. 0 \in 0..MaxTerms /\ [op |-> "redeem", phone |-> p, by |-> NoToken, terms |-> 0] \in Record
  BY TrustBounds DEF Record
<1>5. /\ done' \in [Tokens -> {Undone} \cup Record] /\ done'[i] # Undone /\ done'[i].op = "redeem"
      /\ \A j \in Tokens \ {i} : done'[j] = done[j]
  <2>1. done'[i] = [op |-> "redeem", phone |-> p, by |-> NoToken, terms |-> 0]
    BY <1>0, <1>1 DEF TrustTypeOK
  <2>2. done'[i].op = "redeem" /\ Undone.op = "none"
    BY <2>1 DEF Undone
  <2> QED BY <1>0, <1>1, <1>4, <2>1, <2>2 DEF TrustTypeOK
<1>6. TrustTypeOK'
  <2>1. phone' \in [Phones -> [owner : Staff \cup {NoStaff}, consent : 0..MaxTerms,
                               status : {"none", "pending", "connected", "revoked"}]]
    BY <1>0, <1>1, <1>4 DEF TrustTypeOK
  <2>2. \A q \in Phones : phone'[q].status # "none" => phone'[q].owner \in Staff
    BY <1>0, <1>1 DEF TrustTypeOK
  <2>3. /\ ticket' \in [Tickets -> [state : {"none", "open", "revoked", "consumed"},
                                    of : Staff \cup {NoStaff}, expired : BOOLEAN]]
        /\ \A j \in Tickets : ticket'[j].state = "open" => ticket'[j].of \in Staff
    <3> DEFINE T   == [state : {"none", "open", "revoked", "consumed"},
                       of : Staff \cup {NoStaff}, expired : BOOLEAN]
               new == [ticket[k] EXCEPT !.state = "consumed"]
    <3>1. ticket \in [Tickets -> T] /\ \A j \in Tickets : ticket[j].state = "open" => ticket[j].of \in Staff
      BY <1>0 DEF TrustTypeOK
    <3>2. new \in T /\ new.state = "consumed"
      BY <3>1
    <3>3. ticket' = [ticket EXCEPT ![k] = new]
      BY <1>1
    <3> HIDE DEF T, new
    <3>4. ticket' \in [Tickets -> T]
      BY <3>1, <3>2, <3>3
    <3>5. \A j \in Tickets : ticket'[j].state = "open" => ticket'[j].of \in Staff
      BY <3>1, <3>2, <3>3
    <3> QED BY <3>4, <3>5 DEF T
  <2> QED BY <1>0, <1>1, <1>3, <1>5, <2>1, <2>2, <2>3 DEF TrustTypeOK
<1>7. Barred' = Barred
  <2>1. /\ standing[e] # "paused" /\ phone'[p].owner = e
        /\ \A q \in Phones \ {p} : phone'[q] = phone[q]
    BY <1>0, <1>1 DEF Hired, TrustTypeOK
  <2> QED BY <1>1, <2>1 DEF Barred
<1>8. \A j \in Tokens : (token[j].life = "pending" /\ token'[j].life = "pending" /\ token'[j].revoked)
                           => token'[done[j].by].revoked
  <2> TAKE j \in Tokens
  <2> HAVE token[j].life = "pending" /\ token'[j].life = "pending" /\ token'[j].revoked
  <2>1. done[j].by \in Tokens /\ token[done[j].by].revoked
    BY <1>3 DEF ChainInv, PendingHasSource
  <2> QED BY <1>2, <1>3, <2>1
<1>9. /\ \A j \in Tokens : \/ token'[j].life = token[j].life /\ token'[j].revoked = token[j].revoked
                           \/ /\ token[j].life # "none" /\ token'[j].life \in {token[j].life, "revoked"}
                              /\ token'[j].revoked
                           \/ /\ done[j] = Undone /\ done'[j] # Undone /\ done'[j].op = "redeem"
                              /\ token'[j].life = "active" /\ ~token'[j].revoked
      /\ \A j \in Tokens : done'[j] = done[j] \/ (token[j].life = "none" /\ done'[j] # Undone)
      /\ \A q \in {p} : \A j \in Standing(q) : token'[j].revoked
      /\ \A j \in Tokens : (token'[j].revoked /\ ~token[j].revoked) => Home(j) \in {p}
  <2>1. \A j \in Standing(p) : j \in S
    BY <1>2 DEF Standing, Held
  <2> QED BY <1>1, <1>2, <1>3, <1>5, <2>1
<1>10. /\ {p} \in SUBSET Phones
       /\ \A q \in Phones \ {p} : phone'[q].status = phone[q].status /\ phone'[q].owner = phone[q].owner
       /\ \A q \in Phones \ {p} : Standing(q) # {} => standing'[phone[q].owner] = "active"
  BY <1>0, <1>1 DEF ChainInv, StandingIsServed, TrustTypeOK
<1> QED BY <1>1, <1>6, <1>7, <1>8, <1>9, <1>10, TakenKeeps

\* A session is handed over to c.
LEMMA HandedKeeps ==
  ASSUME ChainInv, TrustTypeOK', NEW p \in Phones, NEW c \in Tokens, p \notin Barred,
         token[c].life # "active", ~token[c].revoked, token'[c].life = "active", ~token'[c].revoked,
         done'[c] # Undone, Session(c)', Home(c)' = p,
         \A i \in Tokens : \/ done'[i] = done[i]
                           \/ token[i].life = "none" /\ done'[i] # Undone,
         \A i \in Tokens \ {c} : \/ token'[i].life = token[i].life /\ token'[i].revoked = token[i].revoked
                                 \/ /\ token[i].life # "none" /\ token'[i].life \in {"consumed", "revoked"}
                                    /\ i \in Standing(p) \/ ~Session(i)
                                    /\ token[i].revoked => token'[i].revoked,
         \A i \in Standing(p) : token'[i].revoked,
         \A q \in Phones : phone'[q].owner = phone[q].owner /\ (q # p => phone'[q].status = phone[q].status),
         phone'[p].status = "connected", standing'[phone[p].owner] = "active",
         \A q \in Phones : standing[phone[q].owner] = "active" => standing'[phone[q].owner] = "active",
         Barred' = Barred, UNCHANGED calls
  PROVE  ChainInv' /\ Chain!Next
<1>1. \A q \in Phones : c \notin Standing(q)
  BY DEF Standing
<1>2. \A q \in Phones : (Standing(q))' = IF q = p THEN {c} ELSE Standing(q)
  <2> TAKE q \in Phones
  <2>1. ASSUME NEW i \in (Standing(q))', i # c PROVE i \in Standing(q) /\ q # p
    <3>1. i \in Tokens /\ token'[i].life = "active" /\ ~token'[i].revoked /\ Session(i)' /\ Home(i)' = q
      BY DEF Standing
    <3>2. token[i].life = "active" /\ ~token[i].revoked /\ done'[i] = done[i]
      BY <2>1, <3>1
    <3>3. i \in Standing(q)
      BY <3>1, <3>2 DEF Standing, Session, Home
    <3> QED BY <3>1, <3>3
  <2>2. ASSUME NEW i \in Standing(q), q # p PROVE i \in (Standing(q))'
    <3>1. i \in Tokens \ {c} /\ token[i].life = "active" /\ ~token[i].revoked /\ Session(i) /\ Home(i) = q
      BY <1>1 DEF Standing
    <3>2. i \notin Standing(p) /\ done'[i] = done[i]
      BY <2>2, <3>1 DEF Standing
    <3>3. token'[i].life = token[i].life /\ token'[i].revoked = token[i].revoked
      BY <3>1, <3>2
    <3> QED BY <3>1, <3>2, <3>3 DEF Standing, Session, Home
  <2>3. c \in (Standing(q))' <=> q = p
    BY DEF Standing
  <2>4. CASE q = p
    <3>1. \A i \in (Standing(q))' : i = c
      BY <2>1, <2>4
    <3> QED BY <2>3, <2>4, <3>1
  <2>5. CASE q # p
    <3>1. \A i \in (Standing(q))' : i \in Standing(q)
      BY <2>1, <2>3, <2>5
    <3>2. \A i \in Standing(q) : i \in (Standing(q))'
      BY <2>2, <2>5
    <3> QED BY <2>5, <3>1, <3>2
  <2> QED BY <2>4, <2>5
<1>3. Chain!Next
  <2>1. Spent \cup Standing(p) \subseteq Spent'
    <3>1. \A i \in Tokens : token[i].revoked => token'[i].revoked
      OBVIOUS
    <3> QED BY <3>1 DEF Spent, Standing
  <2>2. c \notin Spent /\ c \notin Spent'
    BY DEF Spent
  <2> QED BY <1>1, <1>2, <2>1, <2>2, HandStep
<1>4. OneStanding' /\ StandingIsServed'
  BY <1>2 DEF ChainInv, OneStanding, StandingIsServed
<1>5. UnusedIsNone'
  BY DEF ChainInv, UnusedIsNone
<1>6. PendingHasSource'
  <2> SUFFICES ASSUME NEW i \in Tokens, token'[i].life = "pending"
      PROVE  /\ done'[i].op = "prepare" /\ done'[i].by \in Tokens
             /\ token'[done'[i].by].life # "none"
             /\ Session(done[i].by)' /\ Home(done[i].by)' = Home(i)'
             /\ done'[i].by = done[i].by
             /\ token'[i].revoked => token'[done'[i].by].revoked
    BY DEF PendingHasSource, Session, Home
  <2>1. i # c /\ token[i].life = "pending" /\ done'[i] = done[i] /\ token'[i].revoked = token[i].revoked
    OBVIOUS
  <2>2. /\ done[i].op = "prepare" /\ done[i].by \in Tokens /\ token[done[i].by].life # "none"
        /\ Session(done[i].by) /\ Home(done[i].by) = Home(i)
        /\ token[i].revoked => token[done[i].by].revoked
    BY <2>1 DEF ChainInv, PendingHasSource
  <2>3. done'[done[i].by] = done[done[i].by] /\ token'[done[i].by].life # "none"
    BY <2>2
  <2> QED BY <2>1, <2>2, <2>3 DEF Session, Home
<1> QED BY <1>3, <1>4, <1>5, <1>6 DEF ChainInv

LEMMA ActivateKeeps ==
  ASSUME ChainInv, NEW m \in open, ActivatePhone(m)
  PROVE  ChainInv' /\ Chain!Next
<1>0. TrustTypeOK /\ m.by \in Tokens /\ m.op = "activate" /\ m.op # "ingest" /\ Executed(m)
      /\ Current(m.by, FALSE) /\ m.terms \in 0..MaxTerms
  BY OpenFields DEF ChainInv, ActivatePhone, Executed, Can, CanActivate
<1> DEFINE p == Home(m.by)
           c == m.req
<1>1. /\ token[m.by].life = "active" /\ ~Session(m.by) /\ p \in Phones
      /\ phone[p].status = "pending" /\ phone[p].owner \in Staff /\ standing[phone[p].owner] # "paused"
  <2>1. /\ token[m.by].life = "active" /\ ~Session(m.by) /\ phone[p].status = "pending"
        /\ Hired(phone[p].owner)
    BY <1>0 DEF Current
  <2>2. p \in Phones
    BY <1>0, <2>1, TokenFields
  <2> QED BY <1>0, <2>1, <2>2 DEF Hired, TrustTypeOK
<1>2. /\ c \in Tokens /\ token[c].life = "none" /\ ~token[c].revoked /\ c # m.by
      /\ done' \in [Tokens -> {Undone} \cup Record] /\ UNCHANGED <<ticket, calls, terms>>
      /\ open' \subseteq open
      /\ done'[c].op = "activate" /\ done'[c].phone = p /\ done'[c] # Undone
      /\ \A i \in Tokens \ {c} : done'[i] = done[i]
  BY <1>0, <1>1, RecordedCall DEF TrustTypeOK
<1>3. /\ token' = [token EXCEPT ![m.by].life = "consumed", ![c].life = "active"]
      /\ phone' = [phone EXCEPT ![p].status = "connected", ![p].consent = m.terms]
      /\ standing' = [standing EXCEPT ![phone[p].owner] = "active"]
  BY DEF ActivatePhone
<1> HIDE DEF p, c
<1>4. /\ token' \in [Tokens -> [life : {"none", "pending", "active", "consumed", "revoked"},
                                revoked : BOOLEAN, expired : BOOLEAN]]
      /\ token'[c].life = "active" /\ token'[m.by].life = "consumed"
      /\ \A i \in Tokens : token'[i].revoked = token[i].revoked
      /\ \A i \in Tokens \ {c, m.by} : token'[i] = token[i]
  <2> DEFINE T == [life : {"none", "pending", "active", "consumed", "revoked"},
                   revoked : BOOLEAN, expired : BOOLEAN]
  <2>1. token \in [Tokens -> T]
    BY <1>0 DEF TrustTypeOK
  <2>2. [token[m.by] EXCEPT !.life = "consumed"] \in T /\ [token[m.by] EXCEPT !.life = "consumed"].life = "consumed"
        /\ [token[m.by] EXCEPT !.life = "consumed"].revoked = token[m.by].revoked
    BY <1>0, <2>1
  <2>3. [token[c] EXCEPT !.life = "active"] \in T /\ [token[c] EXCEPT !.life = "active"].life = "active"
        /\ [token[c] EXCEPT !.life = "active"].revoked = token[c].revoked
    BY <1>2, <2>1
  <2>4. token' = [i \in Tokens |-> IF i = m.by THEN [token[m.by] EXCEPT !.life = "consumed"]
                                   ELSE IF i = c THEN [token[c] EXCEPT !.life = "active"] ELSE token[i]]
    <3> HIDE DEF T
    <3>1. token' = [[token EXCEPT ![m.by] = [token[m.by] EXCEPT !.life = "consumed"]]
                      EXCEPT ![c] = [token[c] EXCEPT !.life = "active"]]
      BY <1>2, <1>3, <2>1
    <3> QED BY <1>0, <1>2, <2>1, <3>1
  <2> HIDE DEF T
  <2>5. token' \in [Tokens -> T]
    BY <2>1, <2>2, <2>3, <2>4
  <2>6. /\ token'[c].life = "active" /\ token'[m.by].life = "consumed"
        /\ \A i \in Tokens : token'[i].revoked = token[i].revoked
        /\ \A i \in Tokens \ {c, m.by} : token'[i] = token[i]
    BY <1>0, <1>2, <2>2, <2>3, <2>4
  <2> QED BY <2>5, <2>6 DEF T
<1>5. /\ phone' \in [Phones -> [owner : Staff \cup {NoStaff}, consent : 0..MaxTerms,
                                status : {"none", "pending", "connected", "revoked"}]]
      /\ \A q \in Phones : phone'[q].owner = phone[q].owner /\ (q # p => phone'[q].status = phone[q].status)
      /\ phone'[p].status = "connected"
  <2> DEFINE T   == [owner : Staff \cup {NoStaff}, consent : 0..MaxTerms,
                     status : {"none", "pending", "connected", "revoked"}]
             new == [phone[p] EXCEPT !.status = "connected", !.consent = m.terms]
  <2>1. phone \in [Phones -> T]
    BY <1>0 DEF TrustTypeOK
  <2>2. new \in T /\ new.owner = phone[p].owner /\ new.status = "connected"
    BY <1>0, <1>1, <2>1
  <2>3. phone' = [phone EXCEPT ![p] = new]
    BY <1>1, <1>3, <2>1
  <2> HIDE DEF T, new
  <2>4. phone' \in [Phones -> T]
    BY <1>1, <2>1, <2>2, <2>3
  <2>5. /\ \A q \in Phones : phone'[q].owner = phone[q].owner /\ (q # p => phone'[q].status = phone[q].status)
        /\ phone'[p].status = "connected"
    BY <1>1, <2>1, <2>2, <2>3
  <2> QED BY <2>4, <2>5 DEF T
<1>6. /\ standing' \in [Staff -> {"invited", "active", "paused"}] /\ standing'[phone[p].owner] = "active"
      /\ \A e \in Staff : standing'[e] = standing[e] \/ (standing[e] # "paused" /\ standing'[e] = "active")
  BY <1>0, <1>1, <1>3 DEF TrustTypeOK
<1>7. TrustTypeOK'
  <2>1. \A q \in Phones : phone'[q].status # "none" => phone'[q].owner \in Staff
    BY <1>0, <1>1, <1>5 DEF TrustTypeOK
  <2> QED BY <1>0, <1>2, <1>4, <1>5, <1>6, <2>1 DEF TrustTypeOK
<1>8. Standing(p) = {}
  BY <1>1 DEF ChainInv, StandingIsServed
<1>9. Barred' = Barred /\ p \notin Barred
  <2>1. \A q \in Phones : phone[q].owner # NoStaff => phone[q].owner \in Staff
    BY <1>0 DEF TrustTypeOK
  <2>2. \A q \in Phones : q \in Barred' <=> q \in Barred
    BY <1>5, <1>6, <2>1 DEF Barred
  <2> QED BY <1>1, <2>2 DEF Barred
<1>10. \A q \in Phones : standing[phone[q].owner] = "active" => standing'[phone[q].owner] = "active"
  <2> TAKE q \in Phones
  <2>1. CASE phone[q].owner \in Staff
    BY <1>6, <2>1
  <2>2. CASE phone[q].owner \notin Staff
    BY <1>3, <2>2
  <2> QED BY <2>1, <2>2
<1>11. Session(c)' /\ Home(c)' = p
  BY <1>2 DEF Session, Home
<1>12. /\ token[c].life # "active" /\ ~token[c].revoked /\ token'[c].life = "active" /\ ~token'[c].revoked
       /\ done'[c] # Undone
  BY <1>2, <1>4
<1>13. \A i \in Tokens : \/ done'[i] = done[i]
                         \/ token[i].life = "none" /\ done'[i] # Undone
  BY <1>2
<1>14. \A i \in Tokens \ {c} : \/ token'[i].life = token[i].life /\ token'[i].revoked = token[i].revoked
                               \/ /\ token[i].life # "none" /\ token'[i].life \in {"consumed", "revoked"}
                                  /\ i \in Standing(p) \/ ~Session(i)
                                  /\ token[i].revoked => token'[i].revoked
  BY <1>1, <1>4
<1>15. \A i \in Standing(p) : token'[i].revoked
  BY <1>8
<1>16. p \in Phones /\ c \in Tokens /\ UNCHANGED calls
  BY <1>1, <1>2
<1>17. standing'[phone[p].owner] = "active"
  BY <1>6
<1> QED BY <1>5, <1>7, <1>9, <1>10, <1>11, <1>12, <1>13, <1>14, <1>15, <1>16, <1>17, HandedKeeps

LEMMA ConfirmKeeps ==
  ASSUME ChainInv, NEW m \in open, ConfirmRotation(m)
  PROVE  ChainInv' /\ Chain!Next
<1>0. TrustTypeOK /\ m.by \in Tokens /\ m.op # "ingest" /\ Executed(m) /\ CanConfirm(m)
  BY OpenFields DEF ChainInv, ConfirmRotation, Executed, Can
<1> DEFINE c == m.by
           source == done[c].by
           p == Home(c)
<1>1. /\ token[c].life = "pending" /\ token[source].life = "active" /\ ~token[source].revoked
      /\ source \in Tokens /\ Session(source) /\ Home(source) = p /\ ~token[c].revoked
      /\ Session(c) /\ done[c] # Undone /\ p \in Phones
  <2>1. token[c].life = "pending" /\ token[source].life = "active" /\ ~token[source].revoked
    BY <1>0 DEF CanConfirm, Confirmable
  <2>2. /\ source \in Tokens /\ Session(source) /\ Home(source) = p /\ done[c].op = "prepare"
        /\ token[c].revoked => token[source].revoked
    BY <1>0, <2>1 DEF ChainInv, PendingHasSource
  <2>3. Session(c) /\ done[c] # Undone /\ p \in Phones
    BY <1>0, <2>1, <2>2, TokenFields DEF Session
  <2> QED BY <2>1, <2>2, <2>3
<1>2. Standing(p) = {source}
  BY <1>1 DEF Standing, ChainInv, OneStanding
<1>3. phone[p].status = "connected" /\ standing[phone[p].owner] = "active" /\ p \notin Barred
  BY <1>1, <1>2 DEF ChainInv, StandingIsServed, Barred
<1>4. /\ done' \in [Tokens -> {Undone} \cup Record] /\ open' \subseteq open
      /\ UNCHANGED <<ticket, calls, terms, standing, phone>>
      /\ \A i \in Tokens : done'[i] = done[i] \/ (token[i].life = "none" /\ done'[i] # Undone)
  BY <1>0, <1>1, RecordedCall DEF ConfirmRotation, TrustTypeOK
<1>5. token' = [token EXCEPT ![c].life = "active", ![source] = [@ EXCEPT !.life = "revoked", !.revoked = TRUE]]
  BY DEF ConfirmRotation
<1> HIDE DEF source, p, c
<1>6. c \in Tokens /\ source # c
  BY <1>0, <1>1 DEF c
<1>7. /\ token' \in [Tokens -> [life : {"none", "pending", "active", "consumed", "revoked"},
                                revoked : BOOLEAN, expired : BOOLEAN]]
      /\ token'[c].life = "active" /\ token'[c].revoked = token[c].revoked
      /\ token'[source].life = "revoked" /\ token'[source].revoked
      /\ \A i \in Tokens \ {c, source} : token'[i] = token[i]
  BY <1>0, <1>1, <1>5, <1>6 DEF TrustTypeOK
<1>8. TrustTypeOK' /\ Barred' = Barred
  BY <1>0, <1>4, <1>7 DEF TrustTypeOK, Barred
<1>9. done'[c] = done[c]
  BY <1>1, <1>4, <1>6
<1>10. done'[c] # Undone /\ Session(c)' /\ Home(c)' = p
  BY <1>1, <1>9 DEF Session, Home, p
<1> QED BY <1>1, <1>2, <1>3, <1>4, <1>6, <1>7, <1>8, <1>10, HandedKeeps

LEMMA PrepareKeeps ==
  ASSUME ChainInv, NEW m \in open, PrepareRotation(m)
  PROVE  ChainInv' /\ UNCHANGED chainVars
<1>0. TrustTypeOK /\ m.by \in Tokens /\ m.op = "prepare" /\ m.op # "ingest" /\ Executed(m)
      /\ Current(m.by, TRUE)
  BY OpenFields DEF ChainInv, PrepareRotation, Executed, Can, CanPrepare
<1> DEFINE c == m.req
<1>1. token[m.by].life = "active" /\ Session(m.by) /\ Home(m.by) \in Phones
  BY <1>0, CurrentSession
<1>2. /\ c \in Tokens /\ token[c].life = "none" /\ ~token[c].revoked /\ c # m.by
      /\ done' \in [Tokens -> {Undone} \cup Record] /\ open' \subseteq open
      /\ UNCHANGED <<ticket, calls, terms, standing, phone>>
      /\ done'[c].op = "prepare" /\ done'[c].phone = Home(m.by) /\ done'[c].by = m.by /\ done'[c] # Undone
      /\ \A i \in Tokens \ {c} : done'[i] = done[i]
  BY <1>0, <1>1, RecordedCall DEF PrepareRotation, TrustTypeOK
<1>3. token' = [token EXCEPT ![c].life = "pending"]
  BY DEF PrepareRotation
<1> HIDE DEF c
<1>4. /\ token' \in [Tokens -> [life : {"none", "pending", "active", "consumed", "revoked"},
                                revoked : BOOLEAN, expired : BOOLEAN]]
      /\ token'[c].life = "pending" /\ ~token'[c].revoked
      /\ \A i \in Tokens \ {c} : token'[i] = token[i]
  BY <1>0, <1>2, <1>3 DEF TrustTypeOK
<1>5. TrustTypeOK'
  BY <1>0, <1>2, <1>4 DEF TrustTypeOK
<1>6. \A q \in Phones : (Standing(q))' = Standing(q)
  BY <1>2, <1>4 DEF Standing, Session, Home
<1>7. OneStanding' /\ StandingIsServed' /\ UnusedIsNone'
  BY <1>2, <1>4, <1>6 DEF ChainInv, OneStanding, StandingIsServed, UnusedIsNone
<1>8. PendingHasSource'
  <2> SUFFICES ASSUME NEW i \in Tokens, token'[i].life = "pending"
      PROVE  /\ done'[i].op = "prepare" /\ done'[i].by \in Tokens
             /\ token'[done'[i].by].life # "none"
             /\ done'[done'[i].by].op \in {"activate", "prepare"}
             /\ done'[done'[i].by].phone = done'[i].phone
             /\ token'[i].revoked => token'[done'[i].by].revoked
    BY DEF PendingHasSource, Session, Home
  <2>1. CASE i = c
    BY <1>0, <1>1, <1>2, <1>4, <2>1 DEF Session, Home
  <2>2. CASE i # c
    <3>1. /\ done[i].op = "prepare" /\ done[i].by \in Tokens /\ token[done[i].by].life # "none"
          /\ Session(done[i].by) /\ Home(done[i].by) = Home(i)
          /\ token[i].revoked => token[done[i].by].revoked
      BY <1>4, <2>2 DEF ChainInv, PendingHasSource
    <3>2. done[i].by # c
      BY <1>2, <3>1
    <3> QED BY <1>2, <1>4, <2>2, <3>1, <3>2 DEF Session, Home
  <2> QED BY <2>1, <2>2
<1>9. UNCHANGED chainVars
  <2>1. \A i \in Tokens : token'[i].revoked <=> token[i].revoked
    BY <1>2, <1>4
  <2> QED BY <1>2, <1>6, <2>1 DEF chainVars, Holds, Spent, Barred
<1> QED BY <1>5, <1>7, <1>8, <1>9 DEF ChainInv

LEMMA IngestKeeps ==
  ASSUME ChainInv, NEW m \in open, IngestBatch(m)
  PROVE  ChainInv' /\ Chain!Next
<1>0. TrustTypeOK /\ m.by \in Tokens /\ Current(m.by, TRUE)
  BY OpenFields DEF ChainInv, IngestBatch, Can, CanIngest
<1> DEFINE p == Home(m.by)
<1>1. p \in Phones /\ Standing(p) # {} /\ p \notin Barred
  BY <1>0, CurrentSession
<1>2. PICK batch \in SUBSET CallIds : calls' = [calls EXCEPT ![p] = @ \cup batch]
  BY DEF IngestBatch
<1>3. open' \subseteq open /\ UNCHANGED <<ticket, standing, phone, token, done, terms>>
  BY DEF IngestBatch
<1> HIDE DEF p
<1>4. /\ calls' \in [Phones -> SUBSET CallIds] /\ calls[p] \subseteq calls'[p]
      /\ \A q \in Phones \ {p} : calls'[q] = calls[q]
  BY <1>0, <1>1, <1>2 DEF TrustTypeOK
<1>5. TrustTypeOK'
  BY <1>0, <1>3, <1>4 DEF TrustTypeOK
<1>6. ChainInv' /\ UNCHANGED <<Holds, Spent, Barred>>
  BY <1>3, <1>5, FrameKeeps
<1> QED BY <1>1, <1>4, <1>6, StoreStep

LEMMA ChainStep == ChainInv /\ [TrustNext]_trustVars => ChainInv' /\ (Chain!Next \/ UNCHANGED chainVars)
<1> SUFFICES ASSUME ChainInv, [TrustNext]_trustVars PROVE ChainInv' /\ (Chain!Next \/ UNCHANGED chainVars)
  OBVIOUS
<1>1. CASE UNCHANGED trustVars
  <2>1. UNCHANGED <<ticket, standing, phone, token, done, calls, terms, open>>
    BY <1>1 DEF trustVars
  <2>2. TrustTypeOK'
    BY <2>1 DEF ChainInv, TrustTypeOK
  <2> QED BY <2>1, <2>2, FrameKeeps DEF chainVars
<1> QED BY <1>1, QuietSteps, SuspendKeeps, RevokePhoneKeeps, RevokeSessionKeeps, RedeemKeeps,
           ActivateKeeps, ConfirmKeeps, PrepareKeeps, IngestKeeps
        DEF TrustNext

\* In every run of the in-memory repository (apps/api/src/repository.ts) the sessions of each
\* phone form a chain: one has standing at a time, one that was rotated, revoked, replaced by a
\* pairing or suspended never has it again, and only a phone that has one stores calls,
\* although the calls of other requests come in between authentication and execution.
THEOREM RepositoryChainsSessions == TrustSpec => SessionsChained
<1>1. TrustInit => Chain!Init
  <2> SUFFICES ASSUME TrustInit PROVE Chain!Init
    OBVIOUS
  <2>1. \A p \in Phones : Standing(p) = {}
    BY DEF TrustInit, Standing
  <2> QED BY <2>1 DEF TrustInit, Chain!Init
<1>2. ChainInv /\ [TrustNext]_trustVars
        => [Chain!Next]_<<[p \in Phones |-> Standing(p)], {i \in Tokens : token[i].revoked},
                          {p \in Phones : phone[p].owner # NoStaff /\ standing[phone[p].owner] = "paused"},
                          calls>>
  BY ChainStep DEF chainVars, Holds, Spent, Barred
<1>3. ChainInv /\ [TrustNext]_trustVars => ChainInv'
  BY ChainStep
<1> QED BY <1>1, <1>2, <1>3, ChainInvInit, PTL DEF TrustSpec, SessionsChained, Chain!Spec
================================================================================
