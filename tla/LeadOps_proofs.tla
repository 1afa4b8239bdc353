---------------------------- MODULE LeadOps_proofs ----------------------------
(* What a job reports is what happened to its rows, a row becomes a lead at    *)
(* most once, no team is given a number twice, and turns rotate: for every     *)
(* number of jobs, files, rules and employees, and every size of a batch.      *)
EXTENDS LeadOps, FiniteSetTheorems, WellFoundedInduction, SequenceTheorems, TLAPS

-------------------------------------------------------------------------------
(* The inductive invariant.                                                    *)

\* A rule that was never created has nobody and gave nothing; the members of another are
\* distinct.
RulesSound ==
  \A r \in Rules :
    /\ ~rules[r].exists => /\ rules[r].members = <<>> /\ ~rules[r].active /\ turns[r] = <<>>
    /\ rules[r].exists  => rules[r].members # <<>>
    /\ \A i, k \in DOMAIN rules[r].members : rules[r].members[i] = rules[r].members[k] => i = k

\* A row that may still be imported has a team, and a job that was not staged has no rows.
RowsSound ==
  \A j \in Jobs :
    /\ job[j].status = "none" => rows[j] = <<>>
    /\ \A i \in DOMAIN rows[j] : rows[j][i].decision = "valid" => rows[j][i].team \in OpsTeams

\* A lead made from a row was made from a row there is.
FromRows == \A l \in DOMAIN book : book[l].from # <<>> => book[l].from[2] \in DOMAIN rows[book[l].from[1]]

\* The cursor of a rule that gives turns is behind the member who had the last one.
InTurn(members, n) == members[(n % Len(members)) + 1]
CursorFollows ==
  \A r \in Rules : rules[r].turning /\ turns[r] # <<>> =>
    rules[r].cursor # 0 /\ turns[r][Len(turns[r])] = InTurn(rules[r].members, rules[r].cursor - 1)

OpsInv == ImportInv /\ NoNumberTwice /\ TurnsRotate /\ RulesSound /\ RowsSound /\ FromRows /\ CursorFollows

-------------------------------------------------------------------------------
(* Arithmetic, and loops over the positions of a sequence.                     *)

\* What holds at 0 and is carried from each number to the next holds up to n.
LEMMA UpTo ==
  ASSUME NEW n \in Nat, NEW P, 0 \in P, \A k \in 1..n : k - 1 \in P => k \in P
  PROVE  \A k \in 0..n : k \in P
<1> DEFINE bad == {k \in 0..n : k \notin P}
<1>1. SUFFICES ASSUME bad # {} PROVE FALSE
  OBVIOUS
<1>2. bad \subseteq Nat
  OBVIOUS
<1>3. PICK x \in bad : \A y \in bad : ~(<<y, x>> \in OpToRel(<, Nat))
  BY <1>1, <1>2, NatLessThanWellFounded, WFMin
<1>4. x \in 1..n /\ x - 1 \in 0..n
  <2>1. x \in 0..n /\ x # 0
    BY <1>3
  <2> QED BY <2>1
<1>5. x - 1 \in bad
  BY <1>3, <1>4
<1>6. <<x - 1, x>> \in OpToRel(<, Nat)
  BY <1>4 DEF OpToRel
<1> QED BY <1>3, <1>5, <1>6

LEMMA LeastIn ==
  ASSUME NEW S \in SUBSET Nat, S # {}
  PROVE  Min(S) \in S
<1>1. PICK x \in S : \A y \in S : ~(<<y, x>> \in OpToRel(<, Nat))
  BY NatLessThanWellFounded, WFMin
<1>2. \A y \in S : x <= y
  <2> TAKE y \in S
  <2>1. ~(<<y, x>> \in OpToRel(<, Nat))
    BY <1>1
  <2>2. x \in Nat /\ y \in Nat
    OBVIOUS
  <2>3. ~(y < x)
    BY <2>1, <2>2 DEF OpToRel
  <2> QED BY <2>2, <2>3
<1> QED BY <1>1, <1>2 DEF Min

LEMMA Remainder ==
  ASSUME NEW c \in Nat, NEW n \in Nat \ {0}
  PROVE  c % n \in 0..n - 1
OBVIOUS

\* What is left of a number is determined by it.
LEMMA RemainderIs ==
  ASSUME NEW n \in Nat \ {0}, NEW q \in Nat, NEW r \in 0..n - 1
  PROVE  (q * n + r) % n = r
OBVIOUS

LEMMA Division ==
  ASSUME NEW c \in Nat, NEW n \in Nat \ {0}
  PROVE  \E q \in Nat : c = q * n + (c % n)
<1> DEFINE P == {k \in Nat : \E q \in Nat, m \in 0..n - 1 : k = q * n + m}
<1>1. 0 \in P
  <2>1. 0 = 0 * n + 0 /\ 0 \in 0..n - 1
    OBVIOUS
  <2> QED BY <2>1
<1>2. ASSUME NEW k \in 1..c, k - 1 \in P PROVE k \in P
  <2>1. PICK q \in Nat, m \in 0..n - 1 : k - 1 = q * n + m
    BY <1>2
  <2>2. CASE m + 1 \in 0..n - 1
    <3>1. k = q * n + (m + 1)
      BY <2>1, <2>2
    <3> QED BY <2>2, <3>1
  <2>3. CASE m + 1 = n
    <3>1. k = (q + 1) * n + 0 /\ q + 1 \in Nat /\ 0 \in 0..n - 1
      BY <2>1, <2>3
    <3> QED BY <3>1
  <2> QED BY <2>1, <2>2, <2>3
<1>3. c \in P
  <2> HIDE DEF P
  <2>1. \A k \in 1..c : k - 1 \in P => k \in P
    BY <1>2
  <2>2. \A k \in 0..c : k \in P
    BY <1>1, <2>1, UpTo
  <2>3. c \in 0..c
    OBVIOUS
  <2> QED BY <2>2, <2>3
<1>4. PICK q \in Nat, m \in 0..n - 1 : c = q * n + m
  BY <1>3
<1> QED BY <1>4, RemainderIs

\* The turn after the turn at c is the turn at c + 1.
LEMMA NextTurn ==
  ASSUME NEW c \in Nat, NEW n \in Nat \ {0}
  PROVE  ((c % n) + 1) % n = (c + 1) % n
<1> DEFINE m == c % n
<1>0. PICK q \in Nat : c = q * n + m
  BY Division
<1>1. m \in 0..n - 1 /\ c = q * n + m
  BY <1>0, Remainder
<1> HIDE DEF m
<1>2. CASE m + 1 < n
  <2>1. m + 1 \in 0..n - 1 /\ c + 1 = q * n + (m + 1)
    BY <1>1, <1>2
  <2>2. (c + 1) % n = m + 1
    BY <1>1, <2>1, RemainderIs
  <2>3. (m + 1) % n = m + 1
    <3>1. m + 1 = 0 * n + (m + 1)
      BY <1>1
    <3> QED BY <2>1, <3>1, RemainderIs
  <2> QED BY <2>2, <2>3 DEF m
<1>3. CASE m + 1 = n
  <2>1. c + 1 = (q + 1) * n + 0 /\ q + 1 \in Nat /\ 0 \in 0..n - 1
    BY <1>1, <1>3
  <2>2. (c + 1) % n = 0
    BY <2>1, RemainderIs
  <2>3. (m + 1) % n = 0
    <3>1. m + 1 = 1 * n + 0
      BY <1>1, <1>3
    <3> QED BY <2>1, <3>1, RemainderIs
  <2> QED BY <2>2, <2>3 DEF m
<1> QED BY <1>1, <1>2, <1>3

-------------------------------------------------------------------------------
(* The three loops: what is after each position follows from what was before.  *)

LEMMA StagedLoop ==
  ASSUME NEW file, Len(file) \in Nat
  PROVE  \E f : f = [k \in 0..Len(file) |-> IF k = 0 THEN NothingStaged ELSE StageRow(f[k - 1], file[k])] /\ Staged(file) = f[Len(file)].rows
<1> DEFINE n == Len(file)
           Step(s, k) == StageRow(s, file[k])
           Is(f, m) == f = [k \in 0..m |-> IF k = 0 THEN NothingStaged ELSE Step(f[k - 1], k)]
           P == {m \in Nat : \E f : Is(f, m)}
<1>0. n \in Nat
  OBVIOUS
<1>1. 0 \in P
  <2>1. Is([k \in 0..0 |-> NothingStaged], 0)
    OBVIOUS
  <2> QED BY <2>1
<1>2. ASSUME NEW m \in 1..n, m - 1 \in P PROVE m \in P
  <2>1. PICK f : Is(f, m - 1)
    BY <1>2
  <2> HIDE DEF Step
  <2> DEFINE g == [k \in 0..m |-> IF k = m THEN Step(f[m - 1], m) ELSE f[k]]
  <2>2. ASSUME NEW k \in 0..m
        PROVE  g[k] = IF k = 0 THEN NothingStaged ELSE Step(g[k - 1], k)
    <3>1. CASE k = m
      <4>1. k # 0 /\ m - 1 \in 0..m /\ m - 1 # m
        BY <3>1, <1>2
      <4>2. g[k] = Step(f[m - 1], m) /\ g[m - 1] = f[m - 1]
        BY <3>1, <4>1
      <4> QED BY <3>1, <4>1, <4>2
    <3>2. CASE k # m
      <4>1. k \in 0..m - 1 /\ g[k] = f[k]
        BY <3>2, <1>2
      <4>2. f[k] = IF k = 0 THEN NothingStaged ELSE Step(f[k - 1], k)
        BY <2>1, <4>1
      <4>3. k # 0 => k - 1 \in 0..m /\ k - 1 # m /\ g[k - 1] = f[k - 1]
        BY <4>1, <1>2
      <4> QED BY <4>1, <4>2, <4>3
    <3> QED BY <3>1, <3>2
  <2>3. Is(g, m)
    BY <2>2
  <2>4. m \in Nat
    BY <1>2
  <2> QED BY <2>3, <2>4
<1>3. \E f : Is(f, n)
  <2> HIDE DEF P, n
  <2>1. \A k \in 1..n : k - 1 \in P => k \in P
    BY <1>2
  <2>2. \A k \in 0..n : k \in P
    BY <1>0, <1>1, <2>1, UpTo
  <2>3. n \in 0..n
    BY <1>0
  <2>4. n \in P
    BY <2>2, <2>3
  <2> QED BY <2>4 DEF P
<1> DEFINE after == CHOOSE f : f = [k \in 0..Len(file) |-> IF k = 0 THEN NothingStaged ELSE StageRow(f[k - 1], file[k])]
<1>4. after = [k \in 0..Len(file) |-> IF k = 0 THEN NothingStaged ELSE StageRow(after[k - 1], file[k])]
  BY <1>3
<1>5. Staged(file) = after[Len(file)].rows
  BY DEF Staged
<1> HIDE DEF after
<1> QED BY <1>4, <1>5

LEMMA CommittedLoop ==
  ASSUME NEW j, Len(rows[j]) \in Nat
  PROVE  \E f : f = [k \in 0..Len(rows[j]) |-> IF k = 0 THEN Uncommitted(j) ELSE CommitRow(j, f[k - 1], k)] /\ Committed(j) = f[Len(rows[j])]
<1> DEFINE n == Len(rows[j])
           Step(s, k) == CommitRow(j, s, k)
           Is(f, m) == f = [k \in 0..m |-> IF k = 0 THEN Uncommitted(j) ELSE Step(f[k - 1], k)]
           P == {m \in Nat : \E f : Is(f, m)}
<1>0. n \in Nat
  OBVIOUS
<1>1. 0 \in P
  <2>1. Is([k \in 0..0 |-> Uncommitted(j)], 0)
    OBVIOUS
  <2> QED BY <2>1
<1>2. ASSUME NEW m \in 1..n, m - 1 \in P PROVE m \in P
  <2>1. PICK f : Is(f, m - 1)
    BY <1>2
  <2> HIDE DEF Step
  <2> DEFINE g == [k \in 0..m |-> IF k = m THEN Step(f[m - 1], m) ELSE f[k]]
  <2>2. ASSUME NEW k \in 0..m
        PROVE  g[k] = IF k = 0 THEN Uncommitted(j) ELSE Step(g[k - 1], k)
    <3>1. CASE k = m
      <4>1. k # 0 /\ m - 1 \in 0..m /\ m - 1 # m
        BY <3>1, <1>2
      <4>2. g[k] = Step(f[m - 1], m) /\ g[m - 1] = f[m - 1]
        BY <3>1, <4>1
      <4> QED BY <3>1, <4>1, <4>2
    <3>2. CASE k # m
      <4>1. k \in 0..m - 1 /\ g[k] = f[k]
        BY <3>2, <1>2
      <4>2. f[k] = IF k = 0 THEN Uncommitted(j) ELSE Step(f[k - 1], k)
        BY <2>1, <4>1
      <4>3. k # 0 => k - 1 \in 0..m /\ k - 1 # m /\ g[k - 1] = f[k - 1]
        BY <4>1, <1>2
      <4> QED BY <4>1, <4>2, <4>3
    <3> QED BY <3>1, <3>2
  <2>3. Is(g, m)
    BY <2>2
  <2>4. m \in Nat
    BY <1>2
  <2> QED BY <2>3, <2>4
<1>3. \E f : Is(f, n)
  <2> HIDE DEF P, n
  <2>1. \A k \in 1..n : k - 1 \in P => k \in P
    BY <1>2
  <2>2. \A k \in 0..n : k \in P
    BY <1>0, <1>1, <2>1, UpTo
  <2>3. n \in 0..n
    BY <1>0
  <2>4. n \in P
    BY <2>2, <2>3
  <2> QED BY <2>4 DEF P
<1> DEFINE after == CHOOSE f : f = [k \in 0..Len(rows[j]) |-> IF k = 0 THEN Uncommitted(j) ELSE CommitRow(j, f[k - 1], k)]
<1>4. after = [k \in 0..Len(rows[j]) |-> IF k = 0 THEN Uncommitted(j) ELSE CommitRow(j, after[k - 1], k)]
  BY <1>3
<1>5. Committed(j) = after[Len(rows[j])]
  BY DEF Committed
<1> HIDE DEF after
<1> QED BY <1>4, <1>5

LEMMA PlannedLoop ==
  ASSUME Len(book) \in Nat
  PROVE  \E f : f = [k \in 0..Len(book) |-> IF k = 0 THEN Unplanned ELSE AssignLead(f[k - 1], k)] /\ Planned = f[Len(book)]
<1> DEFINE n == Len(book)
           Step(s, k) == AssignLead(s, k)
           Is(f, m) == f = [k \in 0..m |-> IF k = 0 THEN Unplanned ELSE Step(f[k - 1], k)]
           P == {m \in Nat : \E f : Is(f, m)}
<1>0. n \in Nat
  OBVIOUS
<1>1. 0 \in P
  <2>1. Is([k \in 0..0 |-> Unplanned], 0)
    OBVIOUS
  <2> QED BY <2>1
<1>2. ASSUME NEW m \in 1..n, m - 1 \in P PROVE m \in P
  <2>1. PICK f : Is(f, m - 1)
    BY <1>2
  <2> HIDE DEF Step
  <2> DEFINE g == [k \in 0..m |-> IF k = m THEN Step(f[m - 1], m) ELSE f[k]]
  <2>2. ASSUME NEW k \in 0..m
        PROVE  g[k] = IF k = 0 THEN Unplanned ELSE Step(g[k - 1], k)
    <3>1. CASE k = m
      <4>1. k # 0 /\ m - 1 \in 0..m /\ m - 1 # m
        BY <3>1, <1>2
      <4>2. g[k] = Step(f[m - 1], m) /\ g[m - 1] = f[m - 1]
        BY <3>1, <4>1
      <4> QED BY <3>1, <4>1, <4>2
    <3>2. CASE k # m
      <4>1. k \in 0..m - 1 /\ g[k] = f[k]
        BY <3>2, <1>2
      <4>2. f[k] = IF k = 0 THEN Unplanned ELSE Step(f[k - 1], k)
        BY <2>1, <4>1
      <4>3. k # 0 => k - 1 \in 0..m /\ k - 1 # m /\ g[k - 1] = f[k - 1]
        BY <4>1, <1>2
      <4> QED BY <4>1, <4>2, <4>3
    <3> QED BY <3>1, <3>2
  <2>3. Is(g, m)
    BY <2>2
  <2>4. m \in Nat
    BY <1>2
  <2> QED BY <2>3, <2>4
<1>3. \E f : Is(f, n)
  <2> HIDE DEF P, n
  <2>1. \A k \in 1..n : k - 1 \in P => k \in P
    BY <1>2
  <2>2. \A k \in 0..n : k \in P
    BY <1>0, <1>1, <2>1, UpTo
  <2>3. n \in 0..n
    BY <1>0
  <2>4. n \in P
    BY <2>2, <2>3
  <2> QED BY <2>4 DEF P
<1> DEFINE after == CHOOSE f : f = [k \in 0..Len(book) |-> IF k = 0 THEN Unplanned ELSE AssignLead(f[k - 1], k)]
<1>4. after = [k \in 0..Len(book) |-> IF k = 0 THEN Unplanned ELSE AssignLead(after[k - 1], k)]
  BY <1>3
<1>5. Planned = after[Len(book)]
  BY DEF Planned
<1> HIDE DEF after
<1> QED BY <1>4, <1>5

-------------------------------------------------------------------------------
(* Rules, numbers and the fields of the records.                               *)

RuleType == [exists : BOOLEAN, active : BOOLEAN, team : OpsTeams, sources : SUBSET Sources,
             turning : BOOLEAN, members : Seq(Agents), cursor : Nat, version : Nat]

LEMMA RuleFields ==
  ASSUME OpsTypeOK, NEW r \in Rules
  PROVE  /\ rules[r] \in RuleType
         /\ rules[r].members \in Seq(Agents) /\ rules[r].cursor \in Nat /\ rules[r].version \in Nat
         /\ rules[r].team \in OpsTeams /\ rules[r].turning \in BOOLEAN
<1>1. rules[r] \in RuleType
  BY DEF OpsTypeOK, RuleType
<1> QED BY <1>1 DEF RuleType

LEMMA LeadFields ==
  ASSUME NEW x \in BookLead
  PROVE  /\ x.number \in Numbers /\ x.alternate \in Numbers \cup {NoNumber} /\ x.team \in OpsTeams
         /\ x.owner \in Agents \cup {NoAgent} /\ x.source \in Sources
         /\ x.archived \in BOOLEAN /\ x.handled \in BOOLEAN /\ x.from \in {<<>>} \cup (Jobs \X Nat)
BY DEF BookLead

LEMMA RowFields ==
  ASSUME NEW x \in Row
  PROVE  /\ x.input \in Input /\ x.decision \in Decisions /\ x.team \in OpsTeams \cup {0}
         /\ x.owner \in Agents \cup {NoAgent} /\ x.rule \in Rules \cup {NoRule}
         /\ x.seen \in Nat /\ x.lead \in Nat
BY DEF Row

LEMMA TeamsAre ==
  /\ OpsTeams \subseteq Nat
  /\ HomeTeam \in OpsTeams
  /\ \A a \in Agents : AgentTeam[a] \in OpsTeams /\ AgentTeam[a] # 0
BY OpsSets DEF OpsTeams

\* A rule with members names one of them, and in turn if it gives turns.
LEMMA ChosenIs ==
  ASSUME OpsTypeOK, NEW r \in Rules, rules[r].members # <<>>, NEW won \in Nat
  PROVE  /\ \E i \in DOMAIN rules[r].members : Chosen(r, won) = rules[r].members[i]
         /\ Chosen(r, won) \in Agents
         /\ rules[r].turning => Chosen(r, won) = InTurn(rules[r].members, rules[r].cursor + won)
<1> DEFINE m == rules[r].members
           c == rules[r].cursor + won
<1>1. m \in Seq(Agents) /\ c \in Nat
  BY RuleFields
<1>2. Len(m) \in Nat \ {0} /\ DOMAIN m = 1..Len(m)
  BY <1>1, EmptySeq, LenProperties
<1>3. (c % Len(m)) + 1 \in 1..Len(m) /\ 1 \in 1..Len(m)
  <2> HIDE DEF m, c
  <2>1. c % Len(m) \in 0..Len(m) - 1
    BY <1>1, <1>2, Remainder
  <2> QED BY <1>2, <2>1
<1>4. \A i \in 1..Len(m) : m[i] \in Agents
  BY <1>1, ElementOfSeq
<1>5. rules[r].turning => Chosen(r, won) = m[(c % Len(m)) + 1]
  BY DEF Chosen
<1>6. ~rules[r].turning => Chosen(r, won) = m[1]
  BY DEF Chosen
<1>7. rules[r].turning => Chosen(r, won) = InTurn(m, c)
  BY <1>5 DEF InTurn
<1> HIDE DEF m, c
<1> QED BY <1>2, <1>3, <1>4, <1>5, <1>6, <1>7 DEF m, c

\* The rules that fit are taken by priority.
LEMMA FirstFits ==
  ASSUME NEW fit \in SUBSET Rules
  PROVE  FirstRule(fit) = NoRule \/ FirstRule(fit) \in fit
<1>1. fit \subseteq Nat
  BY OpsSets
<1>2. fit # {} => Min(fit) \in fit
  BY <1>1, LeastIn
<1> QED BY <1>2 DEF FirstRule

\* When none is found, no lead of the team that is not archived has a number of the row.
LEMMA NoneExisting ==
  ASSUME NEW leads \in Seq(BookLead), NEW team, NEW x, Existing(leads, team, x) = 0
  PROVE  \A l \in DOMAIN leads : leads[l].team = team /\ ~leads[l].archived
           => PhonesOf(leads[l]) \cap PhonesOf(x) = {}
<1> DEFINE hits == {l \in DOMAIN leads : /\ leads[l].team = team /\ ~leads[l].archived
                                         /\ PhonesOf(leads[l]) \cap PhonesOf(x) # {}}
<1>1. Existing(leads, team, x) = IF hits = {} THEN 0 ELSE Min(hits)
  BY DEF Existing
<1>2. hits \in SUBSET Nat /\ 0 \notin hits
  BY LenProperties
<1>3. hits # {} => Min(hits) \in hits
  BY <1>2, LeastIn
<1>4. hits = {}
  <2> HIDE DEF hits
  <2> QED BY <1>1, <1>2, <1>3
<1> QED BY <1>4

-------------------------------------------------------------------------------
(* A commit, row by row: what is true of the accumulator after each position.  *)

AccType == [book : Seq(BookLead), rows : Seq(Row), won : [Rules -> Nat], given : [Rules -> Seq(Agents)]]

\* A row keeps what it was staged with; only the batch's valid rows change.
Follows(j, k, staged) ==
  /\ Len(staged) = Len(rows[j])
  /\ \A i \in DOMAIN rows[j] :
       /\ staged[i].input = rows[j][i].input /\ staged[i].team = rows[j][i].team
       /\ staged[i].owner = rows[j][i].owner /\ staged[i].rule = rows[j][i].rule
       /\ i > k \/ rows[j][i].decision # "valid" => staged[i] = rows[j][i]

\* The leads there were are there, and a new one is of a row of the job, its owner eligible.
Grows(j, leads) ==
  /\ Len(book) <= Len(leads)
  /\ \A l \in 1..Len(book) : leads[l] = book[l]
  /\ \A l \in Len(book) + 1..Len(leads) :
       /\ \E i \in DOMAIN rows[j] : leads[l].from = <<j, i>> /\ rows[j][i].decision = "valid"
       /\ leads[l].owner # NoAgent => InTeam(leads[l].owner, leads[l].team)

\* An imported row of the job names its lead, and a lead of the job its row.
NamesOneAnother(j, leads, staged) ==
  /\ \A i \in DOMAIN staged :
       IF staged[i].decision = "imported"
       THEN staged[i].lead \in DOMAIN leads /\ leads[staged[i].lead].from = <<j, i>>
            /\ (~leads[staged[i].lead].handled => leads[staged[i].lead].number = staged[i].input.number)
       ELSE staged[i].lead = 0
  /\ \A l \in DOMAIN leads : leads[l].from # <<>> /\ leads[l].from[1] = j =>
       leads[l].from[2] \in DOMAIN staged /\ staged[leads[l].from[2]].lead = l

\* What a rule has given so far are its next turns.
TurnsTaken(won, given) ==
  \A r \in Rules :
    /\ given[r] # <<>> => rules[r].exists
    /\ rules[r].turning => /\ Len(given[r]) = won[r]
                           /\ \A i \in 1..won[r] : given[r][i] = InTurn(rules[r].members, rules[r].cursor + (i - 1))

StagedLead(x) == /\ x.from # <<>> /\ ~x.handled /\ ~x.archived
                 /\ x.team = rows[x.from[1]][x.from[2]].team
NoTwo(leads) ==
  \A l, m \in DOMAIN leads :
    (l # m /\ StagedLead(leads[l]) /\ StagedLead(leads[m]) /\ leads[l].team = leads[m].team) =>
      PhonesOf(leads[l]) \cap PhonesOf(leads[m]) = {}

CommitAcc(j, k, acc) ==
  /\ acc \in AccType
  /\ Follows(j, k, acc.rows) /\ Grows(j, acc.book) /\ NamesOneAnother(j, acc.book, acc.rows)
  /\ TurnsTaken(acc.won, acc.given) /\ NoTwo(acc.book)

LEMMA AccFields ==
  ASSUME NEW acc \in AccType
  PROVE  /\ acc.book \in Seq(BookLead) /\ acc.rows \in Seq(Row)
         /\ acc.won \in [Rules -> Nat] /\ acc.given \in [Rules -> Seq(Agents)]
BY DEF AccType

\* A row of the batch is found unfit, or makes a lead whose owner is eligible, in a team that
\* has none of its numbers.
LEMMA RowOutcome ==
  ASSUME OpsTypeOK, RulesSound, NEW j \in Jobs, NEW acc \in AccType, NEW k \in DOMAIN acc.rows,
         k \in NextRows(j), acc.rows[k].team \in OpsTeams
  PROVE  \/ CommitRow(j, acc, k) = Invalidate(acc, k)
         \/ CommitRow(j, acc, k) = Duplicate(acc, k)
         \/ \E owner \in Agents \cup {NoAgent}, team \in OpsTeams :
              /\ CommitRow(j, acc, k) = Import(acc, k, NewLead(acc.rows[k].input, team, owner, <<j, k>>))
              /\ owner # NoAgent => InTeam(owner, team)
              /\ Existing(acc.book, acc.rows[k].team, acc.rows[k].input) = 0
              /\ acc.rows[k].rule # NoRule =>
                   /\ acc.rows[k].rule \in Rules /\ Usable(acc.rows[k].rule)
                   /\ owner = Chosen(acc.rows[k].rule, acc.won[acc.rows[k].rule])
<1> DEFINE row == acc.rows[k]
           r == row.rule
           owner == IF r # NoRule THEN Chosen(r, acc.won[r]) ELSE row.owner
<1>1. row \in Row
  BY AccFields, ElementOfSeq, LenProperties
<1>2. row.owner \in Agents \cup {NoAgent} /\ r \in Rules \cup {NoRule}
  BY <1>1, RowFields
<1>3. ASSUME r # NoRule, Usable(r)
      PROVE  /\ owner \in Agents /\ owner \in employed /\ owner # NoAgent
             /\ AgentTeam[owner] = rules[r].team
  <2>1. r \in Rules /\ acc.won[r] \in Nat
    BY <1>2, <1>3, AccFields
  <2>2. rules[r].members # <<>> /\ \A i \in DOMAIN rules[r].members : InTeam(rules[r].members[i], rules[r].team)
    BY <1>3 DEF Usable
  <2>3. /\ \E i \in DOMAIN rules[r].members : Chosen(r, acc.won[r]) = rules[r].members[i]
        /\ Chosen(r, acc.won[r]) \in Agents
    BY <2>1, <2>2, ChosenIs
  <2>4. owner = Chosen(r, acc.won[r])
    BY <1>3
  <2> HIDE DEF owner
  <2> QED BY <2>2, <2>3, <2>4, OpsNulls DEF InTeam
<1>4. r = NoRule => owner = row.owner
  OBVIOUS
<1>5. r # NoRule => owner = Chosen(r, acc.won[r])
  OBVIOUS
<1>6. CASE store = "postgres"
  <2>1. CommitRow(j, acc, k) = PgRow(j, acc, k)
    BY <1>6 DEF CommitRow
  <2>2. CASE CommitRow(j, acc, k) = Import(acc, k, NewLead(row.input, row.team, owner, <<j, k>>))
    <3>1. CASE PgRow(j, acc, k) = Invalidate(acc, k) \/ PgRow(j, acc, k) = Duplicate(acc, k)
      BY <2>1, <3>1
    <3>2. CASE /\ PgRow(j, acc, k) # Invalidate(acc, k) /\ PgRow(j, acc, k) # Duplicate(acc, k)
      <4>1. /\ Existing(acc.book, row.team, row.input) = 0
            /\ r # NoRule => Usable(r) /\ Matches(r, row.team, row.input.source)
            /\ r = NoRule /\ row.owner # NoAgent => InTeam(row.owner, row.team)
        BY <3>2 DEF PgRow
      <4>2. r # NoRule => rules[r].team = row.team
        BY <4>1 DEF Matches
      <4>3. owner # NoAgent => InTeam(owner, row.team)
        BY <1>3, <1>4, <4>1, <4>2 DEF InTeam
      <4>4. owner \in Agents \cup {NoAgent}
        BY <1>2, <1>3, <1>4, <4>1
      <4> HIDE DEF owner
      <4> QED BY <1>2, <1>5, <2>2, <4>1, <4>3, <4>4
    <3> QED BY <3>1, <3>2
  <2>3. CASE CommitRow(j, acc, k) # Import(acc, k, NewLead(row.input, row.team, owner, <<j, k>>))
    <3>1. PgRow(j, acc, k) = Invalidate(acc, k) \/ PgRow(j, acc, k) = Duplicate(acc, k)
      BY <2>1, <2>3 DEF PgRow
    <3> QED BY <2>1, <3>1
  <2> QED BY <2>2, <2>3
<1>7. CASE store # "postgres"
  <2> DEFINE team == IF owner = NoAgent THEN HomeTeam ELSE AgentTeam[owner]
  <2>1. CommitRow(j, acc, k) = MemRow(j, acc, k)
    BY <1>7 DEF CommitRow
  <2>2. CASE CommitRow(j, acc, k) = Import(acc, k, NewLead(row.input, team, owner, <<j, k>>))
    <3>1. CASE MemRow(j, acc, k) = Invalidate(acc, k) \/ MemRow(j, acc, k) = Duplicate(acc, k)
      BY <2>1, <3>1
    <3>2. CASE /\ MemRow(j, acc, k) # Invalidate(acc, k) /\ MemRow(j, acc, k) # Duplicate(acc, k)
      <4>1. /\ Existing(acc.book, row.team, row.input) = 0
            /\ r # NoRule => Usable(r)
            /\ r = NoRule /\ row.owner # NoAgent => row.owner \in employed
        BY <3>2 DEF MemRow
      <4>2. owner \in Agents \cup {NoAgent} /\ (owner # NoAgent => owner \in employed)
        BY <1>2, <1>3, <1>4, <4>1
      <4> HIDE DEF owner
      <4>3. team \in OpsTeams /\ (owner # NoAgent => InTeam(owner, team))
        BY <4>2, TeamsAre DEF InTeam
      <4> HIDE DEF team
      <4> QED BY <1>2, <1>5, <2>2, <4>1, <4>2, <4>3
    <3> QED BY <3>1, <3>2
  <2>3. CASE CommitRow(j, acc, k) # Import(acc, k, NewLead(row.input, team, owner, <<j, k>>))
    <3>1. MemRow(j, acc, k) = Invalidate(acc, k) \/ MemRow(j, acc, k) = Duplicate(acc, k)
      BY <2>1, <2>3 DEF MemRow
    <3> QED BY <2>1, <3>1
  <2> QED BY <2>2, <2>3
<1> QED BY <1>6, <1>7

LEMMA JobRows ==
  ASSUME OpsTypeOK, NEW j \in Jobs
  PROVE  rows[j] \in Seq(Row) /\ Len(rows[j]) \in Nat /\ DOMAIN rows[j] = 1..Len(rows[j])
<1>1. rows[j] \in Seq(Row)
  BY DEF OpsTypeOK
<1> QED BY <1>1, LenProperties

LEMMA BookIs ==
  ASSUME OpsTypeOK
  PROVE  book \in Seq(BookLead) /\ Len(book) \in Nat /\ DOMAIN book = 1..Len(book)
<1>1. book \in Seq(BookLead)
  BY DEF OpsTypeOK
<1> QED BY <1>1, LenProperties

LEMMA BeforeRow ==
  ASSUME OpsInv, NEW j \in Jobs, NEW k \in 1..Len(rows[j]), NEW acc, CommitAcc(j, k - 1, acc),
         k \in NextRows(j)
  PROVE  /\ acc \in AccType /\ k \in DOMAIN rows[j]
         /\ Len(acc.rows) = Len(rows[j]) /\ DOMAIN acc.rows = DOMAIN rows[j]
         /\ acc.rows[k] = rows[j][k] /\ acc.rows[k] \in Row
         /\ acc.rows[k].decision = "valid" /\ acc.rows[k].team \in OpsTeams /\ acc.rows[k].lead = 0
<1>1. OpsTypeOK /\ RowsSound
  BY DEF OpsInv, ImportInv
<1>2. rows[j] \in Seq(Row) /\ DOMAIN rows[j] = 1..Len(rows[j])
  BY <1>1, JobRows
<1>3. acc \in AccType /\ Follows(j, k - 1, acc.rows) /\ NamesOneAnother(j, acc.book, acc.rows)
  BY DEF CommitAcc
<1>4. acc.rows \in Seq(Row) /\ Len(acc.rows) = Len(rows[j])
  BY <1>3, AccFields DEF Follows
<1>5. DOMAIN acc.rows = DOMAIN rows[j]
  BY <1>2, <1>4, LenProperties
<1>6. k \in DOMAIN rows[j]
  BY <1>2
<1>7. acc.rows[k] = rows[j][k]
  BY <1>3, <1>6 DEF Follows
<1>8. rows[j][k].decision = "valid"
  BY DEF NextRows, ValidRows
<1>9. rows[j][k].team \in OpsTeams
  BY <1>1, <1>6, <1>8 DEF RowsSound
<1>10. rows[j][k] \in Row
  BY <1>2, ElementOfSeq
<1>11. acc.rows[k].lead = 0
  BY <1>3, <1>5, <1>6, <1>7, <1>8 DEF NamesOneAnother
<1> QED BY <1>3, <1>4, <1>5, <1>6, <1>7, <1>8, <1>9, <1>10, <1>11

\* A row found unfit changes nothing but its decision.
LEMMA UnfitKeeps ==
  ASSUME OpsInv, NEW j \in Jobs, NEW k \in 1..Len(rows[j]), NEW acc, CommitAcc(j, k - 1, acc),
         k \in NextRows(j), NEW what \in {"invalid", "duplicate"},
         NEW new, new = [acc EXCEPT !.rows[k].decision = what]
  PROVE  CommitAcc(j, k, new)
<1> DEFINE row  == [acc.rows[k] EXCEPT !.decision = what]
<1>1. /\ acc \in AccType /\ k \in DOMAIN rows[j]
      /\ Len(acc.rows) = Len(rows[j]) /\ DOMAIN acc.rows = DOMAIN rows[j]
      /\ acc.rows[k] = rows[j][k] /\ acc.rows[k] \in Row
      /\ acc.rows[k].decision = "valid" /\ acc.rows[k].lead = 0
  BY BeforeRow
<1>2. /\ Follows(j, k - 1, acc.rows) /\ Grows(j, acc.book) /\ NamesOneAnother(j, acc.book, acc.rows)
      /\ TurnsTaken(acc.won, acc.given) /\ NoTwo(acc.book)
  BY DEF CommitAcc
<1>3. row \in Row
  BY <1>1 DEF Row, Decisions
<1>4. /\ row.decision = what /\ row.lead = 0 /\ row.input = acc.rows[k].input
      /\ row.team = acc.rows[k].team /\ row.owner = acc.rows[k].owner /\ row.rule = acc.rows[k].rule
  BY <1>1 DEF Row
<1>5. /\ new.book = acc.book /\ new.won = acc.won /\ new.given = acc.given
      /\ new.rows = [acc.rows EXCEPT ![k] = row]
  BY <1>1 DEF AccType
<1>6. acc.rows \in Seq(Row) /\ k \in 1..Len(acc.rows)
  BY <1>1, AccFields
<1>7. /\ new.rows \in Seq(Row) /\ Len(new.rows) = Len(rows[j])
      /\ DOMAIN new.rows = DOMAIN rows[j]
  <2>1. new.rows \in Seq(Row) /\ Len(new.rows) = Len(acc.rows)
    BY <1>3, <1>5, <1>6, ExceptSeq
  <2>2. DOMAIN new.rows = DOMAIN acc.rows
    BY <1>5
  <2> QED BY <1>1, <2>1, <2>2
<1>8. new.rows[k] = row /\ \A i \in DOMAIN rows[j] : i # k => new.rows[i] = acc.rows[i]
  BY <1>1, <1>5
<1>9. new \in AccType
  <2>1. acc.book \in Seq(BookLead) /\ acc.won \in [Rules -> Nat] /\ acc.given \in [Rules -> Seq(Agents)]
    BY <1>1, AccFields
  <2>2. new.rows \in Seq(Row)
    BY <1>7
  <2>3. new = [acc EXCEPT !.rows = new.rows]
    BY <1>1, <1>5 DEF AccType
  <2> QED BY <1>1, <2>2, <2>3 DEF AccType
<1> HIDE DEF row
<1>10. DOMAIN rows[j] = 1..Len(rows[j])
  BY JobRows DEF OpsInv, ImportInv
<1>11. Follows(j, k, new.rows)
  <2>1. ASSUME NEW i \in DOMAIN rows[j]
        PROVE  /\ new.rows[i].input = rows[j][i].input /\ new.rows[i].team = rows[j][i].team
               /\ new.rows[i].owner = rows[j][i].owner /\ new.rows[i].rule = rows[j][i].rule
               /\ i > k \/ rows[j][i].decision # "valid" => new.rows[i] = rows[j][i]
    <3>1. CASE i = k
      BY <1>1, <1>4, <1>8, <1>10, <3>1
    <3>2. CASE i # k
      <4>1. i > k => i > k - 1
        BY <1>10
      <4> QED BY <1>2, <1>8, <3>2, <4>1 DEF Follows
    <3> QED BY <3>1, <3>2
  <2> QED BY <1>7, <2>1 DEF Follows
<1>12. NamesOneAnother(j, new.book, new.rows)
  <2>1. \A i \in DOMAIN new.rows :
          IF new.rows[i].decision = "imported"
          THEN new.rows[i].lead \in DOMAIN new.book /\ new.book[new.rows[i].lead].from = <<j, i>>
               /\ (~new.book[new.rows[i].lead].handled
                    => new.book[new.rows[i].lead].number = new.rows[i].input.number)
          ELSE new.rows[i].lead = 0
    <3> TAKE i \in DOMAIN new.rows
    <3>1. CASE i = k
      BY <1>4, <1>8, <3>1
    <3>2. CASE i # k
      <4>1. i \in DOMAIN acc.rows /\ new.rows[i] = acc.rows[i]
        BY <1>1, <1>7, <1>8, <3>2
      <4>2. IF acc.rows[i].decision = "imported"
            THEN acc.rows[i].lead \in DOMAIN acc.book /\ acc.book[acc.rows[i].lead].from = <<j, i>>
                 /\ (~acc.book[acc.rows[i].lead].handled
                      => acc.book[acc.rows[i].lead].number = acc.rows[i].input.number)
            ELSE acc.rows[i].lead = 0
        BY <1>2, <4>1 DEF NamesOneAnother
      <4> QED BY <1>5, <4>1, <4>2
    <3> QED BY <3>1, <3>2
  <2>2. \A l \in DOMAIN new.book : new.book[l].from # <<>> /\ new.book[l].from[1] = j =>
          new.book[l].from[2] \in DOMAIN new.rows /\ new.rows[new.book[l].from[2]].lead = l
    <3> TAKE l \in DOMAIN new.book
    <3> HAVE new.book[l].from # <<>> /\ new.book[l].from[1] = j
    <3>1. acc.book[l].from[2] \in DOMAIN acc.rows /\ acc.rows[acc.book[l].from[2]].lead = l
      BY <1>2, <1>5 DEF NamesOneAnother
    <3> QED BY <1>1, <1>4, <1>5, <1>7, <1>8, <3>1
  <2> QED BY <2>1, <2>2 DEF NamesOneAnother
<1> QED BY <1>2, <1>5, <1>9, <1>11, <1>12 DEF CommitAcc

\* The turns after an import: the rule of the row, if it gives turns, has given one more.
GivesOne(r, won, given, won2, given2) ==
  /\ given2[r] = Append(given[r], Chosen(r, won[r]))
  /\ rules[r].turning => won2[r] = won[r] + 1
  /\ \A q \in Rules \ {r} : given2[q] = given[q] /\ won2[q] = won[q]

LEMMA TurnGiven ==
  ASSUME OpsTypeOK, NEW won \in [Rules -> Nat], NEW given \in [Rules -> Seq(Agents)],
         TurnsTaken(won, given), NEW r \in Rules, rules[r].exists, rules[r].members # <<>>,
         NEW won2, NEW given2, GivesOne(r, won, given, won2, given2)
  PROVE  TurnsTaken(won2, given2)
<1> DEFINE who == Chosen(r, won[r])
<1>0. /\ given2[r] = Append(given[r], who) /\ (rules[r].turning => won2[r] = won[r] + 1)
      /\ \A q \in Rules : q # r => (given2[q] = given[q] /\ won2[q] = won[q])
  BY DEF GivesOne
<1>1. who \in Agents /\ (rules[r].turning => who = InTurn(rules[r].members, rules[r].cursor + won[r]))
  BY ChosenIs
<1> HIDE DEF who
<1>2. given[r] \in Seq(Agents) /\ Len(given[r]) \in Nat /\ won[r] \in Nat
  BY LenProperties
<1>3. /\ Append(given[r], who) \in Seq(Agents) /\ Len(Append(given[r], who)) = Len(given[r]) + 1
      /\ \A i \in 1..Len(given[r]) : Append(given[r], who)[i] = given[r][i]
      /\ Append(given[r], who)[Len(given[r]) + 1] = who
  BY <1>1, <1>2, AppendProperties
<1>6. ASSUME NEW q \in Rules
      PROVE  /\ given2[q] # <<>> => rules[q].exists
             /\ rules[q].turning =>
                  /\ Len(given2[q]) = won2[q]
                  /\ \A i \in 1..won2[q] : given2[q][i] = InTurn(rules[q].members, rules[q].cursor + (i - 1))
  <2>1. CASE q # r
    <3>1. given2[q] = given[q] /\ won2[q] = won[q]
      BY <1>0, <2>1
    <3> QED BY <3>1 DEF TurnsTaken
  <2>2. CASE q = r
    <3>1. given2[r] = Append(given[r], who)
      BY <1>0
    <3>2. ASSUME rules[r].turning
          PROVE  /\ Len(given2[r]) = won2[r]
                 /\ \A i \in 1..won2[r] : given2[r][i] = InTurn(rules[r].members, rules[r].cursor + (i - 1))
      <4>1. won2[r] = won[r] + 1 /\ Len(given[r]) = won[r]
        BY <1>0, <3>2 DEF TurnsTaken
      <4>2. ASSUME NEW i \in 1..won2[r]
            PROVE  given2[r][i] = InTurn(rules[r].members, rules[r].cursor + (i - 1))
        <5>1. CASE i \in 1..won[r]
          <6>1. given2[r][i] = given[r][i]
            BY <1>3, <3>1, <4>1, <5>1
          <6> QED BY <3>2, <5>1, <6>1 DEF TurnsTaken
        <5>2. CASE i = won[r] + 1
          <6>1. given2[r][i] = who /\ i - 1 = won[r]
            BY <1>2, <1>3, <3>1, <4>1, <5>2
          <6> QED BY <1>1, <3>2, <6>1
        <5> QED BY <1>2, <4>1, <5>1, <5>2
      <4>3. Len(given2[r]) = won2[r]
        BY <1>3, <3>1, <4>1
      <4> QED BY <4>2, <4>3
    <3> QED BY <2>2, <3>2
  <2> QED BY <2>1, <2>2
<1>7. TurnsTaken(won2, given2)
  BY <1>6 DEF TurnsTaken
<1> QED BY <1>7

\* An imported row.
LEMMA ImportKeeps ==
  ASSUME OpsInv, NEW j \in Jobs, NEW k \in 1..Len(rows[j]), NEW acc, CommitAcc(j, k - 1, acc),
         k \in NextRows(j), NEW owner \in Agents \cup {NoAgent}, NEW team \in OpsTeams,
         owner # NoAgent => InTeam(owner, team),
         Existing(acc.book, acc.rows[k].team, acc.rows[k].input) = 0,
         acc.rows[k].rule # NoRule =>
           /\ acc.rows[k].rule \in Rules /\ Usable(acc.rows[k].rule)
           /\ owner = Chosen(acc.rows[k].rule, acc.won[acc.rows[k].rule])
  PROVE  CommitAcc(j, k, Import(acc, k, NewLead(acc.rows[k].input, team, owner, <<j, k>>)))
<1> DEFINE lead == NewLead(acc.rows[k].input, team, owner, <<j, k>>)
           new  == Import(acc, k, lead)
           n    == Len(acc.book)
           r    == acc.rows[k].rule
           row  == [acc.rows[k] EXCEPT !.decision = "imported", !.lead = n + 1]
           won  == IF r # NoRule /\ rules[r].turning THEN [acc.won EXCEPT ![r] = @ + 1] ELSE acc.won
           given == IF r # NoRule THEN [acc.given EXCEPT ![r] = Append(@, owner)] ELSE acc.given
<1>0. OpsTypeOK /\ RulesSound
  BY DEF OpsInv, ImportInv
<1>1. /\ acc \in AccType /\ k \in DOMAIN rows[j]
      /\ Len(acc.rows) = Len(rows[j]) /\ DOMAIN acc.rows = DOMAIN rows[j]
      /\ acc.rows[k] = rows[j][k] /\ acc.rows[k] \in Row
      /\ acc.rows[k].decision = "valid" /\ acc.rows[k].lead = 0
  BY BeforeRow
<1>2. /\ Follows(j, k - 1, acc.rows) /\ Grows(j, acc.book) /\ NamesOneAnother(j, acc.book, acc.rows)
      /\ TurnsTaken(acc.won, acc.given) /\ NoTwo(acc.book)
  BY DEF CommitAcc
<1>3. /\ acc.book \in Seq(BookLead) /\ acc.rows \in Seq(Row)
      /\ acc.won \in [Rules -> Nat] /\ acc.given \in [Rules -> Seq(Agents)]
      /\ n \in Nat /\ DOMAIN acc.book = 1..n
  BY <1>1, AccFields, LenProperties
<1>4. row \in Row
  <2>1. n + 1 \in Nat
    BY <1>3
  <2> HIDE DEF n
  <2> QED BY <1>1, <2>1 DEF Row, Decisions
<1>5. /\ row.decision = "imported" /\ row.lead = n + 1 /\ row.input = acc.rows[k].input
      /\ row.team = acc.rows[k].team /\ row.owner = acc.rows[k].owner /\ row.rule = acc.rows[k].rule
  BY <1>1 DEF Row
<1>6. /\ lead \in BookLead
      /\ lead.number = row.input.number /\ lead.alternate = acc.rows[k].input.alternate
      /\ lead.team = team /\ lead.owner = owner /\ lead.from = <<j, k>>
  <2>1. acc.rows[k].input \in Input
    BY <1>1, RowFields
  <2>2. k \in Nat
    OBVIOUS
  <2> HIDE DEF row
  <2> QED BY <1>5, <2>1, <2>2 DEF NewLead, BookLead, Input
<1> HIDE DEF lead
<1>7. /\ new.book = Append(acc.book, lead)
      /\ new.rows = [acc.rows EXCEPT ![k] = row]
      /\ new.won = won
  BY DEF Import
<1>8. new.given = given
  BY <1>6 DEF Import
<1>9. /\ new.rows \in Seq(Row) /\ Len(new.rows) = Len(rows[j])
      /\ DOMAIN new.rows = DOMAIN rows[j]
  <2> HIDE DEF new, row
  <2>0. k \in 1..Len(acc.rows)
    BY <1>1
  <2>1. new.rows \in Seq(Row) /\ Len(new.rows) = Len(acc.rows)
    BY <1>3, <1>4, <1>7, <2>0, ExceptSeq
  <2>2. DOMAIN new.rows = DOMAIN acc.rows
    BY <1>7
  <2> QED BY <1>1, <2>1, <2>2
<1> HIDE DEF row
<1>10. new.rows[k] = row /\ \A i \in DOMAIN rows[j] : i # k => new.rows[i] = acc.rows[i]
  <2> HIDE DEF new
  <2> QED BY <1>1, <1>7
<1>11. /\ new.book \in Seq(BookLead) /\ Len(new.book) = n + 1 /\ DOMAIN new.book = 1..n + 1
       /\ \A l \in 1..n : new.book[l] = acc.book[l]
       /\ new.book[n + 1] = lead
  <2> HIDE DEF new
  <2>1. /\ new.book \in Seq(BookLead) /\ Len(new.book) = n + 1
        /\ \A l \in 1..n : new.book[l] = acc.book[l]
        /\ new.book[n + 1] = lead
    BY <1>3, <1>6, <1>7, AppendProperties
  <2> HIDE DEF n
  <2> QED BY <2>1, LenProperties
<1>12. new.won \in [Rules -> Nat] /\ new.given \in [Rules -> Seq(Agents)] /\ TurnsTaken(new.won, new.given)
  <2> HIDE DEF new
  <2>1. CASE r = NoRule
    <3>1. new.won = acc.won /\ new.given = acc.given
      BY <1>7, <1>8, <2>1
    <3> QED BY <1>2, <1>3, <3>1
  <2>2. CASE r # NoRule
    <3>1. r \in Rules /\ Usable(r) /\ owner = Chosen(r, acc.won[r])
      BY <2>2
    <3>2. rules[r].exists /\ rules[r].members # <<>>
      <4>1. rules[r].active /\ rules[r].members # <<>>
        BY <3>1 DEF Usable
      <4> QED BY <1>0, <3>1, <4>1 DEF RulesSound
    <3>3. /\ new.won = (IF rules[r].turning THEN [acc.won EXCEPT ![r] = @ + 1] ELSE acc.won)
          /\ new.given = [acc.given EXCEPT ![r] = Append(@, owner)]
      BY <1>7, <1>8, <2>2
    <3>4. acc.won \in [Rules -> Nat] /\ acc.given \in [Rules -> Seq(Agents)] /\ TurnsTaken(acc.won, acc.given)
      BY <1>2, <1>3
    <3>6. /\ new.given[r] = Append(acc.given[r], owner) /\ (rules[r].turning => new.won[r] = acc.won[r] + 1)
          /\ \A q \in Rules \ {r} : new.given[q] = acc.given[q] /\ new.won[q] = acc.won[q]
      <4> HIDE DEF r, given, won
      <4>1. /\ new.given[r] = Append(acc.given[r], owner)
            /\ \A q \in Rules \ {r} : new.given[q] = acc.given[q]
        BY <1>3, <3>1, <3>3
      <4>2. /\ rules[r].turning => new.won[r] = acc.won[r] + 1
            /\ \A q \in Rules \ {r} : new.won[q] = acc.won[q]
        BY <1>3, <3>1, <3>3
      <4> QED BY <4>1, <4>2
    <3>7. owner \in Agents
      <4>1. acc.won[r] \in Nat
        BY <1>3, <3>1
      <4>2. Chosen(r, acc.won[r]) \in Agents
        <5> HIDE DEF r
        <5> QED BY <1>0, <3>1, <3>2, <4>1, ChosenIs
      <4> QED BY <3>1, <4>2
    <3>8. new.won \in [Rules -> Nat] /\ new.given \in [Rules -> Seq(Agents)]
      <4>1. acc.given[r] \in Seq(Agents) /\ acc.won[r] \in Nat
        BY <1>3, <3>1
      <4>2. Append(acc.given[r], owner) \in Seq(Agents)
        BY <3>7, <4>1, AppendProperties
      <4> HIDE DEF r
      <4> QED BY <1>3, <3>1, <3>3, <4>1, <4>2
    <3>5. GivesOne(r, acc.won, acc.given, new.won, new.given)
      BY <3>1, <3>6 DEF GivesOne
    <3>9. TurnsTaken(new.won, new.given)
      <4> HIDE DEF r
      <4> QED BY <1>0, <3>1, <3>2, <3>4, <3>5, TurnGiven
    <3> QED BY <3>8, <3>9
  <2> QED BY <2>1, <2>2
<1>13. new \in AccType
  <2>1. new = [book |-> new.book, rows |-> new.rows, won |-> new.won, given |-> new.given]
    BY DEF Import
  <2> HIDE DEF new
  <2> QED BY <1>1, <1>9, <1>11, <1>12, <2>1 DEF AccType
<1> HIDE DEF new
<1>14. DOMAIN rows[j] = 1..Len(rows[j])
  BY <1>0, JobRows
<1>15. Follows(j, k, new.rows)
  <2>1. ASSUME NEW i \in DOMAIN rows[j]
        PROVE  /\ new.rows[i].input = rows[j][i].input /\ new.rows[i].team = rows[j][i].team
               /\ new.rows[i].owner = rows[j][i].owner /\ new.rows[i].rule = rows[j][i].rule
               /\ i > k \/ rows[j][i].decision # "valid" => new.rows[i] = rows[j][i]
    <3>1. CASE i = k
      BY <1>1, <1>5, <1>10, <1>14, <3>1
    <3>2. CASE i # k
      <4>1. i > k => i > k - 1
        BY <1>14
      <4> QED BY <1>2, <1>10, <3>2, <4>1 DEF Follows
    <3> QED BY <3>1, <3>2
  <2> QED BY <1>9, <2>1 DEF Follows
<1>16. Grows(j, new.book)
  <2> HIDE DEF n
  <2>0. Len(book) \in Nat /\ Len(book) <= n
    BY <1>0, <1>2, BookIs DEF Grows, n
  <2>1. \A l \in 1..Len(book) : new.book[l] = book[l]
    BY <1>2, <1>3, <1>11, <2>0 DEF Grows
  <2>2. ASSUME NEW l \in Len(book) + 1..Len(new.book)
        PROVE  /\ \E i \in DOMAIN rows[j] : new.book[l].from = <<j, i>> /\ rows[j][i].decision = "valid"
               /\ new.book[l].owner # NoAgent => InTeam(new.book[l].owner, new.book[l].team)
    <3>1. CASE l = n + 1
      <4>1. new.book[l] = lead
        BY <1>11, <3>1
      <4> QED BY <1>1, <1>6, <4>1
    <3>2. CASE l # n + 1
      <4>1. l \in Len(book) + 1..n /\ l \in 1..n
        BY <1>3, <1>11, <2>0, <3>2
      <4>2. new.book[l] = acc.book[l]
        BY <1>11, <4>1
      <4> QED BY <1>2, <4>1, <4>2 DEF Grows, n
    <3> QED BY <3>1, <3>2
  <2>3. Len(book) <= Len(new.book)
    BY <1>3, <1>11, <2>0
  <2> QED BY <2>1, <2>2, <2>3 DEF Grows
<1>17. NamesOneAnother(j, new.book, new.rows)
  <2> HIDE DEF n
  <2>1. ASSUME NEW i \in DOMAIN new.rows
        PROVE  IF new.rows[i].decision = "imported"
               THEN new.rows[i].lead \in DOMAIN new.book /\ new.book[new.rows[i].lead].from = <<j, i>>
                    /\ (~new.book[new.rows[i].lead].handled
                         => new.book[new.rows[i].lead].number = new.rows[i].input.number)
               ELSE new.rows[i].lead = 0
    <3>1. CASE i = k
      <4>1. new.rows[i] = row /\ row.decision = "imported" /\ row.lead = n + 1
        BY <1>5, <1>10, <3>1
      <4>2. n + 1 \in DOMAIN new.book /\ new.book[n + 1] = lead
        BY <1>3, <1>11
      <4>3. lead.from = <<j, i>> /\ lead.number = row.input.number
        BY <1>6, <3>1
      <4> QED BY <4>1, <4>2, <4>3
    <3>2. CASE i # k
      <4>1. new.rows[i] = acc.rows[i] /\ i \in DOMAIN acc.rows
        BY <1>1, <1>9, <1>10, <3>2
      <4>2. IF acc.rows[i].decision = "imported"
            THEN acc.rows[i].lead \in DOMAIN acc.book /\ acc.book[acc.rows[i].lead].from = <<j, i>>
                 /\ (~acc.book[acc.rows[i].lead].handled
                      => acc.book[acc.rows[i].lead].number = acc.rows[i].input.number)
            ELSE acc.rows[i].lead = 0
        BY <1>2, <4>1 DEF NamesOneAnother
      <4>3. \A l \in DOMAIN acc.book : l \in DOMAIN new.book /\ new.book[l] = acc.book[l]
        BY <1>3, <1>11
      <4> QED BY <4>1, <4>2, <4>3
    <3> QED BY <3>1, <3>2
  <2>2. ASSUME NEW l \in DOMAIN new.book, new.book[l].from # <<>>, new.book[l].from[1] = j
        PROVE  new.book[l].from[2] \in DOMAIN new.rows /\ new.rows[new.book[l].from[2]].lead = l
    <3>1. CASE l = n + 1
      <4>1. new.book[l].from[2] = k
        BY <1>6, <1>11, <3>1
      <4> QED BY <1>1, <1>5, <1>9, <1>10, <3>1, <4>1
    <3>2. CASE l # n + 1
      <4>1. l \in 1..n /\ l \in DOMAIN acc.book
        BY <1>3, <1>11, <3>2
      <4>2. new.book[l] = acc.book[l]
        BY <1>11, <4>1
      <4>3. acc.book[l].from[2] \in DOMAIN acc.rows /\ acc.rows[acc.book[l].from[2]].lead = l
        BY <1>2, <2>2, <4>1, <4>2 DEF NamesOneAnother
      <4>4. acc.book[l].from[2] # k
        BY <1>1, <4>1, <4>3
      <4> QED BY <1>1, <1>9, <1>10, <4>2, <4>3, <4>4
    <3> QED BY <3>1, <3>2
  <2> QED BY <2>1, <2>2 DEF NamesOneAnother
<1>18. NoTwo(new.book)
  <2> HIDE DEF n
  <2>1. PhonesOf(lead) = PhonesOf(acc.rows[k].input)
    BY <1>5, <1>6 DEF PhonesOf
  <2>2. ASSUME StagedLead(lead), NEW l \in 1..n, StagedLead(acc.book[l]), acc.book[l].team = lead.team
        PROVE  PhonesOf(acc.book[l]) \cap PhonesOf(lead) = {}
    <3>1. lead.team = rows[lead.from[1]][lead.from[2]].team
      BY <2>2 DEF StagedLead
    <3>2. lead.from[1] = j /\ lead.from[2] = k
      BY <1>6
    <3>3. acc.book[l].team = acc.rows[k].team /\ ~acc.book[l].archived
      BY <1>1, <2>2, <3>1, <3>2 DEF StagedLead
    <3>4. PhonesOf(acc.book[l]) \cap PhonesOf(acc.rows[k].input) = {}
      BY <1>3, <3>3, NoneExisting
    <3> QED BY <2>1, <3>4
  <2>3. ASSUME NEW l \in DOMAIN new.book, NEW m \in DOMAIN new.book, l # m, StagedLead(new.book[l]),
               StagedLead(new.book[m]), new.book[l].team = new.book[m].team
        PROVE  PhonesOf(new.book[l]) \cap PhonesOf(new.book[m]) = {}
    <3>1. l \in 1..n \/ l = n + 1
      BY <1>3, <1>11
    <3>2. m \in 1..n \/ m = n + 1
      BY <1>3, <1>11
    <3>3. CASE l \in 1..n /\ m \in 1..n
      <4>1. new.book[l] = acc.book[l] /\ new.book[m] = acc.book[m]
        BY <1>11, <3>3
      <4> QED BY <1>2, <1>3, <2>3, <3>3, <4>1 DEF NoTwo
    <3>4. CASE l \in 1..n /\ m = n + 1
      <4>1. new.book[l] = acc.book[l] /\ new.book[m] = lead
        BY <1>11, <3>4
      <4> QED BY <2>2, <2>3, <3>4, <4>1
    <3>5. CASE l = n + 1 /\ m \in 1..n
      <4>1. new.book[m] = acc.book[m] /\ new.book[l] = lead
        BY <1>11, <3>5
      <4>2. PhonesOf(acc.book[m]) \cap PhonesOf(lead) = {}
        BY <2>2, <2>3, <3>5, <4>1
      <4> QED BY <4>1, <4>2
    <3> QED BY <2>3, <3>1, <3>2, <3>3, <3>4, <3>5
  <2> QED BY <2>3 DEF NoTwo
<1> QED BY <1>12, <1>13, <1>15, <1>16, <1>17, <1>18 DEF CommitAcc, new, lead

LEMMA CommitStarts ==
  ASSUME OpsInv, NEW j \in Jobs
  PROVE  CommitAcc(j, 0, Uncommitted(j))
<1> DEFINE acc == Uncommitted(j)
<1>1. OpsTypeOK /\ RowsAndLeads /\ NoNumberTwice /\ FromRows
  BY DEF OpsInv, ImportInv
<1>2. acc.book = book /\ acc.rows = rows[j] /\ acc.won = NoneWon /\ acc.given = NoneGiven
  BY DEF Uncommitted
<1>3. rows[j] \in Seq(Row) /\ DOMAIN rows[j] = 1..Len(rows[j]) /\ Len(rows[j]) \in Nat
  BY <1>1, JobRows
<1>4. book \in Seq(BookLead) /\ DOMAIN book = 1..Len(book) /\ Len(book) \in Nat
  BY <1>1, BookIs
<1>5. NoneWon \in [Rules -> Nat] /\ NoneGiven \in [Rules -> Seq(Agents)]
  <2>1. <<>> \in Seq(Agents)
    BY EmptySeq
  <2> QED BY <2>1 DEF NoneWon, NoneGiven
<1>6. acc \in AccType
  BY <1>3, <1>4, <1>5 DEF Uncommitted, AccType
<1> HIDE DEF acc
<1>7. Follows(j, 0, acc.rows)
  BY <1>2 DEF Follows
<1>8. Grows(j, acc.book)
  BY <1>2, <1>4 DEF Grows
<1>9. NamesOneAnother(j, acc.book, acc.rows)
  <2>1. \A i \in DOMAIN rows[j] :
          IF rows[j][i].decision = "imported"
          THEN rows[j][i].lead \in DOMAIN book /\ book[rows[j][i].lead].from = <<j, i>>
               /\ (~book[rows[j][i].lead].handled => book[rows[j][i].lead].number = rows[j][i].input.number)
          ELSE rows[j][i].lead = 0
    BY <1>1 DEF RowsAndLeads
  <2>2. \A l \in DOMAIN book : book[l].from # <<>> /\ book[l].from[1] = j =>
          book[l].from[2] \in DOMAIN rows[j] /\ rows[j][book[l].from[2]].lead = l
    BY <1>1 DEF RowsAndLeads, FromRows
  <2> QED BY <1>2, <2>1, <2>2 DEF NamesOneAnother
<1>10. TurnsTaken(acc.won, acc.given)
  <2>1. \A r \in Rules : acc.given[r] = <<>> /\ acc.won[r] = 0 /\ Len(acc.given[r]) = 0
    BY <1>2, EmptySeq DEF NoneWon, NoneGiven
  <2>2. \A r \in Rules : 1..acc.won[r] = {}
    BY <2>1
  <2> QED BY <2>1, <2>2 DEF TurnsTaken
<1>11. NoTwo(acc.book)
  BY <1>1, <1>2 DEF NoTwo, NoNumberTwice, StagedLead, AsStaged
<1> QED BY <1>6, <1>7, <1>8, <1>9, <1>10, <1>11 DEF CommitAcc, acc

LEMMA CommitRowKeeps ==
  ASSUME OpsInv, NEW j \in Jobs, NEW k \in 1..Len(rows[j]), NEW acc, CommitAcc(j, k - 1, acc)
  PROVE  CommitAcc(j, k, CommitRow(j, acc, k))
<1>0. OpsTypeOK /\ RulesSound
  BY DEF OpsInv, ImportInv
<1>1. CASE k \notin NextRows(j)
  <2>1. CommitRow(j, acc, k) = acc
    BY <1>1 DEF CommitRow
  <2>2. DOMAIN rows[j] = 1..Len(rows[j])
    BY <1>0, JobRows
  <2>3. \A i \in DOMAIN rows[j] : i > k => i > k - 1
    BY <2>2
  <2>4. Follows(j, k, acc.rows)
    BY <2>3 DEF CommitAcc, Follows
  <2> QED BY <2>1, <2>4 DEF CommitAcc
<1>2. CASE k \in NextRows(j)
  <2>1. acc \in AccType /\ k \in DOMAIN acc.rows /\ acc.rows[k].team \in OpsTeams
    BY <1>2, BeforeRow
  <2>2. CASE CommitRow(j, acc, k) = Invalidate(acc, k)
    <3>1. CommitRow(j, acc, k) = [acc EXCEPT !.rows[k].decision = "invalid"]
      BY <2>2 DEF Invalidate
    <3> QED BY <1>2, <3>1, UnfitKeeps
  <2>3. CASE CommitRow(j, acc, k) = Duplicate(acc, k)
    <3>1. CommitRow(j, acc, k) = [acc EXCEPT !.rows[k].decision = "duplicate"]
      BY <2>3 DEF Duplicate
    <3> QED BY <1>2, <3>1, UnfitKeeps
  <2>4. ASSUME NEW owner \in Agents \cup {NoAgent}, NEW team \in OpsTeams,
               CommitRow(j, acc, k) = Import(acc, k, NewLead(acc.rows[k].input, team, owner, <<j, k>>)),
               owner # NoAgent => InTeam(owner, team),
               Existing(acc.book, acc.rows[k].team, acc.rows[k].input) = 0,
               acc.rows[k].rule # NoRule =>
                 /\ acc.rows[k].rule \in Rules /\ Usable(acc.rows[k].rule)
                 /\ owner = Chosen(acc.rows[k].rule, acc.won[acc.rows[k].rule])
        PROVE  CommitAcc(j, k, CommitRow(j, acc, k))
    BY <1>2, <2>4, ImportKeeps
  <2> QED BY <1>0, <1>2, <2>1, <2>2, <2>3, <2>4, RowOutcome
<1> QED BY <1>1, <1>2

\* After the whole batch.
LEMMA CommitEnds ==
  ASSUME OpsInv, NEW j \in Jobs
  PROVE  CommitAcc(j, Len(rows[j]), Committed(j))
<1> DEFINE n == Len(rows[j])
<1>1. n \in Nat
  BY JobRows DEF OpsInv, ImportInv
<1>2. PICK f : /\ f = [k \in 0..n |-> IF k = 0 THEN Uncommitted(j) ELSE CommitRow(j, f[k - 1], k)]
               /\ Committed(j) = f[n]
  BY <1>1, CommittedLoop
<1> DEFINE P == {k \in 0..n : CommitAcc(j, k, f[k])}
<1>3. 0 \in P
  <2>1. 0 \in 0..n /\ f[0] = Uncommitted(j)
    BY <1>1, <1>2
  <2>2. CommitAcc(j, 0, f[0])
    BY <2>1, CommitStarts
  <2> QED BY <2>1, <2>2
<1>4. ASSUME NEW k \in 1..n, k - 1 \in P PROVE k \in P
  <2>1. k \in 0..n /\ f[k] = CommitRow(j, f[k - 1], k)
    BY <1>1, <1>2
  <2>2. CommitAcc(j, k - 1, f[k - 1])
    BY <1>4
  <2>3. CommitAcc(j, k, f[k])
    BY <2>1, <2>2, CommitRowKeeps
  <2> QED BY <2>1, <2>3
<1>5. \A k \in 0..n : k \in P
  <2> HIDE DEF P, n
  <2>1. \A k \in 1..n : k - 1 \in P => k \in P
    BY <1>4
  <2> QED BY <1>1, <1>3, <2>1, UpTo
<1>6. n \in 0..n
  BY <1>1
<1>7. n \in P
  BY <1>5, <1>6
<1> QED BY <1>2, <1>7

-------------------------------------------------------------------------------
(* Turns: what a commit or a run has given is appended to the history.         *)

LEMMA FollowingTurn ==
  ASSUME NEW m \in Seq(Agents), m # <<>>, \A i, k \in DOMAIN m : m[i] = m[k] => i = k, NEW n \in Nat
  PROVE  Following(m, InTurn(m, n)) = InTurn(m, n + 1)
<1>1. Len(m) \in Nat \ {0} /\ DOMAIN m = 1..Len(m)
  BY EmptySeq, LenProperties
<1> DEFINE i == (n % Len(m)) + 1
<1>2. i \in DOMAIN m
  <2>1. n % Len(m) \in 0..Len(m) - 1
    BY <1>1, Remainder
  <2> QED BY <1>1, <2>1
<1>3. (CHOOSE k \in DOMAIN m : m[k] = InTurn(m, n)) = i
  <2>1. m[i] = InTurn(m, n)
    BY DEF InTurn
  <2> HIDE DEF i
  <2> QED BY <1>2, <2>1
<1>4. i % Len(m) = (n + 1) % Len(m)
  BY <1>1, NextTurn
<1> HIDE DEF i
<1> QED BY <1>3, <1>4 DEF Following, InTurn

LEMMA AdvancedIs ==
  ASSUME OpsTypeOK, NEW won \in [Rules -> Nat], NEW r \in Rules, NEW new, new = Advanced(won)[r]
  PROVE  /\ Advanced(won) \in [Rules -> RuleType]
         /\ new.exists = rules[r].exists /\ new.active = rules[r].active /\ new.members = rules[r].members
         /\ new.turning = rules[r].turning /\ new.cursor = rules[r].cursor + won[r]
<1>1. ASSUME NEW q \in Rules
      PROVE  [rules[q] EXCEPT !.cursor = @ + won[q], !.version = @ + 1] \in RuleType
  <2>1. rules[q] \in RuleType /\ rules[q].cursor + won[q] \in Nat /\ rules[q].version + 1 \in Nat
    BY RuleFields
  <2> QED BY <2>1 DEF RuleType
<1>2. Advanced(won) \in [Rules -> RuleType]
  BY <1>1, RuleFields DEF Advanced
<1>3. rules[r] \in RuleType /\ rules[r].cursor \in Nat
  BY RuleFields
<1>4. CASE won[r] = 0
  <2>1. new = rules[r] /\ rules[r].cursor + won[r] = rules[r].cursor
    BY <1>3, <1>4 DEF Advanced
  <2> QED BY <1>2, <2>1
<1>5. CASE won[r] # 0
  <2>1. new = [rules[r] EXCEPT !.cursor = @ + won[r], !.version = @ + 1]
    BY <1>5 DEF Advanced
  <2> QED BY <1>2, <1>3, <2>1 DEF RuleType
<1> QED BY <1>4, <1>5

LEMMA TurnsAdvance ==
  ASSUME OpsInv, NEW won \in [Rules -> Nat], NEW given \in [Rules -> Seq(Agents)], TurnsTaken(won, given),
         rules' = Advanced(won), Remember(given)
  PROVE  /\ rules' \in [Rules -> RuleType] /\ turns' \in [Rules -> Seq(Agents)]
         /\ TurnsRotate' /\ RulesSound' /\ CursorFollows'
<1>0. OpsTypeOK /\ RulesSound /\ TurnsRotate /\ CursorFollows
  BY DEF OpsInv, ImportInv
<1>1. \A r \in Rules : turns[r] \in Seq(Agents) /\ given[r] \in Seq(Agents)
  BY <1>0 DEF OpsTypeOK
<1>2. turns' \in [Rules -> Seq(Agents)] /\ \A r \in Rules : turns'[r] = turns[r] \o given[r]
  <2>1. \A r \in Rules : turns[r] \o given[r] \in Seq(Agents)
    BY <1>1, ConcatProperties
  <2> QED BY <2>1 DEF Remember
<1>3. rules' \in [Rules -> RuleType]
  <2>1. CASE Rules = {}
    BY <2>1 DEF Advanced
  <2>2. CASE Rules # {}
    BY <1>0, <2>2, AdvancedIs
  <2> QED BY <2>1, <2>2
<1>4. ASSUME NEW r \in Rules
      PROVE  /\ rules'[r].exists = rules[r].exists /\ rules'[r].active = rules[r].active
             /\ rules'[r].members = rules[r].members
             /\ rules'[r].turning = rules[r].turning /\ rules'[r].cursor = rules[r].cursor + won[r]
  <2> DEFINE new == Advanced(won)[r]
  <2>1. rules'[r] = new /\ new = Advanced(won)[r]
    OBVIOUS
  <2> HIDE DEF new
  <2>2. /\ new.exists = rules[r].exists /\ new.active = rules[r].active /\ new.members = rules[r].members
        /\ new.turning = rules[r].turning /\ new.cursor = rules[r].cursor + won[r]
    BY <1>0, <2>1, AdvancedIs
  <2> QED BY <2>1, <2>2
<1>5. ASSUME NEW r \in Rules, rules[r].turning, turns'[r] # <<>>
      PROVE  /\ rules'[r].cursor # 0 /\ turns'[r][Len(turns'[r])] = InTurn(rules'[r].members, rules'[r].cursor - 1)
             /\ \A i \in 1..Len(turns'[r]) - 1 : turns'[r][i + 1] = Following(rules'[r].members, turns'[r][i])
  <2> DEFINE m == rules[r].members
             c == rules[r].cursor
             w == won[r]
             t == turns[r]
             g == given[r]
  <2>1. /\ t \in Seq(Agents) /\ g \in Seq(Agents) /\ Len(t) \in Nat /\ Len(g) \in Nat
        /\ turns'[r] = t \o g /\ Len(t \o g) = Len(t) + Len(g)
        /\ \A i \in 1..Len(t) + Len(g) : (t \o g)[i] = IF i <= Len(t) THEN t[i] ELSE g[i - Len(t)]
    BY <1>1, <1>2, LenProperties, ConcatProperties
  <2>2. rules[r].exists
    <3>1. t # <<>> \/ g # <<>>
      BY <1>5, <2>1, ConcatEqualIffEmpty
    <3> QED BY <1>0, <3>1 DEF RulesSound, TurnsTaken
  <2>3. m \in Seq(Agents) /\ m # <<>> /\ (\A i, k \in DOMAIN m : m[i] = m[k] => i = k) /\ c \in Nat /\ w \in Nat
    BY <1>0, <2>2, RuleFields DEF RulesSound
  <2>4. Len(g) = w /\ \A i \in 1..w : g[i] = InTurn(m, c + (i - 1))
    BY <1>5 DEF TurnsTaken
  <2>5. \A i \in 1..Len(t) - 1 : t[i + 1] = Following(m, t[i])
    BY <1>0, <1>5 DEF TurnsRotate
  <2>6. t # <<>> => c # 0 /\ t[Len(t)] = InTurn(m, c - 1)
    BY <1>0, <1>5 DEF CursorFollows
  <2>7. Len(t) # 0 => t # <<>>
    BY <2>1, EmptySeq
  <2>8. Len(t) + w # 0
    <3> SUFFICES ASSUME Len(t) + w = 0 PROVE FALSE
      OBVIOUS
    <3>1. Len(t) = 0 /\ Len(g) = 0
      BY <2>1, <2>3, <2>4
    <3>2. t = <<>> /\ g = <<>>
      BY <2>1, <3>1, EmptySeq
    <3> QED BY <1>5, <2>1, <3>2, ConcatEqualIffEmpty
  <2>9. rules'[r].members = m /\ rules'[r].cursor = c + w
    BY <1>4
  <2> HIDE DEF m, c, w, t, g
  <2>10. c + w # 0 /\ (t \o g)[Len(t) + w] = InTurn(m, c + w - 1)
    <3>1. CASE w = 0
      <4>1. Len(t) # 0 /\ (t \o g)[Len(t) + w] = t[Len(t)]
        BY <2>1, <2>4, <2>8, <3>1
      <4>2. c + w = c
        BY <2>3, <3>1
      <4> QED BY <2>3, <2>6, <2>7, <4>1, <4>2
    <3>2. CASE w # 0
      <4>1. (t \o g)[Len(t) + w] = g[w]
        BY <2>1, <2>3, <2>4, <3>2
      <4>2. g[w] = InTurn(m, c + (w - 1)) /\ c + (w - 1) = c + w - 1 /\ c + w # 0
        BY <2>3, <2>4, <3>2
      <4> QED BY <4>1, <4>2
    <3> QED BY <3>1, <3>2
  <2>11. ASSUME NEW i \in 1..(Len(t) + w) - 1
         PROVE  (t \o g)[i + 1] = Following(m, (t \o g)[i])
    <3>1. CASE i + 1 <= Len(t)
      <4>1. (t \o g)[i + 1] = t[i + 1] /\ (t \o g)[i] = t[i] /\ i \in 1..Len(t) - 1
        BY <2>1, <2>3, <2>4, <3>1
      <4> QED BY <2>5, <4>1
    <3>2. CASE i = Len(t)
      <4>1. (t \o g)[i + 1] = g[1] /\ (t \o g)[i] = t[Len(t)] /\ Len(t) # 0 /\ 1 \in 1..w
        BY <2>1, <2>3, <2>4, <3>2
      <4>2. t[Len(t)] = InTurn(m, c - 1) /\ c - 1 \in Nat
        <5>1. c # 0 /\ t[Len(t)] = InTurn(m, c - 1)
          BY <2>6, <2>7, <4>1
        <5>2. c - 1 \in Nat
          BY <2>3, <5>1
        <5> QED BY <5>1, <5>2
      <4>3. g[1] = InTurn(m, c) /\ (c - 1) + 1 = c
        <5>1. c + (1 - 1) = c /\ (c - 1) + 1 = c
          BY <2>3
        <5> QED BY <2>4, <4>1, <5>1
      <4> QED BY <2>3, <4>1, <4>2, <4>3, FollowingTurn
    <3>3. CASE i > Len(t)
      <4> DEFINE p == i - Len(t)
      <4>1. p \in 1..w /\ p + 1 \in 1..w /\ (t \o g)[i] = g[p] /\ (t \o g)[i + 1] = g[p + 1]
        <5>1. p \in 1..w /\ p + 1 \in 1..w /\ i \in 1..Len(t) + Len(g) /\ i + 1 \in 1..Len(t) + Len(g)
          BY <2>1, <2>3, <2>4, <3>3
        <5>2. (i + 1) - Len(t) = p + 1 /\ ~(i <= Len(t)) /\ ~(i + 1 <= Len(t))
          BY <2>1, <3>3
        <5> QED BY <2>1, <5>1, <5>2
      <4> HIDE DEF p
      <4>2. g[p] = InTurn(m, c + (p - 1)) /\ g[p + 1] = InTurn(m, c + ((p + 1) - 1))
        BY <2>4, <4>1
      <4>3. c + (p - 1) \in Nat /\ c + ((p + 1) - 1) = (c + (p - 1)) + 1
        BY <2>3, <4>1
      <4> QED BY <2>3, <4>1, <4>2, <4>3, FollowingTurn
    <3>4. i \in Nat /\ Len(t) \in Nat /\ (i + 1 <= Len(t) \/ i = Len(t) \/ i > Len(t))
      BY <2>1, <2>3
    <3> QED BY <3>1, <3>2, <3>3, <3>4
  <2>12. turns'[r] = t \o g /\ Len(turns'[r]) = Len(t) + w
    BY <2>1, <2>4
  <2>13. rules'[r].cursor # 0 /\ turns'[r][Len(turns'[r])] = InTurn(rules'[r].members, rules'[r].cursor - 1)
    <3>1. turns'[r][Len(turns'[r])] = (t \o g)[Len(t) + w]
      BY <2>12
    <3>2. rules'[r].cursor # 0 /\ InTurn(rules'[r].members, rules'[r].cursor - 1) = InTurn(m, c + w - 1)
      <4>1. rules'[r].cursor - 1 = c + w - 1 /\ rules'[r].cursor # 0
        BY <2>3, <2>9, <2>10
      <4> QED BY <2>9, <4>1
    <3> QED BY <2>10, <3>1, <3>2
  <2>14. ASSUME NEW i \in 1..Len(turns'[r]) - 1
         PROVE  turns'[r][i + 1] = Following(rules'[r].members, turns'[r][i])
    <3>1. i \in 1..(Len(t) + w) - 1
      BY <2>12
    <3>2. (t \o g)[i + 1] = Following(m, (t \o g)[i])
      BY <2>11, <3>1
    <3> QED BY <2>9, <2>12, <3>2
  <2> QED BY <2>13, <2>14
<1>6. TurnsRotate'
  <2> SUFFICES ASSUME NEW r \in Rules, rules'[r].turning
               PROVE  \A i \in 1..Len(turns'[r]) - 1 : turns'[r][i + 1] = Following(rules'[r].members, turns'[r][i])
    BY DEF TurnsRotate
  <2>1. CASE turns'[r] = <<>>
    <3>1. 1..Len(turns'[r]) - 1 = {}
      BY <2>1, EmptySeq
    <3> QED BY <3>1
  <2>2. CASE turns'[r] # <<>>
    BY <1>4, <1>5, <2>2
  <2> QED BY <2>1, <2>2
<1>7. CursorFollows'
  BY <1>4, <1>5 DEF CursorFollows
<1>8. RulesSound'
  <2> SUFFICES ASSUME NEW r \in Rules
      PROVE  /\ ~rules'[r].exists => /\ rules'[r].members = <<>> /\ ~rules'[r].active /\ turns'[r] = <<>>
             /\ rules'[r].exists  => rules'[r].members # <<>>
             /\ \A i, k \in DOMAIN rules'[r].members : rules'[r].members[i] = rules'[r].members[k] => i = k
    BY DEF RulesSound
  <2>1. /\ rules'[r].exists = rules[r].exists /\ rules'[r].active = rules[r].active
        /\ rules'[r].members = rules[r].members
    BY <1>4
  <2>2. /\ ~rules[r].exists => /\ rules[r].members = <<>> /\ ~rules[r].active /\ turns[r] = <<>>
        /\ rules[r].exists  => rules[r].members # <<>>
        /\ \A i, k \in DOMAIN rules[r].members : rules[r].members[i] = rules[r].members[k] => i = k
    BY <1>0 DEF RulesSound
  <2>3. ~rules[r].exists => given[r] = <<>>
    BY DEF TurnsTaken
  <2>4. ~rules[r].exists => turns'[r] = <<>>
    BY <1>1, <1>2, <2>2, <2>3, ConcatEmptySeq
  <2>5. ~rules'[r].exists => /\ rules'[r].members = <<>> /\ ~rules'[r].active /\ turns'[r] = <<>>
    BY <2>1, <2>2, <2>4
  <2>6. /\ rules'[r].exists => rules'[r].members # <<>>
        /\ \A i, k \in DOMAIN rules'[r].members : rules'[r].members[i] = rules'[r].members[k] => i = k
    BY <2>1, <2>2
  <2> QED BY <2>5, <2>6
<1> QED BY <1>2, <1>3, <1>6, <1>7, <1>8

-------------------------------------------------------------------------------
(* The counters of a job.                                                      *)

LEMMA Counted ==
  ASSUME NEW s \in Seq(Row)
  PROVE  /\ \A what \in Decisions : Decided(s, what) \in Nat
         /\ Decided(s, "valid") + Decided(s, "duplicate") + Decided(s, "invalid") + Decided(s, "imported") = Len(s)
         /\ Decided(s, "valid") = 0 <=> {i \in DOMAIN s : s[i].decision = "valid"} = {}
<1> DEFINE D(what) == {i \in DOMAIN s : s[i].decision = what}
           V == D("valid")
           U == D("duplicate")
           E == D("invalid")
           I == D("imported")
<1>1. DOMAIN s = 1..Len(s) /\ Len(s) \in Nat /\ \A i \in DOMAIN s : s[i] \in Row
  BY LenProperties, ElementOfSeq
<1>2. IsFiniteSet(DOMAIN s) /\ Cardinality(DOMAIN s) = Len(s)
  <2>1. IsFiniteSet(1..Len(s)) /\ Cardinality(1..Len(s)) = (IF 1 > Len(s) THEN 0 ELSE Len(s) - 1 + 1)
    BY <1>1, FS_Interval
  <2> QED BY <1>1, <2>1
<1>3. \A what : IsFiniteSet(D(what)) /\ Cardinality(D(what)) \in Nat /\ Decided(s, what) = Cardinality(D(what))
  <2> TAKE what
  <2>1. D(what) \subseteq DOMAIN s
    OBVIOUS
  <2>2. IsFiniteSet(D(what))
    <3> HIDE DEF D
    <3> QED BY <1>2, <2>1, FS_Subset
  <2>3. Cardinality(D(what)) \in Nat
    <3> HIDE DEF D
    <3> QED BY <2>2, FS_CardinalityType
  <2> QED BY <2>2, <2>3 DEF Decided
<1>4. DOMAIN s = ((V \cup U) \cup E) \cup I /\ V \cap U = {} /\ (V \cup U) \cap E = {} /\ ((V \cup U) \cup E) \cap I = {}
  <2>1. \A i \in DOMAIN s : s[i].decision \in Decisions
    BY <1>1, RowFields
  <2> QED BY <2>1 DEF Decisions
<1>5. /\ IsFiniteSet(V) /\ IsFiniteSet(U) /\ IsFiniteSet(E) /\ IsFiniteSet(I)
      /\ Cardinality(V) \in Nat /\ Cardinality(U) \in Nat /\ Cardinality(E) \in Nat /\ Cardinality(I) \in Nat
  BY <1>3
<1>6. /\ Decided(s, "valid") = Cardinality(V) /\ Decided(s, "duplicate") = Cardinality(U)
      /\ Decided(s, "invalid") = Cardinality(E) /\ Decided(s, "imported") = Cardinality(I)
  BY <1>3
<1>7. V = {i \in DOMAIN s : s[i].decision = "valid"}
  OBVIOUS
<1> HIDE DEF V, U, E, I, D
<1>8. IsFiniteSet(V \cup U) /\ Cardinality(V \cup U) = Cardinality(V) + Cardinality(U)
  <2>1. Cardinality(V \cap U) = 0
    BY <1>4, FS_EmptySet
  <2>2. IsFiniteSet(V \cup U) /\ Cardinality(V \cup U) = Cardinality(V) + Cardinality(U) - Cardinality(V \cap U)
    BY <1>5, FS_Union
  <2> QED BY <1>5, <2>1, <2>2
<1>9. IsFiniteSet((V \cup U) \cup E) /\ Cardinality((V \cup U) \cup E) = Cardinality(V) + Cardinality(U) + Cardinality(E)
  <2>1. Cardinality((V \cup U) \cap E) = 0
    BY <1>4, FS_EmptySet
  <2>2. Cardinality((V \cup U) \cup E) = Cardinality(V \cup U) + Cardinality(E) - Cardinality((V \cup U) \cap E)
    BY <1>5, <1>8, FS_Union
  <2>3. IsFiniteSet((V \cup U) \cup E)
    BY <1>5, <1>8, FS_Union
  <2> QED BY <1>5, <1>8, <2>1, <2>2, <2>3
<1>10. Cardinality(DOMAIN s) = Cardinality(V) + Cardinality(U) + Cardinality(E) + Cardinality(I)
  <2>1. Cardinality(((V \cup U) \cup E) \cap I) = 0
    BY <1>4, FS_EmptySet
  <2>2. Cardinality(((V \cup U) \cup E) \cup I)
          = Cardinality((V \cup U) \cup E) + Cardinality(I) - Cardinality(((V \cup U) \cup E) \cap I)
    BY <1>5, <1>9, FS_Union
  <2> QED BY <1>4, <1>5, <1>9, <2>1, <2>2
<1>11. Cardinality(V) = 0 <=> V = {}
  BY <1>5, FS_EmptySet
<1>12. \A what \in Decisions : Decided(s, what) \in Nat
  BY <1>5, <1>6 DEF Decisions
<1> QED BY <1>2, <1>6, <1>7, <1>10, <1>11, <1>12

LEMMA SameDecisions ==
  ASSUME NEW s, NEW t, DOMAIN s = DOMAIN t, \A i \in DOMAIN s : s[i].decision = t[i].decision, NEW what
  PROVE  Decided(s, what) = Decided(t, what)
<1>1. {i \in DOMAIN s : s[i].decision = what} = {i \in DOMAIN t : t[i].decision = what}
  OBVIOUS
<1> QED BY <1>1 DEF Decided

\* The rows that follow the new version of their rule.
LEMMA RealignedIs ==
  ASSUME OpsTypeOK, NEW staged \in Seq(Row), NEW won, NEW new, new = Realigned(staged, won)
  PROVE  /\ new \in Seq(Row) /\ Len(new) = Len(staged) /\ DOMAIN new = DOMAIN staged
         /\ \A i \in DOMAIN staged :
              /\ new[i].input = staged[i].input /\ new[i].team = staged[i].team
              /\ new[i].decision = staged[i].decision /\ new[i].lead = staged[i].lead
              /\ new[i].rule = staged[i].rule /\ new[i].owner = staged[i].owner
<1>1. DOMAIN staged = 1..Len(staged) /\ Len(staged) \in Nat
  BY LenProperties
<1>2. ASSUME NEW i \in DOMAIN staged
      PROVE  /\ new[i] \in Row
             /\ new[i].input = staged[i].input /\ new[i].team = staged[i].team
             /\ new[i].decision = staged[i].decision /\ new[i].lead = staged[i].lead
             /\ new[i].rule = staged[i].rule /\ new[i].owner = staged[i].owner
  <2> DEFINE moved == staged[i].decision = "valid" /\ staged[i].rule # NoRule /\ won[staged[i].rule] # 0 /\ store = "postgres"
  <2>1. staged[i] \in Row
    BY <1>1, ElementOfSeq
  <2>2. CASE moved
    <3>1. rules[staged[i].rule].version + 1 \in Nat
      <4>1. staged[i].rule \in Rules
        BY <2>1, <2>2, RowFields
      <4> QED BY <4>1, RuleFields
    <3>2. new[i] = [staged[i] EXCEPT !.seen = rules[staged[i].rule].version + 1]
      BY <2>2 DEF Realigned
    <3> QED BY <2>1, <3>1, <3>2 DEF Row
  <2>3. CASE ~moved
    <3>1. new[i] = staged[i]
      BY <2>3 DEF Realigned
    <3> QED BY <2>1, <3>1
  <2> QED BY <2>2, <2>3
<1>3. DOMAIN new = DOMAIN staged /\ new = [i \in 1..Len(staged) |-> new[i]]
  BY <1>1 DEF Realigned
<1>4. new \in [1..Len(staged) -> Row]
  <2> HIDE DEF Realigned
  <2> QED BY <1>1, <1>2, <1>3
<1>5. new \in Seq(Row) /\ Len(new) = Len(staged)
  <2>1. new \in Seq(Row)
    BY <1>1, <1>4, SeqDef
  <2>2. DOMAIN new = 1..Len(new) /\ Len(new) \in Nat
    BY <2>1, LenProperties
  <2> QED BY <1>1, <1>3, <2>1, <2>2
<1> QED BY <1>2, <1>3, <1>5

-------------------------------------------------------------------------------
(* A commit keeps the invariant.                                               *)

JobType == [status : {"none", "preview_ready", "interrupted", "completed"}, total : Nat,
            valid : Nat, duplicate : Nat, error : Nat, imported : Nat, processed : Nat]

\* The counters are corrected by what the batch has changed.
LEMMA TallyIs ==
  ASSUME OpsTypeOK, JobAccounts, NEW j \in Jobs, job[j].status # "none", NEW after \in Seq(Row),
         Len(after) = Len(rows[j]), NEW new, new = Tally(j, after)
  PROVE  /\ new \in JobType
         /\ new.status = (IF Decided(after, "valid") = 0 THEN "completed" ELSE "interrupted")
         /\ new.total = Len(after)
         /\ new.valid = Decided(after, "valid") + Decided(after, "imported")
         /\ new.duplicate = Decided(after, "duplicate")
         /\ new.error = Decided(after, "invalid")
         /\ new.imported = Decided(after, "imported")
         /\ new.processed = new.total - Decided(after, "valid")
<1> DEFINE V == Decided(rows[j], "valid")      v == Decided(after, "valid")
           U == Decided(rows[j], "duplicate")  u == Decided(after, "duplicate")
           E == Decided(rows[j], "invalid")    e == Decided(after, "invalid")
           I == Decided(rows[j], "imported")   i == Decided(after, "imported")
           N == Len(after)
<1>0. job[j] \in JobType
  BY DEF OpsTypeOK, JobType
<1>1. rows[j] \in Seq(Row)
  BY JobRows
<1>2. V \in Nat /\ U \in Nat /\ E \in Nat /\ I \in Nat /\ V + U + E + I = N
  BY <1>1, Counted DEF Decisions
<1>3. v \in Nat /\ u \in Nat /\ e \in Nat /\ i \in Nat /\ v + u + e + i = N
  BY Counted DEF Decisions
<1>4. /\ job[j].total = N /\ job[j].valid = V + I /\ job[j].duplicate = U /\ job[j].error = E
      /\ job[j].imported = I /\ job[j].processed = N - V
  BY DEF JobAccounts
<1>5. new = [job[j] EXCEPT !.status = IF v = 0 THEN "completed" ELSE "interrupted",
                           !.imported = @ + (i - I), !.duplicate = @ + (u - U), !.error = @ + (e - E),
                           !.valid = @ - (u - U) - (e - E), !.processed = @ + (V - v)]
  BY DEF Tally
<1>6. N \in Nat
  BY LenProperties
<1> HIDE DEF V, U, E, I, v, u, e, i, N
<1>7. /\ new.status = (IF v = 0 THEN "completed" ELSE "interrupted")
      /\ new.total = job[j].total
      /\ new.imported = job[j].imported + (i - I) /\ new.duplicate = job[j].duplicate + (u - U)
      /\ new.error = job[j].error + (e - E) /\ new.valid = job[j].valid - (u - U) - (e - E)
      /\ new.processed = job[j].processed + (V - v)
  BY <1>0, <1>5 DEF JobType
<1>8. /\ new.total = N /\ new.imported = i /\ new.duplicate = u /\ new.error = e
      /\ new.valid = v + i /\ new.processed = N - v
  BY <1>2, <1>3, <1>4, <1>6, <1>7
<1>9. N - v \in Nat /\ v + i \in Nat
  BY <1>2, <1>3, <1>6
<1>10. new \in JobType
  <2>1. new.status \in {"none", "preview_ready", "interrupted", "completed"}
    BY <1>7
  <2>2. new = [job[j] EXCEPT !.status = new.status, !.imported = new.imported, !.duplicate = new.duplicate,
                             !.error = new.error, !.valid = new.valid, !.processed = new.processed]
    BY <1>0, <1>5, <1>7 DEF JobType
  <2>3. new.total \in Nat /\ new.imported \in Nat /\ new.duplicate \in Nat /\ new.error \in Nat
        /\ new.valid \in Nat /\ new.processed \in Nat
    BY <1>3, <1>6, <1>8, <1>9
  <2> HIDE <1>5
  <2> QED BY <1>0, <2>1, <2>2, <2>3 DEF JobType
<1> QED BY <1>7, <1>8, <1>10 DEF V, U, E, I, v, u, e, i, N

\* The effect of a commit that imports, as the actions state it.
Batched(j) ==
  /\ job[j].status # "none"
  /\ book' = Committed(j).book
  /\ rows' = [rows EXCEPT ![j] = Realigned(Committed(j).rows, Committed(j).won)]
  /\ rules' = Advanced(Committed(j).won)
  /\ job' = [job EXCEPT ![j] = Tally(j, Committed(j).rows)]
  /\ Remember(Committed(j).given)

\* Which leads the rows name depends on their decisions, their leads and their inputs only.
LEMMA SameNames ==
  ASSUME NEW j, NEW leads, NEW s, NEW t, NamesOneAnother(j, leads, s), DOMAIN t = DOMAIN s,
         \A i \in DOMAIN s : t[i].decision = s[i].decision /\ t[i].lead = s[i].lead /\ t[i].input = s[i].input
  PROVE  NamesOneAnother(j, leads, t)
<1>1. ASSUME NEW i \in DOMAIN t
      PROVE  IF t[i].decision = "imported"
             THEN t[i].lead \in DOMAIN leads /\ leads[t[i].lead].from = <<j, i>>
                  /\ (~leads[t[i].lead].handled => leads[t[i].lead].number = t[i].input.number)
             ELSE t[i].lead = 0
  BY DEF NamesOneAnother
<1>2. ASSUME NEW l \in DOMAIN leads, leads[l].from # <<>>, leads[l].from[1] = j
      PROVE  leads[l].from[2] \in DOMAIN t /\ t[leads[l].from[2]].lead = l
  <2>1. leads[l].from[2] \in DOMAIN s /\ s[leads[l].from[2]].lead = l
    BY <1>2 DEF NamesOneAnother
  <2> QED BY <2>1
<1> QED BY <1>1, <1>2 DEF NamesOneAnother

\* What the rows and the book are then.
LEMMA BatchIs ==
  ASSUME OpsInv, NEW j \in Jobs, Batched(j)
  PROVE  /\ rows' \in [Jobs -> Seq(Row)] /\ book' \in Seq(BookLead)
         /\ \A q \in Jobs \ {j} : rows'[q] = rows[q] /\ job'[q] = job[q]
         /\ \A q \in Jobs : Len(rows'[q]) = Len(rows[q]) /\ DOMAIN rows'[q] = DOMAIN rows[q]
         /\ \A q \in Jobs : \A i \in DOMAIN rows[q] :
              /\ rows'[q][i].input = rows[q][i].input /\ rows'[q][i].team = rows[q][i].team
              /\ rows[q][i].decision # "valid" =>
                   rows'[q][i].decision = rows[q][i].decision /\ rows'[q][i].lead = rows[q][i].lead
         /\ \A what : Decided(rows'[j], what) = Decided(Committed(j).rows, what)
         /\ Grows(j, book') /\ NamesOneAnother(j, book', rows'[j]) /\ NoTwo(book')
<1> DEFINE done == Committed(j)
           new  == Realigned(done.rows, done.won)
<1>0. OpsTypeOK
  BY DEF OpsInv, ImportInv
<1>1. /\ done \in AccType /\ Follows(j, Len(rows[j]), done.rows) /\ Grows(j, done.book)
      /\ NamesOneAnother(j, done.book, done.rows) /\ NoTwo(done.book)
  BY CommitEnds DEF CommitAcc
<1>2. done.book \in Seq(BookLead) /\ done.rows \in Seq(Row)
  BY <1>1, AccFields
<1> HIDE DEF done
<1>3. /\ new \in Seq(Row) /\ Len(new) = Len(done.rows) /\ DOMAIN new = DOMAIN done.rows
      /\ \A i \in DOMAIN done.rows :
           /\ new[i].input = done.rows[i].input /\ new[i].team = done.rows[i].team
           /\ new[i].decision = done.rows[i].decision /\ new[i].lead = done.rows[i].lead
           /\ new[i].rule = done.rows[i].rule /\ new[i].owner = done.rows[i].owner
  BY <1>0, <1>2, RealignedIs
<1> HIDE DEF new
<1>4. rows' = [rows EXCEPT ![j] = new] /\ book' = done.book
  BY DEF Batched, new, done
<1>5. rows \in [Jobs -> Seq(Row)]
  BY <1>0 DEF OpsTypeOK
<1>6. rows'[j] = new /\ \A q \in Jobs \ {j} : rows'[q] = rows[q]
  BY <1>4, <1>5
<1>7. rows' \in [Jobs -> Seq(Row)]
  BY <1>3, <1>4, <1>5
<1>8. \A q \in Jobs \ {j} : job'[q] = job[q]
  BY <1>0 DEF Batched, OpsTypeOK
<1>9. Len(new) = Len(rows[j]) /\ DOMAIN new = DOMAIN rows[j] /\ DOMAIN done.rows = DOMAIN rows[j]
  <2>1. Len(done.rows) = Len(rows[j])
    BY <1>1 DEF Follows
  <2>2. DOMAIN done.rows = 1..Len(done.rows) /\ DOMAIN rows[j] = 1..Len(rows[j])
    BY <1>0, <1>2, JobRows, LenProperties
  <2> QED BY <1>3, <2>1, <2>2
<1>10. ASSUME NEW i \in DOMAIN rows[j]
       PROVE  /\ new[i].input = rows[j][i].input /\ new[i].team = rows[j][i].team
              /\ rows[j][i].decision # "valid" =>
                   new[i].decision = rows[j][i].decision /\ new[i].lead = rows[j][i].lead
  BY <1>1, <1>3, <1>9 DEF Follows
<1>11. \A q \in Jobs : Len(rows'[q]) = Len(rows[q]) /\ DOMAIN rows'[q] = DOMAIN rows[q]
  BY <1>6, <1>9
<1>12. ASSUME NEW q \in Jobs, NEW i \in DOMAIN rows[q]
       PROVE  /\ rows'[q][i].input = rows[q][i].input /\ rows'[q][i].team = rows[q][i].team
              /\ rows[q][i].decision # "valid" =>
                   rows'[q][i].decision = rows[q][i].decision /\ rows'[q][i].lead = rows[q][i].lead
  BY <1>6, <1>10
<1>13. \A what : Decided(rows'[j], what) = Decided(done.rows, what)
  BY <1>3, <1>6, SameDecisions
<1>14. NamesOneAnother(j, book', rows'[j])
  <2>1. NamesOneAnother(j, done.book, new)
    BY <1>1, <1>3, SameNames
  <2> QED BY <1>4, <1>6, <2>1
<1> QED BY <1>1, <1>2, <1>4, <1>6, <1>7, <1>8, <1>11, <1>12, <1>13, <1>14 DEF done

LEMMA BatchRows ==
  ASSUME OpsInv, NEW j \in Jobs, Batched(j)
  PROVE  /\ job' \in [Jobs -> JobType] /\ JobAccounts' /\ RowsSound'
         /\ job'[j].status \in {"interrupted", "completed"} /\ job'[j].processed \in Nat
<1>0. OpsTypeOK /\ JobAccounts /\ RowsSound
  BY DEF OpsInv, ImportInv
<1>1. /\ \A q \in Jobs \ {j} : rows'[q] = rows[q] /\ job'[q] = job[q]
      /\ \A q \in Jobs : Len(rows'[q]) = Len(rows[q]) /\ DOMAIN rows'[q] = DOMAIN rows[q]
      /\ \A q \in Jobs : \A i \in DOMAIN rows[q] :
           /\ rows'[q][i].team = rows[q][i].team
           /\ rows[q][i].decision # "valid" => rows'[q][i].decision = rows[q][i].decision
      /\ \A what : Decided(rows'[j], what) = Decided(Committed(j).rows, what)
      /\ rows' \in [Jobs -> Seq(Row)]
  BY BatchIs
<1> DEFINE after == Committed(j).rows
           new   == Tally(j, after)
<1>2. after \in Seq(Row) /\ Len(after) = Len(rows[j])
  <2>1. Committed(j) \in AccType /\ Follows(j, Len(rows[j]), after)
    BY CommitEnds DEF CommitAcc
  <2> QED BY <2>1, AccFields DEF Follows
<1>3. job[j].status # "none" /\ job' = [job EXCEPT ![j] = new]
  BY DEF Batched
<1>4. job \in [Jobs -> JobType]
  BY <1>0 DEF OpsTypeOK, JobType
<1> HIDE DEF after, new
<1>5. /\ new \in JobType
      /\ new.status = (IF Decided(after, "valid") = 0 THEN "completed" ELSE "interrupted")
      /\ new.total = Len(after)
      /\ new.valid = Decided(after, "valid") + Decided(after, "imported")
      /\ new.duplicate = Decided(after, "duplicate")
      /\ new.error = Decided(after, "invalid")
      /\ new.imported = Decided(after, "imported")
      /\ new.processed = new.total - Decided(after, "valid")
  BY <1>0, <1>2, <1>3, TallyIs DEF new
<1>6. job'[j] = new /\ job' \in [Jobs -> JobType]
  BY <1>3, <1>4, <1>5
<1>7. \A what : Decided(after, what) = Decided(rows'[j], what)
  BY <1>1 DEF after
<1>8. rows'[j] \in Seq(Row) /\ Len(rows'[j]) = Len(rows[j])
  BY <1>1
<1>9. Decided(rows'[j], "valid") = 0 <=> {i \in DOMAIN rows'[j] : rows'[j][i].decision = "valid"} = {}
  BY <1>8, Counted
<1>10. JobAccounts'
  <2> SUFFICES ASSUME NEW q \in Jobs, job'[q].status # "none"
               PROVE  /\ job'[q].total = Len(rows'[q])
                      /\ job'[q].valid = Decided(rows'[q], "valid") + Decided(rows'[q], "imported")
                      /\ job'[q].duplicate = Decided(rows'[q], "duplicate")
                      /\ job'[q].error = Decided(rows'[q], "invalid")
                      /\ job'[q].imported = Decided(rows'[q], "imported")
                      /\ job'[q].processed = job'[q].total - Decided(rows'[q], "valid")
                      /\ job'[q].status = "completed" => {i \in DOMAIN rows'[q] : rows'[q][i].decision = "valid"} = {}
                      /\ job'[q].status = "interrupted" => {i \in DOMAIN rows'[q] : rows'[q][i].decision = "valid"} # {}
    BY DEF JobAccounts, ValidRows
  <2>1. CASE q # j
    <3>1. job'[q] = job[q] /\ rows'[q] = rows[q]
      BY <1>1, <2>1
    <3> QED BY <1>0, <3>1 DEF JobAccounts, ValidRows
  <2>2. CASE q = j
    <3>1. job'[q] = new /\ rows'[q] = rows'[j]
      BY <1>6, <2>2
    <3>2. new.status = "completed" => Decided(rows'[j], "valid") = 0
      BY <1>5, <1>7
    <3>3. new.status = "interrupted" => Decided(rows'[j], "valid") # 0
      BY <1>5, <1>7
    <3>4. new.total = Len(rows'[j])
      BY <1>2, <1>5, <1>8
    <3> QED BY <1>5, <1>7, <1>9, <3>1, <3>2, <3>3, <3>4
  <2> QED BY <2>1, <2>2
<1>11. RowsSound'
  <2> SUFFICES ASSUME NEW q \in Jobs
               PROVE  /\ job'[q].status = "none" => rows'[q] = <<>>
                      /\ \A i \in DOMAIN rows'[q] : rows'[q][i].decision = "valid" => rows'[q][i].team \in OpsTeams
    BY DEF RowsSound
  <2>1. job'[q].status = "none" => rows'[q] = <<>>
    BY <1>0, <1>1, <1>5, <1>6 DEF RowsSound
  <2>2. \A i \in DOMAIN rows'[q] : rows'[q][i].decision = "valid" => rows'[q][i].team \in OpsTeams
    BY <1>0, <1>1 DEF RowsSound
  <2> QED BY <2>1, <2>2
<1>12. new.status \in {"interrupted", "completed"} /\ new.processed \in Nat
  BY <1>5 DEF JobType
<1> QED BY <1>6, <1>10, <1>11, <1>12

LEMMA BatchLeads ==
  ASSUME OpsInv, NEW j \in Jobs, Batched(j)
  PROVE  RowsAndLeads' /\ FromRows' /\ NoNumberTwice'
<1>0. OpsTypeOK /\ RowsAndLeads /\ FromRows
  BY DEF OpsInv, ImportInv
<1>1. /\ rows' \in [Jobs -> Seq(Row)] /\ book' \in Seq(BookLead)
      /\ \A q \in Jobs \ {j} : rows'[q] = rows[q]
      /\ \A q \in Jobs : DOMAIN rows'[q] = DOMAIN rows[q]
      /\ \A q \in Jobs : \A i \in DOMAIN rows[q] : rows'[q][i].team = rows[q][i].team
      /\ Grows(j, book') /\ NamesOneAnother(j, book', rows'[j]) /\ NoTwo(book')
  BY BatchIs
<1>2. book \in Seq(BookLead) /\ Len(book) \in Nat /\ DOMAIN book = 1..Len(book)
  BY <1>0, BookIs
<1>3. DOMAIN book' = 1..Len(book') /\ Len(book') \in Nat /\ Len(book) <= Len(book')
  BY <1>1, LenProperties DEF Grows
<1>4. \A l \in DOMAIN book : l \in DOMAIN book' /\ book'[l] = book[l]
  BY <1>1, <1>2, <1>3 DEF Grows
<1>5. ASSUME NEW l \in DOMAIN book', l \notin DOMAIN book
      PROVE  book'[l].from # <<>> /\ book'[l].from[1] = j
  <2>1. l \in Len(book) + 1..Len(book')
    BY <1>2, <1>3, <1>5
  <2>2. PICK i \in DOMAIN rows[j] : book'[l].from = <<j, i>>
    BY <1>1, <2>1 DEF Grows
  <2> QED BY <2>2
<1>6. ASSUME NEW l \in DOMAIN book'
      PROVE  book'[l] \in BookLead /\ (book'[l].from # <<>> => book'[l].from[1] \in Jobs)
  <2>1. book'[l] \in BookLead
    BY <1>1, <1>3, ElementOfSeq
  <2> QED BY <2>1, LeadFields
<1>7. ASSUME NEW l \in DOMAIN book', book'[l].from # <<>>
      PROVE  /\ book'[l].from[2] \in DOMAIN rows'[book'[l].from[1]]
             /\ rows'[book'[l].from[1]][book'[l].from[2]].lead = l
  <2>1. CASE book'[l].from[1] = j
    BY <1>1, <1>7, <2>1 DEF NamesOneAnother
  <2>2. CASE book'[l].from[1] # j
    <3>1. l \in DOMAIN book /\ book'[l] = book[l]
      BY <1>4, <1>5, <2>2
    <3>2. rows'[book[l].from[1]] = rows[book[l].from[1]]
      BY <1>1, <1>6, <1>7, <2>2, <3>1
    <3>3. book[l].from[2] \in DOMAIN rows[book[l].from[1]] /\ rows[book[l].from[1]][book[l].from[2]].lead = l
      BY <1>0, <1>7, <3>1 DEF RowsAndLeads, FromRows
    <3> QED BY <3>1, <3>2, <3>3
  <2> QED BY <2>1, <2>2
<1>8. FromRows'
  BY <1>7 DEF FromRows
<1>9. ASSUME NEW q \in Jobs, NEW i \in DOMAIN rows'[q]
      PROVE  IF rows'[q][i].decision = "imported"
             THEN rows'[q][i].lead \in DOMAIN book' /\ book'[rows'[q][i].lead].from = <<q, i>>
                  /\ (~book'[rows'[q][i].lead].handled
                       => book'[rows'[q][i].lead].number = rows'[q][i].input.number)
             ELSE rows'[q][i].lead = 0
  <2>1. CASE q = j
    BY <1>1, <2>1 DEF NamesOneAnother
  <2>2. CASE q # j
    <3>1. rows'[q] = rows[q]
      BY <1>1, <2>2
    <3>2. IF rows[q][i].decision = "imported"
          THEN rows[q][i].lead \in DOMAIN book /\ book[rows[q][i].lead].from = <<q, i>>
               /\ (~book[rows[q][i].lead].handled => book[rows[q][i].lead].number = rows[q][i].input.number)
          ELSE rows[q][i].lead = 0
      BY <1>0, <3>1 DEF RowsAndLeads
    <3> QED BY <1>4, <3>1, <3>2
  <2> QED BY <2>1, <2>2
<1>10. RowsAndLeads'
  BY <1>7, <1>9 DEF RowsAndLeads
<1>11. ASSUME NEW l \in DOMAIN book', AsStaged(l)' PROVE StagedLead(book'[l])
  <2>1. /\ book'[l].from # <<>> /\ ~book'[l].handled /\ ~book'[l].archived
        /\ book'[l].team = rows'[book'[l].from[1]][book'[l].from[2]].team
    BY <1>11 DEF AsStaged
  <2>2. book'[l].from[1] \in Jobs /\ book'[l].from[2] \in DOMAIN rows[book'[l].from[1]]
    BY <1>1, <1>6, <1>7, <2>1
  <2> QED BY <1>1, <2>1, <2>2 DEF StagedLead
<1>12. NoNumberTwice'
  <2> SUFFICES ASSUME NEW l \in DOMAIN book', NEW m \in DOMAIN book', l # m, AsStaged(l)', AsStaged(m)',
                      book'[l].team = book'[m].team
               PROVE  PhonesOf(book'[l]) \cap PhonesOf(book'[m]) = {}
    BY DEF NoNumberTwice
  <2>1. StagedLead(book'[l]) /\ StagedLead(book'[m])
    BY <1>11
  <2> QED BY <1>1, <2>1 DEF NoTwo
<1> QED BY <1>8, <1>10, <1>12

\* What the parts of the invariant speak of.
LEMMA RulesFrame ==
  ASSUME RulesSound, TurnsRotate, CursorFollows, UNCHANGED <<rules, turns>>
  PROVE  RulesSound' /\ TurnsRotate' /\ CursorFollows'
BY DEF RulesSound, TurnsRotate, CursorFollows

LEMMA JobsFrame ==
  ASSUME JobAccounts, RowsSound, UNCHANGED <<job, rows>>
  PROVE  JobAccounts' /\ RowsSound'
BY DEF JobAccounts, RowsSound, ValidRows

LEMMA LeadsFrame ==
  ASSUME RowsAndLeads, FromRows, NoNumberTwice, UNCHANGED <<book, rows>>
  PROVE  RowsAndLeads' /\ FromRows' /\ NoNumberTwice'
BY DEF RowsAndLeads, FromRows, NoNumberTwice, AsStaged

LEMMA InvParts ==
  OpsInv <=> /\ OpsTypeOK /\ JobAccounts /\ RowsAndLeads /\ NoNumberTwice /\ TurnsRotate
             /\ RulesSound /\ RowsSound /\ FromRows /\ CursorFollows
BY DEF OpsInv, ImportInv

LEMMA CommitKeeps ==
  ASSUME OpsInv, NEW j \in Jobs, NEW n \in 1..MaxAttempt, Commit(j, n)
  PROVE  OpsInv'
<1>0. /\ OpsTypeOK /\ JobAccounts /\ RowsAndLeads /\ NoNumberTwice /\ TurnsRotate
      /\ RulesSound /\ RowsSound /\ FromRows /\ CursorFollows
  BY InvParts
<1>1. /\ job[j].status # "none" /\ UNCHANGED <<store, employed, assigned, desk>>
      /\ receipt' = [receipt EXCEPT ![j][n] = [status |-> job'[j].status, processed |-> job'[j].processed]]
      /\ (job[j].status = "completed" /\ UNCHANGED <<book, rows, rules, job, turns>>) \/ Batched(j)
  BY DEF Commit, Batched
<1>2. ASSUME job'[j].status \in {"none", "interrupted", "completed"}, job'[j].processed \in Nat
      PROVE  receipt' \in [Jobs -> [1..MaxAttempt -> [status : {"none", "interrupted", "completed"}, processed : Nat]]]
  <2> DEFINE R == [status : {"none", "interrupted", "completed"}, processed : Nat]
             new == [status |-> job'[j].status, processed |-> job'[j].processed]
  <2>1. new \in R
    BY <1>2
  <2>2. receipt \in [Jobs -> [1..MaxAttempt -> R]]
    BY <1>0 DEF OpsTypeOK
  <2>3. receipt' = [receipt EXCEPT ![j][n] = new]
    BY <1>1
  <2> HIDE DEF R, new
  <2>4. receipt' \in [Jobs -> [1..MaxAttempt -> R]]
    BY <2>1, <2>2, <2>3
  <2> QED BY <2>4 DEF R
<1>3. CASE job[j].status = "completed" /\ UNCHANGED <<book, rows, rules, job, turns>>
  <2>1. job'[j].status = "completed" /\ job'[j].processed \in Nat
    <3>1. job'[j] \in JobType
      BY <1>0, <1>3 DEF OpsTypeOK, JobType
    <3> QED BY <1>3, <3>1 DEF JobType
  <2>2. receipt' \in [Jobs -> [1..MaxAttempt -> [status : {"none", "interrupted", "completed"}, processed : Nat]]]
    BY <1>2, <2>1
  <2>3. OpsTypeOK'
    BY <1>0, <1>1, <1>3, <2>2 DEF OpsTypeOK
  <2>4. UNCHANGED <<rules, turns>> /\ UNCHANGED <<job, rows>> /\ UNCHANGED <<book, rows>>
    BY <1>3
  <2>5. RulesSound' /\ TurnsRotate' /\ CursorFollows'
    BY <1>0, <2>4, RulesFrame
  <2>6. JobAccounts' /\ RowsSound'
    BY <1>0, <2>4, JobsFrame
  <2>7. RowsAndLeads' /\ FromRows' /\ NoNumberTwice'
    BY <1>0, <2>4, LeadsFrame
  <2> QED BY <2>3, <2>5, <2>6, <2>7 DEF OpsInv, ImportInv
<1>4. CASE Batched(j)
  <2>1. /\ job' \in [Jobs -> JobType] /\ JobAccounts' /\ RowsSound'
        /\ job'[j].status \in {"interrupted", "completed"} /\ job'[j].processed \in Nat
    BY <1>4, BatchRows
  <2>2. RowsAndLeads' /\ FromRows' /\ NoNumberTwice'
    BY <1>4, BatchLeads
  <2>3. rows' \in [Jobs -> Seq(Row)] /\ book' \in Seq(BookLead)
    BY <1>4, BatchIs
  <2>4. /\ rules' \in [Rules -> RuleType] /\ turns' \in [Rules -> Seq(Agents)]
        /\ TurnsRotate' /\ RulesSound' /\ CursorFollows'
    <3> DEFINE won == Committed(j).won
               given == Committed(j).given
    <3>1. won \in [Rules -> Nat] /\ given \in [Rules -> Seq(Agents)] /\ TurnsTaken(won, given)
      <4>1. Committed(j) \in AccType /\ TurnsTaken(won, given)
        BY CommitEnds DEF CommitAcc
      <4> QED BY <4>1, AccFields
    <3>2. rules' = Advanced(won) /\ Remember(given)
      BY <1>4 DEF Batched
    <3> HIDE DEF won, given
    <3> QED BY <3>1, <3>2, TurnsAdvance
  <2>5. receipt' \in [Jobs -> [1..MaxAttempt -> [status : {"none", "interrupted", "completed"}, processed : Nat]]]
    BY <1>2, <2>1
  <2>6. OpsTypeOK'
    BY <1>0, <1>1, <2>1, <2>3, <2>4, <2>5 DEF OpsTypeOK, JobType, RuleType
  <2> QED BY <2>1, <2>2, <2>4, <2>6 DEF OpsInv, ImportInv
<1> QED BY <1>1, <1>3, <1>4

-------------------------------------------------------------------------------
(* The start, and what managers do.                                            *)

LEMMA StartHolds ==
  ASSUME OpsInit PROVE OpsInv
<1>1. OpsTypeOK
  <2>1. NewRule \in RuleType
    BY TeamsAre DEF NewRule, RuleType
  <2>2. NoJob \in JobType
    BY DEF NoJob, JobType
  <2>3. NoReceipt \in [status : {"none", "interrupted", "completed"}, processed : Nat]
    BY DEF NoReceipt
  <2>4. rules \in [Rules -> RuleType] /\ job \in [Jobs -> JobType]
    BY <2>1, <2>2 DEF OpsInit
  <2>5. receipt \in [Jobs -> [1..MaxAttempt -> [status : {"none", "interrupted", "completed"}, processed : Nat]]]
    BY <2>3 DEF OpsInit
  <2>6. book \in Seq(BookLead) /\ rows \in [Jobs -> Seq(Row)] /\ turns \in [Rules -> Seq(Agents)]
    BY DEF OpsInit
  <2>7. desk \in 0..MaxDesk
    BY OpsBounds DEF OpsInit
  <2>8. store \in Stores /\ employed \subseteq Agents /\ assigned \subseteq 1..MaxRuns
    BY DEF OpsInit
  <2> QED BY <2>4, <2>5, <2>6, <2>7, <2>8 DEF OpsTypeOK, RuleType, JobType
<1>2. DOMAIN book = {} /\ \A j \in Jobs : DOMAIN rows[j] = {} /\ rows[j] = <<>> /\ job[j].status = "none"
  BY DEF OpsInit, NoJob
<1>3. \A r \in Rules : ~rules[r].exists /\ ~rules[r].active /\ rules[r].members = <<>> /\ turns[r] = <<>> /\ ~rules[r].turning
  BY DEF OpsInit, NewRule
<1>4. JobAccounts /\ RowsAndLeads /\ NoNumberTwice /\ RowsSound /\ FromRows
  BY <1>2 DEF JobAccounts, RowsAndLeads, NoNumberTwice, RowsSound, FromRows
<1>5. RulesSound /\ TurnsRotate /\ CursorFollows
  BY <1>3 DEF RulesSound, TurnsRotate, CursorFollows
<1> QED BY <1>1, <1>4, <1>5, InvParts

\* A lineup names agents, each once.
LEMMA LineupIs ==
  ASSUME NEW m \in Lineups
  PROVE  m \in Seq(Agents) /\ \A i, k \in DOMAIN m : m[i] = m[k] => i = k
<1>1. PICK S \in SUBSET Agents : m \in SetToSeqs(S)
  BY DEF Lineups
<1>2. IsFiniteSet(S) /\ Cardinality(S) \in Nat
  BY OpsSets, FS_Subset, FS_CardinalityType
<1>3. m \in [1..Cardinality(S) -> S] /\ \A i, k \in 1..Cardinality(S) : i # k => m[i] # m[k]
  BY <1>1 DEF SetToSeqs
<1>4. m \in [1..Cardinality(S) -> Agents] /\ DOMAIN m = 1..Cardinality(S)
  BY <1>3
<1>5. m \in Seq(Agents)
  BY <1>2, <1>4
<1> QED BY <1>3, <1>4, <1>5

\* An edited rule has distinct members, and either nobody's turn is remembered or the turns are
\* as they were.
LEMMA RuleEdited ==
  ASSUME OpsInv, NEW r \in Rules, NEW new \in RuleType, rules' = [rules EXCEPT ![r] = new],
         turns' = turns \/ turns' = [turns EXCEPT ![r] = <<>>],
         new.exists, new.members # <<>>, \A i, k \in DOMAIN new.members : new.members[i] = new.members[k] => i = k,
         \/ turns'[r] = <<>>
         \/ turns' = turns /\ new.members = rules[r].members /\ new.turning = rules[r].turning
            /\ new.cursor = rules[r].cursor
  PROVE  /\ rules' \in [Rules -> RuleType] /\ turns' \in [Rules -> Seq(Agents)]
         /\ RulesSound' /\ TurnsRotate' /\ CursorFollows'
<1>0. OpsTypeOK /\ RulesSound /\ TurnsRotate /\ CursorFollows
  BY InvParts
<1>1. rules \in [Rules -> RuleType] /\ turns \in [Rules -> Seq(Agents)]
  BY <1>0 DEF OpsTypeOK, RuleType
<1>2. rules' \in [Rules -> RuleType] /\ turns' \in [Rules -> Seq(Agents)]
  <2>1. rules' \in [Rules -> RuleType]
    BY <1>1
  <2>2. <<>> \in Seq(Agents)
    BY EmptySeq
  <2>3. turns' \in [Rules -> Seq(Agents)]
    BY <1>1, <2>2
  <2> QED BY <2>1, <2>3
<1>3. rules'[r] = new /\ \A q \in Rules : q # r => rules'[q] = rules[q] /\ turns'[q] = turns[q]
  BY <1>1
<1>4. RulesSound'
  BY <1>0, <1>3 DEF RulesSound
<1>5. Len(<<>>) = 0
  OBVIOUS
<1>6. ASSUME NEW q \in Rules, rules'[q].turning
      PROVE  /\ \A i \in 1..Len(turns'[q]) - 1 : turns'[q][i + 1] = Following(rules'[q].members, turns'[q][i])
             /\ turns'[q] # <<>> =>
                  rules'[q].cursor # 0 /\ turns'[q][Len(turns'[q])] = InTurn(rules'[q].members, rules'[q].cursor - 1)
  <2>1. CASE q # r
    <3>1. rules'[q] = rules[q] /\ turns'[q] = turns[q]
      BY <1>3, <2>1
    <3> QED BY <1>0, <1>6, <3>1 DEF TurnsRotate, CursorFollows
  <2>2. CASE q = r /\ turns'[r] = <<>>
    <3>1. 1..Len(turns'[q]) - 1 = {}
      BY <1>5, <2>2
    <3> QED BY <2>2, <3>1
  <2>3. CASE q = r /\ turns'[r] # <<>>
    <3>1. /\ turns'[q] = turns[q] /\ rules'[q].members = rules[q].members
          /\ rules[q].turning /\ rules'[q].cursor = rules[q].cursor
      BY <1>3, <1>6, <2>3
    <3> QED BY <1>0, <3>1 DEF TurnsRotate, CursorFollows
  <2> QED BY <2>1, <2>2, <2>3
<1>7. TurnsRotate' /\ CursorFollows'
  BY <1>6 DEF TurnsRotate, CursorFollows
<1> QED BY <1>2, <1>4, <1>7

AsItWas(new, old) ==
  /\ new.number = old.number /\ new.alternate = old.alternate
  /\ new.team = old.team /\ new.archived = old.archived /\ ~old.handled

\* A lead a manager has changed is the lead of the same row, and is as it was staged, with the
\* same numbers, only if it was.
LEMMA LeadEdited ==
  ASSUME OpsInv, NEW l \in DOMAIN book, NEW new \in BookLead, book' = [book EXCEPT ![l] = new], rows' = rows,
         new.from = book[l].from, ~new.handled => AsItWas(new, book[l])
  PROVE  book' \in Seq(BookLead) /\ RowsAndLeads' /\ FromRows' /\ NoNumberTwice'
<1>0. OpsTypeOK /\ RowsAndLeads /\ FromRows /\ NoNumberTwice
  BY InvParts
<1>1. book \in Seq(BookLead) /\ DOMAIN book = 1..Len(book)
  BY <1>0, BookIs
<1>2. book' \in Seq(BookLead) /\ DOMAIN book' = DOMAIN book
  BY <1>1, ExceptSeq
<1>3. book'[l] = new /\ \A k \in DOMAIN book : k # l => book'[k] = book[k]
  BY <1>1
<1>4. \A k \in DOMAIN book :
        book'[k].from = book[k].from /\ (~book'[k].handled => AsItWas(book'[k], book[k]))
  BY <1>3 DEF AsItWas
<1>5. RowsAndLeads'
  <2>1. ASSUME NEW j \in Jobs, NEW i \in DOMAIN rows[j]
        PROVE  IF rows[j][i].decision = "imported"
               THEN rows[j][i].lead \in DOMAIN book' /\ book'[rows[j][i].lead].from = <<j, i>>
                    /\ (~book'[rows[j][i].lead].handled
                       => book'[rows[j][i].lead].number = rows[j][i].input.number)
               ELSE rows[j][i].lead = 0
    <3>1. CASE rows[j][i].decision # "imported"
      BY <1>0, <3>1 DEF RowsAndLeads
    <3>2. CASE rows[j][i].decision = "imported"
      <4> DEFINE k == rows[j][i].lead
      <4>1. /\ k \in DOMAIN book /\ book[k].from = <<j, i>>
            /\ (~book[k].handled => book[k].number = rows[j][i].input.number)
        BY <1>0, <3>2 DEF RowsAndLeads
      <4>2. k \in DOMAIN book' /\ book'[k].from = <<j, i>>
        BY <1>2, <1>4, <4>1
      <4>3. ~book'[k].handled => book'[k].number = rows[j][i].input.number
        BY <1>4, <4>1 DEF AsItWas
      <4> QED BY <3>2, <4>2, <4>3
    <3> QED BY <3>1, <3>2
  <2>2. \A k \in DOMAIN book' : book'[k].from # <<>> => rows[book'[k].from[1]][book'[k].from[2]].lead = k
    BY <1>0, <1>2, <1>4 DEF RowsAndLeads
  <2> QED BY <2>1, <2>2 DEF RowsAndLeads
<1>6. FromRows'
  BY <1>0, <1>2, <1>4 DEF FromRows
<1>7. ASSUME NEW k \in DOMAIN book, AsStaged(k)'
      PROVE  AsStaged(k) /\ book'[k].team = book[k].team /\ PhonesOf(book'[k]) = PhonesOf(book[k])
  <2>1. /\ book'[k].from # <<>> /\ ~book'[k].handled /\ ~book'[k].archived
        /\ book'[k].team = rows[book'[k].from[1]][book'[k].from[2]].team
    BY <1>7 DEF AsStaged
  <2>2. /\ ~book[k].handled /\ book'[k].team = book[k].team /\ book'[k].archived = book[k].archived
        /\ book'[k].number = book[k].number /\ book'[k].alternate = book[k].alternate
    BY <1>4, <2>1 DEF AsItWas
  <2>3. book'[k].from = book[k].from
    BY <1>4
  <2>4. AsStaged(k)
    BY <2>1, <2>2, <2>3 DEF AsStaged
  <2>5. PhonesOf(book'[k]) = PhonesOf(book[k])
    BY <2>2 DEF PhonesOf
  <2> QED BY <2>2, <2>4, <2>5
<1>8. NoNumberTwice'
  <2> SUFFICES ASSUME NEW k \in DOMAIN book', NEW m \in DOMAIN book', k # m, AsStaged(k)', AsStaged(m)',
                      book'[k].team = book'[m].team
               PROVE  PhonesOf(book'[k]) \cap PhonesOf(book'[m]) = {}
    BY DEF NoNumberTwice
  <2>1. k \in DOMAIN book /\ m \in DOMAIN book
    BY <1>2
  <2>2. /\ AsStaged(k) /\ AsStaged(m) /\ book[k].team = book[m].team
        /\ PhonesOf(book'[k]) = PhonesOf(book[k]) /\ PhonesOf(book'[m]) = PhonesOf(book[m])
    BY <1>7, <2>1
  <2>3. PhonesOf(book[k]) \cap PhonesOf(book[m]) = {}
    BY <1>0, <2>1, <2>2 DEF NoNumberTwice
  <2> QED BY <2>2, <2>3
<1> QED BY <1>2, <1>5, <1>6, <1>8

LEMMA DefaultTeamIs ==
  ASSUME OpsTypeOK
  PROVE  DefaultTeam \in OpsTeams \cup {0}
<1> DEFINE staffed == IF store = "postgres" THEN OpsTeams ELSE {AgentTeam[a] : a \in employed}
<1>1. staffed \subseteq OpsTeams
  BY TeamsAre DEF OpsTypeOK
<1>2. staffed \in SUBSET Nat
  BY <1>1, TeamsAre
<1>3. staffed # {} => Min(staffed) \in staffed
  BY <1>2, LeastIn
<1>4. DefaultTeam = IF staffed = {} THEN 0 ELSE Min(staffed)
  BY DEF DefaultTeam
<1> HIDE DEF staffed
<1> QED BY <1>1, <1>3, <1>4

LEMMA CreateRuleKeeps ==
  ASSUME OpsInv, NEW r \in Rules, NEW t \in BOOLEAN, NEW m \in Lineups, NEW s \in SUBSET Sources,
         CreateRule(r, m, s, t), desk < MaxDesk
  PROVE  OpsInv'
<1>0. /\ OpsTypeOK /\ JobAccounts /\ RowsAndLeads /\ NoNumberTwice /\ RulesSound /\ RowsSound /\ FromRows
  BY InvParts
<1> DEFINE new == [exists |-> TRUE, active |-> TRUE, team |-> AgentTeam[m[1]], sources |-> s,
                   turning |-> t, members |-> m, cursor |-> 0, version |-> 1]
<1>1. /\ ~rules[r].exists /\ Eligible(m, t) /\ rules' = [rules EXCEPT ![r] = new] /\ desk' = desk + 1
      /\ UNCHANGED <<store, job, rows, receipt, assigned>> /\ UNCHANGED <<employed, book, turns>>
  BY DEF CreateRule, AtDesk
<1>2. m \in Seq(Agents) /\ m # <<>> /\ (\A i, k \in DOMAIN m : m[i] = m[k] => i = k)
  BY <1>1, LineupIs DEF Eligible
<1>3. AgentTeam[m[1]] \in OpsTeams
  <2>1. Len(m) \in Nat \ {0}
    BY <1>2, EmptySeq, LenProperties
  <2>2. 1 \in 1..Len(m)
    BY <2>1
  <2>3. m[1] \in Agents
    BY <1>2, <2>2, ElementOfSeq
  <2> QED BY <2>3, TeamsAre
<1>4. new \in RuleType
  BY <1>2, <1>3 DEF RuleType
<1>5. new.exists /\ new.members = m
  OBVIOUS
<1> HIDE DEF new
<1>6. turns'[r] = <<>> /\ turns' = turns
  BY <1>0, <1>1 DEF RulesSound
<1>7. /\ rules' \in [Rules -> RuleType] /\ turns' \in [Rules -> Seq(Agents)]
      /\ RulesSound' /\ TurnsRotate' /\ CursorFollows'
  BY <1>1, <1>2, <1>4, <1>5, <1>6, RuleEdited
<1>8. UNCHANGED <<job, rows>> /\ UNCHANGED <<book, rows>>
  BY <1>1
<1>9. JobAccounts' /\ RowsSound' /\ RowsAndLeads' /\ FromRows' /\ NoNumberTwice'
  BY <1>0, <1>8, JobsFrame, LeadsFrame
<1>10. desk' \in 0..MaxDesk
  BY <1>0, <1>1, OpsBounds DEF OpsTypeOK
<1>11. OpsTypeOK'
  BY <1>0, <1>1, <1>7, <1>10 DEF OpsTypeOK, RuleType
<1> QED BY <1>7, <1>9, <1>11 DEF OpsInv, ImportInv

LEMMA UpdateRuleKeeps ==
  ASSUME OpsInv, NEW r \in Rules, NEW t \in BOOLEAN, NEW m \in Lineups, NEW s \in SUBSET Sources,
         NEW on \in BOOLEAN, UpdateRule(r, on, m, s, t), desk < MaxDesk
  PROVE  OpsInv'
<1>0. /\ OpsTypeOK /\ JobAccounts /\ RowsAndLeads /\ NoNumberTwice /\ RulesSound /\ RowsSound /\ FromRows
  BY InvParts
<1> DEFINE new == [rules[r] EXCEPT !.active = on, !.members = m, !.sources = s,
                                   !.turning = t, !.version = @ + 1]
<1>1. /\ rules[r].exists /\ Eligible(m, t) /\ rules' = [rules EXCEPT ![r] = new] /\ desk' = desk + 1
      /\ turns' = IF <<m, t>> = <<rules[r].members, rules[r].turning>> THEN turns
                  ELSE [turns EXCEPT ![r] = <<>>]
      /\ UNCHANGED <<store, job, rows, receipt, assigned>> /\ UNCHANGED <<employed, book>>
  BY DEF UpdateRule, AtDesk
<1>2. m \in Seq(Agents) /\ m # <<>> /\ (\A i, k \in DOMAIN m : m[i] = m[k] => i = k)
  BY <1>1, LineupIs DEF Eligible
<1>3. rules[r] \in RuleType /\ rules[r].version + 1 \in Nat /\ rules[r].cursor \in Nat
  BY <1>0, RuleFields
<1>4. new \in RuleType
  BY <1>2, <1>3 DEF RuleType
<1>5. /\ new.exists = rules[r].exists /\ new.members = m /\ new.turning = t /\ new.cursor = rules[r].cursor
  BY <1>3 DEF RuleType
<1> HIDE DEF new
<1>6. turns \in [Rules -> Seq(Agents)]
  BY <1>0 DEF OpsTypeOK
<1>7. \/ turns'[r] = <<>> /\ turns' = [turns EXCEPT ![r] = <<>>]
      \/ turns' = turns /\ m = rules[r].members /\ t = rules[r].turning
  <2>1. CASE <<m, t>> = <<rules[r].members, rules[r].turning>>
    BY <1>1, <2>1
  <2>2. CASE <<m, t>> # <<rules[r].members, rules[r].turning>>
    <3>1. turns' = [turns EXCEPT ![r] = <<>>]
      BY <1>1, <2>2
    <3> QED BY <1>6, <3>1
  <2> QED BY <2>1, <2>2
<1>8. /\ rules' \in [Rules -> RuleType] /\ turns' \in [Rules -> Seq(Agents)]
      /\ RulesSound' /\ TurnsRotate' /\ CursorFollows'
  <2>1. new.exists /\ new.members # <<>> /\ \A i, k \in DOMAIN new.members : new.members[i] = new.members[k] => i = k
    BY <1>1, <1>2, <1>5
  <2>2. turns' = turns \/ turns' = [turns EXCEPT ![r] = <<>>]
    BY <1>7
  <2>3. \/ turns'[r] = <<>>
        \/ turns' = turns /\ new.members = rules[r].members /\ new.turning = rules[r].turning
           /\ new.cursor = rules[r].cursor
    BY <1>5, <1>7
  <2> QED BY <1>1, <1>4, <2>1, <2>2, <2>3, RuleEdited
<1>9. UNCHANGED <<job, rows>> /\ UNCHANGED <<book, rows>>
  BY <1>1
<1>10. JobAccounts' /\ RowsSound' /\ RowsAndLeads' /\ FromRows' /\ NoNumberTwice'
  BY <1>0, <1>9, JobsFrame, LeadsFrame
<1>11. desk' \in 0..MaxDesk
  BY <1>0, <1>1, OpsBounds DEF OpsTypeOK
<1>12. OpsTypeOK'
  BY <1>0, <1>1, <1>8, <1>11 DEF OpsTypeOK, RuleType
<1> QED BY <1>8, <1>10, <1>12 DEF OpsInv, ImportInv

LEMMA SuspendEmployeeKeeps ==
  ASSUME OpsInv, NEW a \in Agents, SuspendEmployee(a), desk < MaxDesk
  PROVE  OpsInv'
<1>0. /\ OpsTypeOK /\ JobAccounts /\ RowsAndLeads /\ NoNumberTwice /\ TurnsRotate
      /\ RulesSound /\ RowsSound /\ FromRows /\ CursorFollows
  BY InvParts
<1>1. /\ employed' = employed \ {a} /\ desk' = desk + 1
      /\ UNCHANGED <<store, job, rows, receipt, assigned>> /\ UNCHANGED <<book, rules, turns>>
  BY DEF SuspendEmployee, AtDesk
<1>2. UNCHANGED <<job, rows>> /\ UNCHANGED <<book, rows>> /\ UNCHANGED <<rules, turns>>
  BY <1>1
<1>3. /\ JobAccounts' /\ RowsSound' /\ RowsAndLeads' /\ FromRows' /\ NoNumberTwice'
      /\ RulesSound' /\ TurnsRotate' /\ CursorFollows'
  BY <1>0, <1>2, JobsFrame, LeadsFrame, RulesFrame
<1>4. desk' \in 0..MaxDesk
  BY <1>0, <1>1, OpsBounds DEF OpsTypeOK
<1>5. OpsTypeOK'
  BY <1>0, <1>1, <1>4 DEF OpsTypeOK
<1> QED BY <1>3, <1>5 DEF OpsInv, ImportInv

\* The lead a manager creates, and one that she has edited.
Entered(p, q, s, o) ==
  NewLead([number |-> p, alternate |-> q, source |-> s],
          IF o # NoAgent THEN AgentTeam[o] ELSE IF store = "memory" THEN HomeTeam ELSE DefaultTeam,
          o, <<>>)
Edited(old, p, q, o, gone) ==
  LET team == IF o \in {NoAgent, old.owner} THEN old.team ELSE AgentTeam[o]
      same == <<p, q, team, gone>> = <<old.number, old.alternate, old.team, old.archived>>
  IN  [old EXCEPT !.number = p, !.alternate = q, !.owner = o, !.team = team,
                  !.archived = gone, !.handled = @ \/ ~same]

LEMMA EnteredIs ==
  ASSUME OpsTypeOK, NEW p \in Numbers, NEW q \in Numbers \cup {NoNumber}, NEW s \in Sources,
         NEW o \in employed \cup {NoAgent}
  PROVE  /\ Entered(p, q, s, o) \in BookLead /\ Entered(p, q, s, o).from = <<>>
         /\ o # NoAgent => InTeam(o, Entered(p, q, s, o).team)
         /\ Entered(p, q, s, o).owner = o
<1> DEFINE team == IF o # NoAgent THEN AgentTeam[o] ELSE IF store = "memory" THEN HomeTeam ELSE DefaultTeam
<1>1. store \in {"postgres", "memory"} /\ employed \subseteq Agents
  BY OpsSets DEF OpsTypeOK
<1>2. HomeTeam \in OpsTeams /\ \A a \in Agents : AgentTeam[a] \in OpsTeams
  BY TeamsAre
<1>3. store = "postgres" => DefaultTeam \in OpsTeams
  <2> SUFFICES ASSUME store = "postgres" PROVE DefaultTeam \in OpsTeams
    OBVIOUS
  <2>1. DefaultTeam = Min(OpsTeams)
    BY <1>2 DEF DefaultTeam
  <2>2. OpsTeams \in SUBSET Nat /\ OpsTeams # {}
    BY <1>2, TeamsAre
  <2> QED BY <2>1, <2>2, LeastIn
<1>4. team \in OpsTeams
  BY <1>1, <1>2, <1>3
<1>5. o # NoAgent => InTeam(o, team)
  BY <1>1 DEF InTeam
<1>6. o \in Agents \cup {NoAgent}
  BY <1>1
<1>7. Entered(p, q, s, o) = NewLead([number |-> p, alternate |-> q, source |-> s], team, o, <<>>)
  BY DEF Entered
<1> HIDE DEF team
<1>8. Entered(p, q, s, o) = [number |-> p, alternate |-> q, team |-> team, owner |-> o, source |-> s,
                             archived |-> FALSE, handled |-> FALSE, from |-> <<>>]
  BY <1>7 DEF NewLead
<1> QED BY <1>4, <1>5, <1>6, <1>8 DEF BookLead

LEMMA EditedIs ==
  ASSUME OpsTypeOK, NEW l \in DOMAIN book, NEW p \in Numbers, NEW q \in Numbers \cup {NoNumber},
         NEW o \in Agents \cup {NoAgent}, NEW gone \in BOOLEAN,
         o # book[l].owner => o \in employed \cup {NoAgent}
  PROVE  /\ Edited(book[l], p, q, o, gone) \in BookLead
         /\ Edited(book[l], p, q, o, gone).from = book[l].from
         /\ ~Edited(book[l], p, q, o, gone).handled => AsItWas(Edited(book[l], p, q, o, gone), book[l])
         /\ \/ Edited(book[l], p, q, o, gone).owner \in {NoAgent, book[l].owner}
            \/ InTeam(Edited(book[l], p, q, o, gone).owner, Edited(book[l], p, q, o, gone).team)
<1> DEFINE old  == book[l]
           team == IF o \in {NoAgent, old.owner} THEN old.team ELSE AgentTeam[o]
           same == <<p, q, team, gone>> = <<old.number, old.alternate, old.team, old.archived>>
           new  == Edited(old, p, q, o, gone)
<1>1. old \in BookLead
  BY BookIs, ElementOfSeq
<1>2. team \in OpsTeams
  BY <1>1, LeadFields, TeamsAre
<1>3. o \in {NoAgent, old.owner} \/ InTeam(o, team)
  BY DEF InTeam
<1>4. same <=> p = old.number /\ q = old.alternate /\ team = old.team /\ gone = old.archived
  OBVIOUS
<1>5. same \in BOOLEAN
  OBVIOUS
<1>6. new = [old EXCEPT !.number = p, !.alternate = q, !.owner = o, !.team = team,
                        !.archived = gone, !.handled = @ \/ ~same]
  BY DEF Edited
<1> HIDE DEF team, same, new, old
<1>7. /\ new \in BookLead /\ new.from = old.from /\ new.number = p /\ new.alternate = q
      /\ new.owner = o /\ new.team = team /\ new.archived = gone
      /\ new.handled = (old.handled \/ ~same)
  BY <1>1, <1>2, <1>5, <1>6 DEF BookLead
<1>8. ~new.handled => AsItWas(new, old)
  BY <1>4, <1>7 DEF AsItWas
<1> QED BY <1>3, <1>7, <1>8 DEF new, old

LEMMA CreateLeadKeeps ==
  ASSUME OpsInv, NEW p \in Numbers, NEW q \in Numbers \cup {NoNumber}, NEW s \in Sources,
         NEW o \in Agents \cup {NoAgent}, CreateLead(p, q, s, o), desk < MaxDesk
  PROVE  OpsInv'
<1>0. /\ OpsTypeOK /\ JobAccounts /\ RowsAndLeads /\ NoNumberTwice /\ TurnsRotate
      /\ RulesSound /\ RowsSound /\ FromRows /\ CursorFollows
  BY InvParts
<1> DEFINE lead == Entered(p, q, s, o)
<1>1. /\ o \in employed \cup {NoAgent} /\ book' = Append(book, lead) /\ desk' = desk + 1
      /\ UNCHANGED <<store, job, rows, receipt, assigned>> /\ UNCHANGED <<employed, rules, turns>>
  BY DEF CreateLead, AtDesk, Entered
<1>3. lead \in BookLead /\ lead.from = <<>>
  BY <1>0, <1>1, EnteredIs
<1> HIDE DEF lead
<1>4. book \in Seq(BookLead) /\ DOMAIN book = 1..Len(book) /\ Len(book) \in Nat
  BY <1>0, BookIs
<1>5. /\ book' \in Seq(BookLead) /\ Len(book') = Len(book) + 1
      /\ \A i \in 1..Len(book) : book'[i] = book[i]
      /\ book'[Len(book) + 1] = lead
  BY <1>1, <1>3, <1>4, AppendProperties
<1>6. DOMAIN book' = 1..Len(book) + 1
  BY <1>5, LenProperties
<1>7. /\ \A l \in DOMAIN book : l \in DOMAIN book' /\ book'[l] = book[l]
      /\ \A l \in DOMAIN book' : book'[l].from # <<>> => l \in DOMAIN book /\ book'[l] = book[l]
  BY <1>3, <1>4, <1>5, <1>6
<1>8. rows' = rows
  BY <1>1
<1>9. RowsAndLeads' /\ FromRows'
  <2>1. RowsAndLeads'
    <3>1. ASSUME NEW j \in Jobs, NEW i \in DOMAIN rows[j]
          PROVE  IF rows[j][i].decision = "imported"
                 THEN rows[j][i].lead \in DOMAIN book' /\ book'[rows[j][i].lead].from = <<j, i>>
                      /\ (~book'[rows[j][i].lead].handled
                           => book'[rows[j][i].lead].number = rows[j][i].input.number)
                 ELSE rows[j][i].lead = 0
      BY <1>0, <1>7 DEF RowsAndLeads
    <3>2. ASSUME NEW l \in DOMAIN book', book'[l].from # <<>>
          PROVE  rows[book'[l].from[1]][book'[l].from[2]].lead = l
      BY <1>0, <1>7, <3>2 DEF RowsAndLeads
    <3> QED BY <1>8, <3>1, <3>2 DEF RowsAndLeads
  <2>2. FromRows'
    BY <1>0, <1>7, <1>8 DEF FromRows
  <2> QED BY <2>1, <2>2
<1>10. ASSUME NEW l \in DOMAIN book', AsStaged(l)'
       PROVE  l \in DOMAIN book /\ book'[l] = book[l] /\ AsStaged(l)
  <2>1. book'[l].from # <<>>
    BY <1>10 DEF AsStaged
  <2>2. l \in DOMAIN book /\ book'[l] = book[l]
    BY <1>7, <2>1
  <2> QED BY <1>8, <1>10, <2>2 DEF AsStaged
<1>11. NoNumberTwice'
  <2> SUFFICES ASSUME NEW k \in DOMAIN book', NEW m \in DOMAIN book', k # m, AsStaged(k)', AsStaged(m)',
                      book'[k].team = book'[m].team
               PROVE  PhonesOf(book'[k]) \cap PhonesOf(book'[m]) = {}
    BY DEF NoNumberTwice
  <2>1. /\ k \in DOMAIN book /\ book'[k] = book[k] /\ AsStaged(k)
        /\ m \in DOMAIN book /\ book'[m] = book[m] /\ AsStaged(m)
    BY <1>10
  <2>2. book[k].team = book[m].team
    BY <2>1
  <2>3. PhonesOf(book[k]) \cap PhonesOf(book[m]) = {}
    BY <1>0, <2>1, <2>2 DEF NoNumberTwice
  <2> QED BY <2>1, <2>3
<1>12. UNCHANGED <<job, rows>> /\ UNCHANGED <<rules, turns>>
  BY <1>1
<1>13. JobAccounts' /\ RowsSound' /\ RulesSound' /\ TurnsRotate' /\ CursorFollows'
  BY <1>0, <1>12, JobsFrame, RulesFrame
<1>14. desk' \in 0..MaxDesk
  BY <1>0, <1>1, OpsBounds DEF OpsTypeOK
<1>15. OpsTypeOK'
  BY <1>0, <1>1, <1>5, <1>14 DEF OpsTypeOK
<1> QED BY <1>9, <1>11, <1>13, <1>15 DEF OpsInv, ImportInv

LEMMA LeadEditKeeps ==
  ASSUME OpsInv, NEW l \in DOMAIN book, NEW new \in BookLead, book' = [book EXCEPT ![l] = new],
         new.from = book[l].from, ~new.handled => AsItWas(new, book[l]),
         AtDesk, UNCHANGED <<employed, rules, turns>>, desk < MaxDesk
  PROVE  OpsInv'
<1>0. /\ OpsTypeOK /\ JobAccounts /\ TurnsRotate /\ RulesSound /\ RowsSound /\ CursorFollows
  BY InvParts
<1>1. desk' = desk + 1 /\ UNCHANGED <<store, job, rows, receipt, assigned>> /\ rows' = rows
  BY DEF AtDesk
<1>2. book' \in Seq(BookLead) /\ RowsAndLeads' /\ FromRows' /\ NoNumberTwice'
  BY <1>1, LeadEdited
<1>3. UNCHANGED <<job, rows>> /\ UNCHANGED <<rules, turns>>
  BY <1>1
<1>4. JobAccounts' /\ RowsSound' /\ RulesSound' /\ TurnsRotate' /\ CursorFollows'
  BY <1>0, <1>3, JobsFrame, RulesFrame
<1>5. desk' \in 0..MaxDesk
  BY <1>0, <1>1, OpsBounds DEF OpsTypeOK
<1>6. OpsTypeOK'
  BY <1>0, <1>1, <1>2, <1>5 DEF OpsTypeOK
<1> QED BY <1>2, <1>4, <1>6 DEF OpsInv, ImportInv

LEMMA UpdateLeadKeeps ==
  ASSUME OpsInv, NEW l \in DOMAIN book, NEW p \in Numbers, NEW q \in Numbers \cup {NoNumber},
         NEW o \in Agents \cup {NoAgent}, NEW gone \in BOOLEAN, UpdateLead(l, p, q, o, gone), desk < MaxDesk
  PROVE  OpsInv'
<1>0. OpsTypeOK
  BY InvParts
<1> DEFINE new == Edited(book[l], p, q, o, gone)
<1>1. /\ book' = [book EXCEPT ![l] = new] /\ AtDesk /\ UNCHANGED <<employed, rules, turns>>
      /\ o # book[l].owner => o \in employed \cup {NoAgent}
  BY DEF UpdateLead, Edited
<1>2. new \in BookLead /\ new.from = book[l].from /\ (~new.handled => AsItWas(new, book[l]))
  BY <1>0, <1>1, EditedIs
<1> HIDE DEF new
<1> QED BY <1>1, <1>2, LeadEditKeeps

-------------------------------------------------------------------------------
(* A run of the rules keeps the invariant.                                     *)

PlanType == [book : Seq(BookLead), won : [Rules -> Nat], given : [Rules -> Seq(Agents)]]

\* A run changes owners only, and gives only to whoever is in the lead's team.
Assigns(k, leads) ==
  /\ Len(leads) = Len(book)
  /\ \A l \in DOMAIN book :
       /\ leads[l].number = book[l].number /\ leads[l].alternate = book[l].alternate
       /\ leads[l].team = book[l].team /\ leads[l].archived = book[l].archived
       /\ leads[l].handled = book[l].handled /\ leads[l].from = book[l].from
       /\ leads[l].owner # book[l].owner => InTeam(leads[l].owner, leads[l].team)
       /\ l > k => leads[l] = book[l]

PlanAcc(k, acc) == acc \in PlanType /\ Assigns(k, acc.book) /\ TurnsTaken(acc.won, acc.given)

LEMMA PlanFields ==
  ASSUME NEW acc \in PlanType
  PROVE  acc.book \in Seq(BookLead) /\ acc.won \in [Rules -> Nat] /\ acc.given \in [Rules -> Seq(Agents)]
BY DEF PlanType

LEMMA PlanStarts ==
  ASSUME OpsInv PROVE PlanAcc(0, Unplanned)
<1>1. OpsTypeOK
  BY InvParts
<1>2. book \in Seq(BookLead)
  BY <1>1, BookIs
<1>3. NoneWon \in [Rules -> Nat] /\ NoneGiven \in [Rules -> Seq(Agents)]
  <2>1. <<>> \in Seq(Agents)
    BY EmptySeq
  <2> QED BY <2>1 DEF NoneWon, NoneGiven
<1>4. Unplanned \in PlanType
  BY <1>2, <1>3 DEF Unplanned, PlanType
<1>5. Unplanned.book = book /\ Unplanned.won = NoneWon /\ Unplanned.given = NoneGiven
  BY DEF Unplanned
<1>6. Assigns(0, Unplanned.book)
  BY <1>5 DEF Assigns
<1>7. TurnsTaken(NoneWon, NoneGiven)
  <2>1. \A r \in Rules : NoneWon[r] = 0 /\ NoneGiven[r] = <<>>
    BY DEF NoneWon, NoneGiven
  <2>2. Len(<<>>) = 0 /\ 1..0 = {}
    OBVIOUS
  <2> QED BY <2>1, <2>2 DEF TurnsTaken
<1> QED BY <1>4, <1>5, <1>6, <1>7 DEF PlanAcc

LEMMA PlanRowKeeps ==
  ASSUME OpsInv, NEW l \in 1..Len(book), NEW acc, PlanAcc(l - 1, acc)
  PROVE  PlanAcc(l, AssignLead(acc, l))
<1> DEFINE fit == {q \in Rules : Usable(q) /\ Matches(q, book[l].team, book[l].source)}
           r   == FirstRule(fit)
           who == Chosen(r, acc.won[r])
           lead == [acc.book[l] EXCEPT !.owner = who]
           won  == IF rules[r].turning THEN [acc.won EXCEPT ![r] = @ + 1] ELSE acc.won
           given == [acc.given EXCEPT ![r] = Append(@, who)]
           leads == [acc.book EXCEPT ![l] = lead]
           new  == [book |-> leads, won |-> won, given |-> given]
<1>0. OpsTypeOK /\ RulesSound
  BY InvParts
<1>1. acc \in PlanType /\ Assigns(l - 1, acc.book) /\ TurnsTaken(acc.won, acc.given)
  BY DEF PlanAcc
<1>2. book \in Seq(BookLead) /\ DOMAIN book = 1..Len(book) /\ Len(book) \in Nat
  BY <1>0, BookIs
<1>3. \A k \in DOMAIN book : k > l => k > l - 1
  BY <1>2
<1>4. CASE AssignLead(acc, l) = acc
  <2>1. Assigns(l, acc.book)
    BY <1>1, <1>3 DEF Assigns
  <2> QED BY <1>1, <1>4, <2>1 DEF PlanAcc
<1>5. CASE AssignLead(acc, l) # acc
  <2>1. r # NoRule /\ AssignLead(acc, l) = new
    BY <1>5 DEF AssignLead
  <2>2. r \in Rules /\ Usable(r) /\ rules[r].team = book[l].team
    <3>1. r \in fit
      BY <2>1, FirstFits
    <3> QED BY <3>1 DEF Matches
  <2> HIDE DEF fit, r
  <2>3. rules[r].members # <<>> /\ rules[r].exists
    BY <1>0, <2>2 DEF Usable, RulesSound
  <2>4. acc.book \in Seq(BookLead) /\ acc.won \in [Rules -> Nat] /\ acc.given \in [Rules -> Seq(Agents)]
    BY <1>1, PlanFields
  <2>5. acc.won[r] \in Nat /\ acc.given[r] \in Seq(Agents)
    BY <2>2, <2>4
  <2>6. who \in Agents /\ \E i \in DOMAIN rules[r].members : who = rules[r].members[i]
    BY <1>0, <2>2, <2>3, <2>5, ChosenIs
  <2>7. InTeam(who, book[l].team)
    BY <2>2, <2>6 DEF Usable
  <2>8. GivesOne(r, acc.won, acc.given, won, given)
    BY <2>2, <2>4 DEF GivesOne
  <2>9. given \in [Rules -> Seq(Agents)] /\ won \in [Rules -> Nat]
    <3>1. Append(acc.given[r], who) \in Seq(Agents) /\ acc.won[r] + 1 \in Nat
      BY <2>5, <2>6, AppendProperties
    <3> HIDE DEF who
    <3> QED BY <2>4, <3>1
  <2> HIDE DEF who, won, given
  <2>10. TurnsTaken(won, given)
    BY <1>0, <1>1, <2>2, <2>3, <2>4, <2>8, TurnGiven
  <2>11. acc.book[l] = book[l] /\ l \in 1..Len(acc.book) /\ l \in DOMAIN book
    BY <1>1, <1>2 DEF Assigns
  <2>12. book[l] \in BookLead
    BY <1>2, ElementOfSeq
  <2>13. /\ lead \in BookLead /\ lead.owner = who
         /\ lead.number = book[l].number /\ lead.alternate = book[l].alternate
         /\ lead.team = book[l].team /\ lead.archived = book[l].archived
         /\ lead.handled = book[l].handled /\ lead.from = book[l].from
    BY <2>6, <2>11, <2>12 DEF BookLead
  <2> HIDE DEF lead
  <2>14. leads \in Seq(BookLead) /\ Len(leads) = Len(acc.book)
    BY <2>4, <2>11, <2>13, ExceptSeq
  <2>15. DOMAIN acc.book = DOMAIN book
    <3>1. DOMAIN acc.book = 1..Len(acc.book)
      BY <2>4, LenProperties
    <3> QED BY <1>1, <1>2, <3>1 DEF Assigns
  <2>16. leads[l] = lead /\ \A k \in DOMAIN book : k # l => leads[k] = acc.book[k]
    BY <2>11, <2>15
  <2> HIDE DEF leads
  <2>17. Assigns(l, leads)
    <3>1. ASSUME NEW k \in DOMAIN book
          PROVE  /\ leads[k].number = book[k].number /\ leads[k].alternate = book[k].alternate
                 /\ leads[k].team = book[k].team /\ leads[k].archived = book[k].archived
                 /\ leads[k].handled = book[k].handled /\ leads[k].from = book[k].from
                 /\ leads[k].owner # book[k].owner => InTeam(leads[k].owner, leads[k].team)
                 /\ k > l => leads[k] = book[k]
      <4>1. CASE k = l
        <5>1. ~(l > l)
          OBVIOUS
        <5> QED BY <2>7, <2>13, <2>16, <4>1, <5>1
      <4>2. CASE k # l
        <5>1. leads[k] = acc.book[k]
          BY <2>16, <4>2
        <5> QED BY <1>1, <1>3, <5>1 DEF Assigns
      <4> QED BY <4>1, <4>2
    <3>2. Len(leads) = Len(book)
      BY <1>1, <2>14 DEF Assigns
    <3> QED BY <3>1, <3>2 DEF Assigns
  <2>18. new.book = leads /\ new.won = won /\ new.given = given /\ new \in PlanType
    BY <2>9, <2>14 DEF PlanType
  <2> HIDE DEF new
  <2> QED BY <2>1, <2>10, <2>17, <2>18 DEF PlanAcc
<1> QED BY <1>4, <1>5

LEMMA PlanEnds ==
  ASSUME OpsInv PROVE PlanAcc(Len(book), Planned)
<1> DEFINE n == Len(book)
<1>0. n \in Nat
  BY BookIs, InvParts
<1>1. PICK f : /\ f = [k \in 0..n |-> IF k = 0 THEN Unplanned ELSE AssignLead(f[k - 1], k)]
               /\ Planned = f[n]
  BY <1>0, PlannedLoop
<1> DEFINE P == {k \in 0..n : PlanAcc(k, f[k])}
<1> HIDE DEF n
<1>2. 0 \in P
  <2>1. f[0] = Unplanned /\ 0 \in 0..n
    BY <1>0, <1>1
  <2> QED BY <2>1, PlanStarts
<1>3. ASSUME NEW k \in 1..n, k - 1 \in P PROVE k \in P
  <2>1. PlanAcc(k - 1, f[k - 1]) /\ k \in 0..n /\ k # 0
    BY <1>3
  <2>2. f[k] = AssignLead(f[k - 1], k)
    BY <1>1, <2>1
  <2>3. PlanAcc(k, f[k])
    BY <2>1, <2>2, PlanRowKeeps DEF n
  <2> QED BY <2>1, <2>3
<1>4. \A k \in 1..n : k - 1 \in P => k \in P
  BY <1>3
<1> HIDE DEF P
<1>5. n \in P
  <2>1. \A k \in 0..n : k \in P
    BY <1>0, <1>2, <1>4, UpTo
  <2>2. n \in 0..n
    BY <1>0
  <2> QED BY <2>1, <2>2
<1>6. PlanAcc(n, f[n])
  BY <1>5 DEF P
<1> QED BY <1>1, <1>6 DEF n

LEMMA ApplyKeeps ==
  ASSUME OpsInv, NEW a \in 1..MaxRuns, Apply(a)
  PROVE  OpsInv'
<1>0. /\ OpsTypeOK /\ JobAccounts /\ RowsAndLeads /\ NoNumberTwice /\ RowsSound /\ FromRows
  BY InvParts
<1>1. /\ book' = Planned.book /\ rules' = Advanced(Planned.won) /\ Remember(Planned.given)
      /\ assigned' = assigned \cup {a} /\ UNCHANGED <<store, employed, job, rows, receipt, desk>>
  BY DEF Apply
<1>2. Planned \in PlanType /\ Assigns(Len(book), Planned.book) /\ TurnsTaken(Planned.won, Planned.given)
  BY PlanEnds DEF PlanAcc
<1>3. /\ Planned.book \in Seq(BookLead) /\ Planned.won \in [Rules -> Nat]
      /\ Planned.given \in [Rules -> Seq(Agents)]
  BY <1>2, PlanFields
<1>4. /\ rules' \in [Rules -> RuleType] /\ turns' \in [Rules -> Seq(Agents)]
      /\ TurnsRotate' /\ RulesSound' /\ CursorFollows'
  <2> DEFINE won == Planned.won
             given == Planned.given
  <2>1. won \in [Rules -> Nat] /\ given \in [Rules -> Seq(Agents)] /\ TurnsTaken(won, given)
        /\ rules' = Advanced(won) /\ Remember(given)
    BY <1>1, <1>2, <1>3
  <2> HIDE DEF won, given
  <2> QED BY <2>1, TurnsAdvance
<1>5. DOMAIN book = 1..Len(book) /\ DOMAIN book' = 1..Len(book') /\ Len(book') = Len(book)
  BY <1>0, <1>1, <1>2, <1>3, BookIs, LenProperties DEF Assigns
<1>6. ASSUME NEW l \in DOMAIN book
      PROVE  /\ book'[l].number = book[l].number /\ book'[l].alternate = book[l].alternate
             /\ book'[l].team = book[l].team /\ book'[l].archived = book[l].archived
             /\ book'[l].handled = book[l].handled /\ book'[l].from = book[l].from
  BY <1>1, <1>2 DEF Assigns
<1>7. DOMAIN book' = DOMAIN book /\ rows' = rows
  BY <1>1, <1>5
<1>8. RowsAndLeads' /\ FromRows'
  <2>1. RowsAndLeads'
    BY <1>0, <1>6, <1>7 DEF RowsAndLeads
  <2>2. FromRows'
    BY <1>0, <1>6, <1>7 DEF FromRows
  <2> QED BY <2>1, <2>2
<1>9. NoNumberTwice'
  <2>1. \A l \in DOMAIN book : AsStaged(l)' => AsStaged(l)
    BY <1>6, <1>7 DEF AsStaged
  <2>2. \A l \in DOMAIN book : PhonesOf(book'[l]) = PhonesOf(book[l]) /\ book'[l].team = book[l].team
    BY <1>6 DEF PhonesOf
  <2> SUFFICES ASSUME NEW k \in DOMAIN book', NEW m \in DOMAIN book', k # m, AsStaged(k)', AsStaged(m)',
                      book'[k].team = book'[m].team
               PROVE  PhonesOf(book'[k]) \cap PhonesOf(book'[m]) = {}
    BY DEF NoNumberTwice
  <2>3. AsStaged(k) /\ AsStaged(m) /\ book[k].team = book[m].team
    BY <1>7, <2>1, <2>2
  <2>4. PhonesOf(book[k]) \cap PhonesOf(book[m]) = {}
    BY <1>0, <1>7, <2>3 DEF NoNumberTwice
  <2> QED BY <1>7, <2>2, <2>4
<1>10. UNCHANGED <<job, rows>>
  BY <1>1
<1>11. JobAccounts' /\ RowsSound'
  BY <1>0, <1>10, JobsFrame
<1>12. book' \in Seq(BookLead)
  BY <1>1, <1>3
<1>13. OpsTypeOK'
  BY <1>0, <1>1, <1>4, <1>12 DEF OpsTypeOK, RuleType
<1> QED BY <1>4, <1>8, <1>9, <1>11, <1>13 DEF OpsInv, ImportInv

-------------------------------------------------------------------------------
(* Staging a file keeps the invariant.                                         *)

\* The rows staged so far: none is imported, and one that may be has a team.
StageAcc(k, acc) ==
  /\ acc.rows \in Seq(Row) /\ acc.won \in [Rules -> Nat] /\ Len(acc.rows) = k
  /\ \A i \in DOMAIN acc.rows :
       /\ acc.rows[i].decision # "imported" /\ acc.rows[i].lead = 0
       /\ acc.rows[i].decision = "valid" => acc.rows[i].team \in OpsTeams

LEMMA DecideIs ==
  ASSUME OpsTypeOK, NEW x \in Input, NEW reserved
  PROVE  /\ Decide(x, reserved).decision \in {"valid", "duplicate", "invalid"}
         /\ Decide(x, reserved).team \in OpsTeams \cup {0}
         /\ Decide(x, reserved).decision = "valid" => Decide(x, reserved).team \in OpsTeams
<1> DEFINE named   == x.owner # NoAgent
           team    == IF named /\ x.owner \in employed THEN AgentTeam[x.owner] ELSE DefaultTeam
           invalid == ~x.formed \/ (named /\ x.owner \notin employed) \/ team = 0
           inFile  == \/ \E p \in PhonesOf(x) : <<team, p>> \in reserved
                      \/ x.alternate = x.number
           known   == IF invalid \/ inFile THEN 0 ELSE Existing(book, team, x)
           what    == IF invalid THEN "invalid" ELSE IF inFile \/ known # 0 THEN "duplicate" ELSE "valid"
<1>1. Decide(x, reserved) = [decision |-> what, team |-> team]
  BY DEF Decide
<1>2. team \in OpsTeams \cup {0}
  <2>1. x.owner \in employed => x.owner \in Agents
    BY DEF OpsTypeOK
  <2> QED BY <2>1, TeamsAre, DefaultTeamIs
<1> HIDE DEF team
<1>3. what \in {"valid", "duplicate", "invalid"} /\ (what = "valid" => team # 0)
  <2> HIDE DEF named, inFile, known
  <2> QED OBVIOUS
<1> HIDE DEF what
<1> QED BY <1>1, <1>2, <1>3

LEMMA ProposedIs ==
  ASSUME OpsTypeOK, NEW x \in Input, NEW team, NEW won \in [Rules -> Nat]
  PROVE  /\ Proposed(x, team, won).rule \in Rules \cup {NoRule}
         /\ Proposed(x, team, won).owner \in Agents \cup {NoAgent}
<1> DEFINE fit == {q \in Rules : Usable(q) /\ Matches(q, team, x.source)}
           r   == FirstRule(fit)
           p   == Proposed(x, team, won)
<1>1. p = IF x.owner # NoAgent THEN [rule |-> NoRule, owner |-> x.owner]
          ELSE IF r = NoRule   THEN [rule |-> NoRule, owner |-> NoAgent]
          ELSE [rule |-> r, owner |-> Chosen(r, won[r])]
  BY DEF Proposed
<1>2. x.owner \in Agents \cup {NoAgent}
  BY DEF Input
<1>3. r # NoRule => r \in Rules /\ rules[r].members # <<>>
  <2>1. r # NoRule => r \in fit
    BY FirstFits
  <2> HIDE DEF r
  <2> QED BY <2>1 DEF Usable
<1> HIDE DEF fit, r
<1>4. ASSUME r # NoRule PROVE r \in Rules /\ Chosen(r, won[r]) \in Agents
  <2>1. r \in Rules /\ rules[r].members # <<>> /\ won[r] \in Nat
    BY <1>3, <1>4
  <2> QED BY <2>1, ChosenIs
<1> HIDE DEF p
<1> QED BY <1>1, <1>2, <1>4 DEF p

LEMMA StageRowKeeps ==
  ASSUME OpsInv, NEW x \in Input, NEW k \in Nat, NEW acc, StageAcc(k, acc)
  PROVE  StageAcc(k + 1, StageRow(acc, x))
<1> DEFINE d == Decide(x, acc.reserved)
           p == IF d.decision = "valid" THEN Proposed(x, d.team, acc.won)
                ELSE [rule |-> NoRule, owner |-> NoAgent]
           turn == p.rule # NoRule /\ rules[p.rule].turning
           seen == IF p.rule = NoRule \/ store = "memory" THEN 0 ELSE rules[p.rule].version
           row == [input |-> x, decision |-> d.decision, team |-> d.team, owner |-> p.owner, rule |-> p.rule,
                   seen |-> seen, lead |-> 0]
           won == IF turn THEN [acc.won EXCEPT ![p.rule] = @ + 1] ELSE acc.won
           new == StageRow(acc, x)
<1>0. OpsTypeOK
  BY InvParts
<1>1. /\ acc.rows \in Seq(Row) /\ acc.won \in [Rules -> Nat] /\ Len(acc.rows) = k
      /\ \A i \in DOMAIN acc.rows :
           /\ acc.rows[i].decision # "imported" /\ acc.rows[i].lead = 0
           /\ acc.rows[i].decision = "valid" => acc.rows[i].team \in OpsTeams
  BY DEF StageAcc
<1>2. new.rows = Append(acc.rows, row) /\ new.won = won
  BY DEF StageRow
<1>3. /\ d.decision \in {"valid", "duplicate", "invalid"} /\ d.team \in OpsTeams \cup {0}
      /\ d.decision = "valid" => d.team \in OpsTeams
  BY <1>0, DecideIs
<1> HIDE DEF d
<1>4. p.rule \in Rules \cup {NoRule} /\ p.owner \in Agents \cup {NoAgent}
  BY <1>0, <1>1, ProposedIs
<1> HIDE DEF p
<1>5. seen \in Nat
  BY <1>0, <1>4, RuleFields
<1> HIDE DEF seen
<1>6. /\ row \in Row /\ row.decision = d.decision /\ row.team = d.team /\ row.lead = 0
  BY <1>3, <1>4, <1>5 DEF Row, Decisions
<1> HIDE DEF row
<1>7. won \in [Rules -> Nat]
  <2>1. CASE turn
    <3>1. p.rule \in Rules /\ acc.won[p.rule] + 1 \in Nat
      BY <1>1, <1>4, <2>1
    <3> QED BY <1>1, <2>1, <3>1
  <2>2. CASE ~turn
    BY <1>1, <2>2
  <2> QED BY <2>1, <2>2
<1> HIDE DEF won, new
<1>8. /\ new.rows \in Seq(Row) /\ Len(new.rows) = k + 1
      /\ \A i \in 1..k : new.rows[i] = acc.rows[i]
      /\ new.rows[k + 1] = row
  BY <1>1, <1>2, <1>6, AppendProperties
<1>9. DOMAIN new.rows = 1..k + 1 /\ DOMAIN acc.rows = 1..k
  BY <1>1, <1>8, LenProperties
<1>10. ASSUME NEW i \in DOMAIN new.rows
       PROVE  /\ new.rows[i].decision # "imported" /\ new.rows[i].lead = 0
              /\ new.rows[i].decision = "valid" => new.rows[i].team \in OpsTeams
  <2>1. CASE i \in 1..k
    BY <1>1, <1>8, <1>9, <2>1
  <2>2. CASE i = k + 1
    <3>1. new.rows[i] = row
      BY <1>8, <2>2
    <3> QED BY <1>3, <1>6, <3>1
  <2> QED BY <1>9, <2>1, <2>2
<1> QED BY <1>2, <1>7, <1>8, <1>10 DEF StageAcc, new

LEMMA StageEnds ==
  ASSUME OpsInv, NEW file \in Uploads
  PROVE  /\ Staged(file) \in Seq(Row) /\ Len(Staged(file)) = Len(file)
         /\ \A i \in DOMAIN Staged(file) :
              /\ Staged(file)[i].decision # "imported" /\ Staged(file)[i].lead = 0
              /\ Staged(file)[i].decision = "valid" => Staged(file)[i].team \in OpsTeams
<1> DEFINE n == Len(file)
<1>0. file \in Seq(Input) /\ n \in Nat /\ \A k \in 1..n : file[k] \in Input
  <2>1. file \in Seq(Input)
    BY OpsSets
  <2> QED BY <2>1, LenProperties, ElementOfSeq
<1>1. PICK f : /\ f = [k \in 0..n |-> IF k = 0 THEN NothingStaged ELSE StageRow(f[k - 1], file[k])]
               /\ Staged(file) = f[n].rows
  BY <1>0, StagedLoop
<1> DEFINE P == {k \in 0..n : StageAcc(k, f[k])}
<1> HIDE DEF n
<1>2. 0 \in P
  <2>1. f[0] = NothingStaged /\ 0 \in 0..n
    BY <1>0, <1>1
  <2>2. NothingStaged.rows = <<>> /\ NothingStaged.won = NoneWon
    BY DEF NothingStaged
  <2>3. NoneWon \in [Rules -> Nat] /\ <<>> \in Seq(Row) /\ Len(<<>>) = 0 /\ DOMAIN <<>> = {}
    BY DEF NoneWon
  <2>4. StageAcc(0, NothingStaged)
    BY <2>2, <2>3 DEF StageAcc
  <2> QED BY <2>1, <2>4
<1>3. ASSUME NEW k \in 1..n, k - 1 \in P PROVE k \in P
  <2>1. StageAcc(k - 1, f[k - 1]) /\ k \in 0..n /\ k # 0 /\ k - 1 \in Nat /\ (k - 1) + 1 = k
    BY <1>3
  <2>2. f[k] = StageRow(f[k - 1], file[k])
    BY <1>1, <2>1
  <2>3. file[k] \in Input
    BY <1>0
  <2>4. StageAcc((k - 1) + 1, StageRow(f[k - 1], file[k]))
    BY <2>1, <2>3, StageRowKeeps
  <2> QED BY <2>1, <2>2, <2>4
<1>4. \A k \in 1..n : k - 1 \in P => k \in P
  BY <1>3
<1> HIDE DEF P
<1>5. n \in P
  <2>1. \A k \in 0..n : k \in P
    BY <1>0, <1>2, <1>4, UpTo
  <2>2. n \in 0..n
    BY <1>0
  <2> QED BY <2>1, <2>2
<1>6. StageAcc(n, f[n])
  BY <1>5 DEF P
<1> QED BY <1>1, <1>6 DEF n, StageAcc

LEMMA StageKeeps ==
  ASSUME OpsInv, NEW j \in Jobs, NEW file \in Uploads, Stage(j, file)
  PROVE  OpsInv'
<1>0. /\ OpsTypeOK /\ JobAccounts /\ RowsAndLeads /\ NoNumberTwice /\ TurnsRotate
      /\ RulesSound /\ RowsSound /\ FromRows /\ CursorFollows
  BY InvParts
<1> DEFINE staged == Staged(file)
           V == Decided(staged, "valid")
           U == Decided(staged, "duplicate")
           E == Decided(staged, "invalid")
           I == Decided(staged, "imported")
           N == Len(staged)
           new == [status |-> "preview_ready", total |-> N, valid |-> V, duplicate |-> U, error |-> E,
                   imported |-> 0, processed |-> N - V]
<1>1. /\ job[j].status = "none" /\ rows' = [rows EXCEPT ![j] = staged] /\ job' = [job EXCEPT ![j] = new]
      /\ UNCHANGED <<store, employed, book, rules, receipt, assigned, turns, desk>>
  BY DEF Stage
<1>2. /\ staged \in Seq(Row)
      /\ \A i \in DOMAIN staged :
           /\ staged[i].decision # "imported" /\ staged[i].lead = 0
           /\ staged[i].decision = "valid" => staged[i].team \in OpsTeams
  BY StageEnds
<1> HIDE DEF staged
<1>3. /\ V \in Nat /\ U \in Nat /\ E \in Nat /\ I \in Nat /\ V + U + E + I = N
      /\ I = 0 /\ N \in Nat
  <2>1. V \in Nat /\ U \in Nat /\ E \in Nat /\ I \in Nat /\ V + U + E + I = N
    BY <1>2, Counted DEF Decisions
  <2>2. {i \in DOMAIN staged : staged[i].decision = "imported"} = {}
    BY <1>2
  <2>3. I = 0
    BY <2>2, FS_EmptySet DEF Decided
  <2> QED BY <1>2, <2>1, <2>3, LenProperties
<1> HIDE DEF V, U, E, I, N
<1>4. N - V \in Nat
  BY <1>3
<1>5. /\ new \in JobType /\ new.status = "preview_ready" /\ new.total = N /\ new.valid = V
      /\ new.duplicate = U /\ new.error = E /\ new.imported = 0 /\ new.processed = N - V
  BY <1>3, <1>4 DEF JobType
<1> HIDE DEF new
<1>6. job \in [Jobs -> JobType] /\ rows \in [Jobs -> Seq(Row)]
  BY <1>0 DEF OpsTypeOK, JobType
<1>7. job' \in [Jobs -> JobType] /\ rows' \in [Jobs -> Seq(Row)]
  BY <1>1, <1>2, <1>5, <1>6
<1>8. /\ rows'[j] = staged /\ job'[j] = new
      /\ \A q \in Jobs : q # j => rows'[q] = rows[q] /\ job'[q] = job[q]
  BY <1>1, <1>6
<1>9. rows[j] = <<>>
  BY <1>0, <1>1 DEF RowsSound
<1>10. JobAccounts'
  <2> SUFFICES ASSUME NEW q \in Jobs, job'[q].status # "none"
               PROVE  /\ job'[q].total = Len(rows'[q])
                      /\ job'[q].valid = Decided(rows'[q], "valid") + Decided(rows'[q], "imported")
                      /\ job'[q].duplicate = Decided(rows'[q], "duplicate")
                      /\ job'[q].error = Decided(rows'[q], "invalid")
                      /\ job'[q].imported = Decided(rows'[q], "imported")
                      /\ job'[q].processed = job'[q].total - Decided(rows'[q], "valid")
                      /\ job'[q].status = "completed" => {i \in DOMAIN rows'[q] : rows'[q][i].decision = "valid"} = {}
                      /\ job'[q].status = "interrupted" => {i \in DOMAIN rows'[q] : rows'[q][i].decision = "valid"} # {}
    BY DEF JobAccounts, ValidRows
  <2>1. CASE q # j
    <3>1. job'[q] = job[q] /\ rows'[q] = rows[q]
      BY <1>8, <2>1
    <3> QED BY <1>0, <3>1 DEF JobAccounts, ValidRows
  <2>2. CASE q = j
    <3>1. job'[q] = new /\ rows'[q] = staged
      BY <1>8, <2>2
    <3>2. V + I = V
      BY <1>3
    <3>3. /\ N = Len(staged) /\ V = Decided(staged, "valid") /\ U = Decided(staged, "duplicate")
          /\ E = Decided(staged, "invalid") /\ I = Decided(staged, "imported")
      BY DEF N, V, U, E, I
    <3> QED BY <1>3, <1>5, <3>1, <3>2, <3>3
  <2> QED BY <2>1, <2>2
<1>11. RowsSound'
  <2> SUFFICES ASSUME NEW q \in Jobs
               PROVE  /\ job'[q].status = "none" => rows'[q] = <<>>
                      /\ \A i \in DOMAIN rows'[q] : rows'[q][i].decision = "valid" => rows'[q][i].team \in OpsTeams
    BY DEF RowsSound
  <2>1. CASE q # j
    BY <1>0, <1>8, <2>1 DEF RowsSound
  <2>2. CASE q = j
    BY <1>2, <1>5, <1>8, <2>2
  <2> QED BY <2>1, <2>2
<1>12. ASSUME NEW l \in DOMAIN book, book[l].from # <<>>
       PROVE  book[l].from[1] \in Jobs /\ book[l].from[1] # j
  <2>1. book[l] \in BookLead
    BY <1>0, BookIs, ElementOfSeq
  <2>2. book[l].from[1] \in Jobs
    BY <1>12, <2>1, LeadFields
  <2>3. book[l].from[2] \in DOMAIN rows[book[l].from[1]]
    BY <1>0, <1>12 DEF FromRows
  <2>4. DOMAIN rows[j] = {}
    BY <1>9
  <2> QED BY <2>2, <2>3, <2>4
<1>13. \A l \in DOMAIN book : book[l].from # <<>> => rows'[book[l].from[1]] = rows[book[l].from[1]]
  BY <1>8, <1>12
<1>14. book' = book
  BY <1>1
<1>15. RowsAndLeads'
  <2>1. ASSUME NEW q \in Jobs, NEW i \in DOMAIN rows'[q]
        PROVE  IF rows'[q][i].decision = "imported"
               THEN rows'[q][i].lead \in DOMAIN book /\ book[rows'[q][i].lead].from = <<q, i>>
                    /\ (~book[rows'[q][i].lead].handled
                         => book[rows'[q][i].lead].number = rows'[q][i].input.number)
               ELSE rows'[q][i].lead = 0
    <3>1. CASE q # j
      <4>1. rows'[q] = rows[q]
        BY <1>8, <3>1
      <4> QED BY <1>0, <4>1 DEF RowsAndLeads
    <3>2. CASE q = j
      BY <1>2, <1>8, <3>2
    <3> QED BY <3>1, <3>2
  <2>2. \A l \in DOMAIN book : book[l].from # <<>> => rows'[book[l].from[1]][book[l].from[2]].lead = l
    BY <1>0, <1>13 DEF RowsAndLeads
  <2> QED BY <1>14, <2>1, <2>2 DEF RowsAndLeads
<1>16. FromRows'
  BY <1>0, <1>13, <1>14 DEF FromRows
<1>17. NoNumberTwice'
  <2>1. \A l \in DOMAIN book : AsStaged(l)' => AsStaged(l)
    BY <1>13, <1>14 DEF AsStaged
  <2> SUFFICES ASSUME NEW k \in DOMAIN book', NEW m \in DOMAIN book', k # m, AsStaged(k)', AsStaged(m)',
                      book'[k].team = book'[m].team
               PROVE  PhonesOf(book'[k]) \cap PhonesOf(book'[m]) = {}
    BY DEF NoNumberTwice
  <2> QED BY <1>0, <1>14, <2>1 DEF NoNumberTwice
<1>18. UNCHANGED <<rules, turns>>
  BY <1>1
<1>19. RulesSound' /\ TurnsRotate' /\ CursorFollows'
  BY <1>0, <1>18, RulesFrame
<1>20. OpsTypeOK'
  BY <1>0, <1>1, <1>7 DEF OpsTypeOK, JobType
<1> QED BY <1>10, <1>11, <1>15, <1>16, <1>17, <1>19, <1>20 DEF OpsInv, ImportInv

-------------------------------------------------------------------------------
(* The invariant of the specification.                                         *)

LEMMA StepKeeps ==
  ASSUME OpsInv, [OpsNext]_opsVars PROVE OpsInv'
<1>1. CASE UNCHANGED opsVars
  <2>1. /\ UNCHANGED <<store, employed, book, job, rows, rules, receipt, assigned, turns, desk>>
        /\ UNCHANGED <<rules, turns>> /\ UNCHANGED <<job, rows>> /\ UNCHANGED <<book, rows>>
    BY <1>1 DEF opsVars
  <2>2. /\ OpsTypeOK /\ JobAccounts /\ RowsAndLeads /\ NoNumberTwice /\ TurnsRotate
        /\ RulesSound /\ RowsSound /\ FromRows /\ CursorFollows
    BY InvParts
  <2>3. OpsTypeOK'
    BY <2>1, <2>2 DEF OpsTypeOK
  <2>4. /\ JobAccounts' /\ RowsSound' /\ RowsAndLeads' /\ FromRows' /\ NoNumberTwice'
        /\ RulesSound' /\ TurnsRotate' /\ CursorFollows'
    BY <2>1, <2>2, JobsFrame, LeadsFrame, RulesFrame
  <2> QED BY <2>3, <2>4 DEF OpsInv, ImportInv
<1>2. ASSUME NEW j \in Jobs, NEW f \in Uploads, PgPreview(j, f) \/ MemPreview(j, f) PROVE OpsInv'
  BY <1>2, StageKeeps DEF PgPreview, MemPreview
<1>3. ASSUME NEW j \in Jobs, NEW n \in 1..MaxAttempt, PgCommit(j, n) \/ MemCommit(j, n) PROVE OpsInv'
  BY <1>3, CommitKeeps DEF PgCommit, MemCommit
<1>4. ASSUME NEW a \in 1..MaxRuns, PgApply(a) \/ MemApply(a) PROVE OpsInv'
  BY <1>4, ApplyKeeps DEF PgApply, MemApply
<1>5. ASSUME Managers PROVE OpsInv'
  <2>1. desk < MaxDesk
    BY <1>5 DEF Managers
  <2>2. ASSUME NEW r \in Rules, NEW t \in BOOLEAN, NEW m \in Lineups, NEW s \in SUBSET Sources,
               CreateRule(r, m, s, t) \/ \E on \in BOOLEAN : UpdateRule(r, on, m, s, t)
        PROVE  OpsInv'
    BY <2>1, <2>2, CreateRuleKeeps, UpdateRuleKeeps
  <2>3. ASSUME NEW a \in Agents, SuspendEmployee(a) PROVE OpsInv'
    BY <2>1, <2>3, SuspendEmployeeKeeps
  <2>4. ASSUME NEW p \in Numbers, NEW q \in Numbers \cup {NoNumber}, NEW o \in Agents \cup {NoAgent},
               NEW s \in Sources, CreateLead(p, q, s, o)
        PROVE  OpsInv'
    BY <2>1, <2>4, CreateLeadKeeps
  <2>5. ASSUME NEW p \in Numbers, NEW q \in Numbers \cup {NoNumber}, NEW o \in Agents \cup {NoAgent},
               NEW l \in DOMAIN book, NEW gone \in BOOLEAN, UpdateLead(l, p, q, o, gone)
        PROVE  OpsInv'
    BY <2>1, <2>5, UpdateLeadKeeps
  <2>6. \/ \E r \in Rules, t \in BOOLEAN : \E m \in Lineups, s \in SUBSET Sources :
             CreateRule(r, m, s, t) \/ \E on \in BOOLEAN : UpdateRule(r, on, m, s, t)
        \/ \E a \in Agents : SuspendEmployee(a)
        \/ \E p \in Numbers, q \in Numbers \cup {NoNumber}, o \in Agents \cup {NoAgent} :
             \/ \E s \in Sources : CreateLead(p, q, s, o)
             \/ \E l \in DOMAIN book, gone \in BOOLEAN : UpdateLead(l, p, q, o, gone)
    BY <1>5 DEF Managers
  <2> QED BY <2>2, <2>3, <2>4, <2>5, <2>6
<1>6. CASE Server
  BY <1>2, <1>3, <1>4, <1>6 DEF Server
<1> QED BY <1>1, <1>5, <1>6 DEF OpsNext

\* The parts of the invariant hold together in every state (lead imports, rules, managers).
THEOREM OpsInvariant == OpsSpec => []OpsInv
<1>1. OpsInit => OpsInv
  BY StartHolds
<1>2. OpsInv /\ [OpsNext]_opsVars => OpsInv'
  BY StepKeeps
<1> QED BY <1>1, <1>2, PTL DEF OpsSpec

\* The counters of a job are what its rows are, and a row that says "imported" names the one lead
\* made from it, with the row's number unless a manager edited it, whatever is committed,
\* repeated or edited in between.
THEOREM ImportsAccounted == OpsSpec => []ImportInv
<1>1. OpsInv => ImportInv
  BY DEF OpsInv
<1> QED BY <1>1, OpsInvariant, PTL

\* Of the leads that are as the imports made them no team has two with one number, whatever
\* managers write into others in between.
THEOREM NumbersOnce == OpsSpec => []NoNumberTwice
<1>1. OpsInv => NoNumberTwice
  BY DEF OpsInv
<1> QED BY <1>1, OpsInvariant, PTL

\* A round-robin rule gives its members their turns in order.
THEOREM TurnsInOrder == OpsSpec => []TurnsRotate
<1>1. OpsInv => TurnsRotate
  BY DEF OpsInv
<1> QED BY <1>1, OpsInvariant, PTL

-------------------------------------------------------------------------------
(* Who is given a lead.                                                        *)

Given(leads) ==
  \A l \in DOMAIN leads :
    (leads[l].owner # NoAgent /\ (l \notin DOMAIN book \/ leads[l].owner # book[l].owner))
      => InTeam(leads[l].owner, leads[l].team)

LEMMA CommitGives ==
  ASSUME OpsInv, NEW j \in Jobs, NEW n, Commit(j, n) PROVE Given(book')
<1>1. (job[j].status = "completed" /\ book' = book) \/ Batched(j)
  BY DEF Commit, Batched
<1>2. CASE book' = book
  BY <1>2 DEF Given
<1>3. CASE Batched(j)
  <2>1. book' \in Seq(BookLead) /\ Grows(j, book')
    BY <1>3, BatchIs
  <2>2. /\ DOMAIN book = 1..Len(book) /\ DOMAIN book' = 1..Len(book')
        /\ Len(book) \in Nat /\ Len(book') \in Nat
    BY <2>1, BookIs, InvParts, LenProperties
  <2> SUFFICES ASSUME NEW l \in DOMAIN book', book'[l].owner # NoAgent,
                      l \notin DOMAIN book \/ book'[l].owner # book[l].owner
               PROVE  InTeam(book'[l].owner, book'[l].team)
    BY DEF Given
  <2>3. l \in 1..Len(book) \/ l \in Len(book) + 1..Len(book')
    BY <2>2
  <2> QED BY <2>1, <2>2, <2>3 DEF Grows
<1> QED BY <1>1, <1>2, <1>3

LEMMA ApplyGives ==
  ASSUME OpsInv, NEW a, Apply(a) PROVE Given(book')
<1>1. book' = Planned.book
  BY DEF Apply
<1>2. Planned \in PlanType /\ Assigns(Len(book), Planned.book)
  BY PlanEnds DEF PlanAcc
<1>3. DOMAIN book = DOMAIN book'
  BY <1>1, <1>2, PlanFields, BookIs, InvParts, LenProperties DEF Assigns
<1> QED BY <1>1, <1>2, <1>3 DEF Given, Assigns

LEMMA LeadEditGives ==
  ASSUME OpsInv, NEW l \in DOMAIN book, NEW new \in BookLead, book' = [book EXCEPT ![l] = new],
         new.owner # NoAgent => new.owner = book[l].owner \/ InTeam(new.owner, new.team)
  PROVE  Given(book')
<1>1. DOMAIN book' = DOMAIN book /\ book'[l] = new /\ \A k \in DOMAIN book : k # l => book'[k] = book[k]
  OBVIOUS
<1> QED BY <1>1 DEF Given

LEMMA ManagersGive ==
  ASSUME OpsInv, Managers PROVE Given(book')
<1>0. OpsTypeOK
  BY InvParts
<1>1. CASE book' = book
  BY <1>1 DEF Given
<1>2. ASSUME NEW p \in Numbers, NEW q \in Numbers \cup {NoNumber}, NEW o \in Agents \cup {NoAgent},
             NEW s \in Sources, CreateLead(p, q, s, o)
      PROVE  Given(book')
  <2> DEFINE lead == Entered(p, q, s, o)
  <2>1. book' = Append(book, lead) /\ o \in employed \cup {NoAgent}
    BY <1>2 DEF CreateLead, Entered
  <2>2. lead \in BookLead /\ (lead.owner # NoAgent => InTeam(lead.owner, lead.team))
    BY <1>0, <2>1, EnteredIs
  <2> HIDE DEF lead
  <2>3. book \in Seq(BookLead) /\ DOMAIN book = 1..Len(book) /\ Len(book) \in Nat
    BY <1>0, BookIs
  <2>4. /\ book' \in Seq(BookLead) /\ Len(book') = Len(book) + 1 /\ book'[Len(book) + 1] = lead
        /\ \A i \in 1..Len(book) : book'[i] = book[i]
    BY <2>1, <2>2, <2>3, AppendProperties
  <2>5. DOMAIN book' = 1..Len(book) + 1
    BY <2>4, LenProperties
  <2>6. \A l \in DOMAIN book' : l \in DOMAIN book \/ l = Len(book) + 1
    BY <2>3, <2>5
  <2> QED BY <2>2, <2>3, <2>4, <2>6 DEF Given
<1>3. ASSUME NEW p \in Numbers, NEW q \in Numbers \cup {NoNumber}, NEW o \in Agents \cup {NoAgent},
             NEW l \in DOMAIN book, NEW gone \in BOOLEAN, UpdateLead(l, p, q, o, gone)
      PROVE  Given(book')
  <2> DEFINE new == Edited(book[l], p, q, o, gone)
  <2>1. book' = [book EXCEPT ![l] = new] /\ (o # book[l].owner => o \in employed \cup {NoAgent})
    BY <1>3 DEF UpdateLead, Edited
  <2>2. new \in BookLead /\ (new.owner \in {NoAgent, book[l].owner} \/ InTeam(new.owner, new.team))
    BY <1>0, <2>1, EditedIs
  <2> HIDE DEF new
  <2> QED BY <2>1, <2>2, LeadEditGives
<1>4. \/ book' = book
      \/ \E p \in Numbers, q \in Numbers \cup {NoNumber}, o \in Agents \cup {NoAgent} :
           \/ \E s \in Sources : CreateLead(p, q, s, o)
           \/ \E l \in DOMAIN book, gone \in BOOLEAN : UpdateLead(l, p, q, o, gone)
  <2>1. ASSUME NEW r, NEW t, NEW m, NEW s,
               CreateRule(r, m, s, t) \/ \E on \in BOOLEAN : UpdateRule(r, on, m, s, t)
        PROVE  book' = book
    BY <2>1 DEF CreateRule, UpdateRule
  <2>2. ASSUME NEW a, SuspendEmployee(a) PROVE book' = book
    BY <2>2 DEF SuspendEmployee
  <2> QED BY <2>1, <2>2 DEF Managers
<1> QED BY <1>1, <1>2, <1>3, <1>4

LEMMA StepGives ==
  ASSUME OpsInv, [OpsNext]_opsVars PROVE Given(book')
<1>1. CASE book' = book
  BY <1>1 DEF Given
<1>2. \/ book' = book \/ Managers
      \/ \E j \in Jobs, n \in 1..MaxAttempt : Commit(j, n)
      \/ \E a \in 1..MaxRuns : Apply(a)
  BY DEF OpsNext, Server, opsVars, PgPreview, MemPreview, Stage, PgCommit, MemCommit, PgApply, MemApply
<1> QED BY <1>1, <1>2, CommitGives, ApplyGives, ManagersGive

\* Whoever is given a lead, by an import, a run of the rules or a manager, is active and of the
\* lead's team at that moment.
THEOREM GivenToTheTeam == OpsSpec => OwnersEligible
<1>1. OpsInv /\ [OpsNext]_opsVars =>
        [\A l \in DOMAIN book' :
           (book'[l].owner # NoAgent /\ (l \notin DOMAIN book \/ book'[l].owner # book[l].owner))
             => InTeam(book'[l].owner, book'[l].team)]_opsVars
  BY StepGives DEF Given
<1> QED BY <1>1, OpsInvariant, PTL DEF OpsSpec, OwnersEligible

-------------------------------------------------------------------------------
(* A row takes effect once.                                                    *)

\* What the book of leads holds for a row is told by the row's decision.
MadeFrom(leads, s) == Cardinality({l \in DOMAIN leads : leads[l].from = s})
Imported(staged, s) == s[2] \in DOMAIN staged[s[1]] /\ staged[s[1]][s[2]].decision = "imported"
LEMMA EffectIs ==
  ASSUME NEW leads, NEW staged, NEW j \in Jobs, NEW i, NEW s, s = <<j, i>>,
         \A k \in DOMAIN staged[j] :
           IF staged[j][k].decision = "imported"
           THEN staged[j][k].lead \in DOMAIN leads /\ leads[staged[j][k].lead].from = <<j, k>>
           ELSE staged[j][k].lead = 0,
         \A l \in DOMAIN leads : leads[l].from # <<>> =>
           /\ leads[l].from[2] \in DOMAIN staged[leads[l].from[1]]
           /\ staged[leads[l].from[1]][leads[l].from[2]].lead = l,
         0 \notin DOMAIN leads
  PROVE  MadeFrom(leads, s) = IF Imported(staged, s) THEN 1 ELSE 0
<1> DEFINE made == {l \in DOMAIN leads : leads[l].from = s}
<1>1. s # <<>> /\ s[1] = j /\ s[2] = i
  OBVIOUS
<1>2. \A l \in made : i \in DOMAIN staged[j] /\ staged[j][i].lead = l /\ l # 0
  BY <1>1
<1>3. CASE Imported(staged, s)
  <2>1. i \in DOMAIN staged[j] /\ staged[j][i].decision = "imported"
    BY <1>1, <1>3 DEF Imported
  <2>2. staged[j][i].lead \in made
    BY <2>1
  <2>3. made = {staged[j][i].lead}
    BY <1>2, <2>2
  <2>4. Cardinality(made) = 1
    BY <2>3, FS_Singleton
  <2> QED BY <1>3, <2>4 DEF MadeFrom
<1>4. CASE ~Imported(staged, s)
  <2>1. made = {}
    <3> SUFFICES ASSUME NEW l \in made PROVE FALSE
      OBVIOUS
    <3>1. i \in DOMAIN staged[j] /\ staged[j][i].lead = l /\ l # 0
      BY <1>2
    <3>2. staged[j][i].decision # "imported"
      BY <1>1, <1>4, <3>1 DEF Imported
    <3> QED BY <3>1, <3>2
  <2>2. Cardinality(made) = 0
    BY <2>1, FS_EmptySet
  <2> QED BY <1>4, <2>2 DEF MadeFrom
<1> QED BY <1>3, <1>4

LEMMA SlotIs ==
  ASSUME NEW s \in Slots
  PROVE  s[1] \in Jobs /\ s = <<s[1], s[2]>>
<1> DEFINE N == UNION {1..Len(f) : f \in Uploads}
<1>1. s \in {<<j, i>> : j \in Jobs, i \in N}
  BY DEF Slots
<1> HIDE DEF N
<1>2. PICK j \in Jobs, i \in N : s = <<j, i>>
  BY <1>1
<1> QED BY <1>2

LEMMA EffectNow ==
  ASSUME OpsInv, NEW s \in Slots
  PROVE  MadeFrom(book, s) = IF Imported(rows, s) THEN 1 ELSE 0
<1> DEFINE j == s[1]
<1>1. j \in Jobs /\ s = <<j, s[2]>>
  BY SlotIs
<1> HIDE DEF j
<1>2. RowsAndLeads /\ FromRows
  BY InvParts
<1>3. \A k \in DOMAIN rows[j] :
        IF rows[j][k].decision = "imported"
        THEN rows[j][k].lead \in DOMAIN book /\ book[rows[j][k].lead].from = <<j, k>>
        ELSE rows[j][k].lead = 0
  BY <1>1, <1>2 DEF RowsAndLeads
<1>4. \A l \in DOMAIN book : book[l].from # <<>> =>
        /\ book[l].from[2] \in DOMAIN rows[book[l].from[1]]
        /\ rows[book[l].from[1]][book[l].from[2]].lead = l
  BY <1>2 DEF RowsAndLeads, FromRows
<1>5. 0 \notin DOMAIN book
  BY InvParts, BookIs
<1> QED BY <1>1, <1>3, <1>4, <1>5, EffectIs

LEMMA EffectNext ==
  ASSUME OpsInv', NEW s \in Slots
  PROVE  MadeFrom(book', s) = IF Imported(rows', s) THEN 1 ELSE 0
<1> DEFINE j == s[1]
<1>1. j \in Jobs /\ s = <<j, s[2]>>
  BY SlotIs
<1> HIDE DEF j
<1>2. RowsAndLeads' /\ FromRows' /\ book' \in Seq(BookLead)
  BY DEF OpsInv, ImportInv, OpsTypeOK
<1>3. \A k \in DOMAIN rows'[j] :
        IF rows'[j][k].decision = "imported"
        THEN rows'[j][k].lead \in DOMAIN book' /\ book'[rows'[j][k].lead].from = <<j, k>>
        ELSE rows'[j][k].lead = 0
  BY <1>1, <1>2 DEF RowsAndLeads
<1>4. \A l \in DOMAIN book' : book'[l].from # <<>> =>
        /\ book'[l].from[2] \in DOMAIN rows'[book'[l].from[1]]
        /\ rows'[book'[l].from[1]][book'[l].from[2]].lead = l
  BY <1>2 DEF RowsAndLeads, FromRows
<1>5. 0 \notin DOMAIN book'
  BY <1>2, LenProperties
<1> QED BY <1>1, <1>3, <1>4, <1>5, EffectIs

\* A row that was settled stays as it was decided.
LEMMA SettledStay ==
  ASSUME OpsInv, [OpsNext]_opsVars, NEW j \in Jobs, NEW i \in DOMAIN rows[j], rows[j][i].decision # "valid"
  PROVE  i \in DOMAIN rows'[j] /\ rows'[j][i].decision = rows[j][i].decision
<1>1. \/ rows' = rows
      \/ \E q \in Jobs, f \in Uploads : Stage(q, f)
      \/ \E q \in Jobs, n \in 1..MaxAttempt : Commit(q, n)
  <2>1. CASE Server
    <3>1. ASSUME NEW q, NEW f, PgPreview(q, f) \/ MemPreview(q, f) PROVE Stage(q, f)
      BY <3>1 DEF PgPreview, MemPreview
    <3>2. ASSUME NEW q, NEW n, PgCommit(q, n) \/ MemCommit(q, n) PROVE Commit(q, n)
      BY <3>2 DEF PgCommit, MemCommit
    <3>3. ASSUME NEW a, PgApply(a) \/ MemApply(a) PROVE rows' = rows
      BY <3>3 DEF PgApply, MemApply, Apply
    <3> QED BY <2>1, <3>1, <3>2, <3>3 DEF Server
  <2>2. CASE Managers
    <3>1. AtDesk
      <4>1. ASSUME NEW r, NEW t, NEW m, NEW s,
                   CreateRule(r, m, s, t) \/ \E on \in BOOLEAN : UpdateRule(r, on, m, s, t)
            PROVE  AtDesk
        BY <4>1 DEF CreateRule, UpdateRule
      <4>2. ASSUME NEW a, SuspendEmployee(a) PROVE AtDesk
        BY <4>2 DEF SuspendEmployee
      <4>3. ASSUME NEW p, NEW q, NEW s, NEW o, CreateLead(p, q, s, o) PROVE AtDesk
        BY <4>3 DEF CreateLead
      <4>4. ASSUME NEW l, NEW p, NEW q, NEW o, NEW gone, UpdateLead(l, p, q, o, gone) PROVE AtDesk
        BY <4>4 DEF UpdateLead
      <4> QED BY <2>2, <4>1, <4>2, <4>3, <4>4 DEF Managers
    <3> QED BY <3>1 DEF AtDesk
  <2>3. CASE UNCHANGED opsVars
    BY <2>3 DEF opsVars
  <2> QED BY <2>1, <2>2, <2>3 DEF OpsNext
<1>2. ASSUME NEW q \in Jobs, NEW f \in Uploads, Stage(q, f)
      PROVE  i \in DOMAIN rows'[j] /\ rows'[j][i].decision = rows[j][i].decision
  <2>1. rows \in [Jobs -> Seq(Row)] /\ RowsSound
    BY InvParts DEF OpsTypeOK
  <2>2. job[q].status = "none" /\ rows' = [rows EXCEPT ![q] = Staged(f)]
    BY <1>2 DEF Stage
  <2>3. rows[q] = <<>>
    BY <2>1, <2>2 DEF RowsSound
  <2>4. q # j
    <3>1. DOMAIN rows[q] = {}
      BY <2>3
    <3> QED BY <3>1
  <2>5. rows'[j] = rows[j]
    BY <2>1, <2>2, <2>4
  <2> QED BY <2>5
<1>3. ASSUME NEW q \in Jobs, NEW n \in 1..MaxAttempt, Commit(q, n)
      PROVE  i \in DOMAIN rows'[j] /\ rows'[j][i].decision = rows[j][i].decision
  <2>1. rows' = rows \/ Batched(q)
    BY <1>3 DEF Commit, Batched
  <2>2. CASE Batched(q)
    BY <2>2, BatchIs
  <2> QED BY <2>1, <2>2
<1> QED BY <1>1, <1>2, <1>3

LEMMA StepSettles ==
  ASSUME OpsInv, OpsInv', [OpsNext]_opsVars PROVE Once!Settle
<1> DEFINE before == [s \in Slots |-> MadeFrom(book, s)]
           after  == [s \in Slots |-> MadeFrom(book', s)]
<1>0. Slots' = Slots
  BY DEF Slots
<1>1. ASSUME NEW s \in Settled PROVE s \in Settled'
  <2>1. s \in Slots /\ s[2] \in DOMAIN rows[s[1]] /\ rows[s[1]][s[2]].decision # "valid" /\ s[1] \in Jobs
    BY SlotIs DEF Settled, RowAt
  <2>2. s[2] \in DOMAIN rows'[s[1]] /\ rows'[s[1]][s[2]].decision # "valid"
    BY <2>1, SettledStay
  <2> QED BY <2>1, <2>2 DEF Settled, RowAt
<1>2. (Slots \ Settled)' \subseteq Slots \ Settled
  <2>1. (Slots \ Settled)' = Slots \ Settled'
    BY <1>0
  <2> QED BY <1>1, <2>1
<1>3. ASSUME NEW s \in Slots PROVE MadeFrom(book', s) \in 0..1
  BY <1>3, EffectNext
<1>4. ASSUME NEW s \in Slots, MadeFrom(book', s) # MadeFrom(book, s)
      PROVE  s \in Slots \ Settled /\ s \in Settled' /\ MadeFrom(book, s) = 0
  <2>0. s[1] \in Jobs
    BY SlotIs
  <2>1. /\ MadeFrom(book, s) = IF Imported(rows, s) THEN 1 ELSE 0
        /\ MadeFrom(book', s) = IF Imported(rows', s) THEN 1 ELSE 0
    BY EffectNow, EffectNext
  <2>2. ~Imported(rows, s)
    <3> SUFFICES ASSUME Imported(rows, s) PROVE FALSE
      OBVIOUS
    <3>1. Imported(rows', s)
      BY <2>0, SettledStay DEF Imported
    <3> QED BY <1>4, <2>1, <3>1
  <2>3. Imported(rows', s)
    BY <1>4, <2>1, <2>2
  <2>4. s \in Settled'
    BY <2>3 DEF Imported, Settled, RowAt
  <2>5. s \notin Settled
    <3> SUFFICES ASSUME s \in Settled PROVE FALSE
      OBVIOUS
    <3>1. s[2] \in DOMAIN rows[s[1]] /\ rows[s[1]][s[2]].decision # "valid"
      BY DEF Settled, RowAt
    <3>2. rows'[s[1]][s[2]].decision = rows[s[1]][s[2]].decision
      BY <2>0, <3>1, SettledStay
    <3> QED BY <2>2, <2>3, <3>1, <3>2 DEF Imported
  <2> QED BY <2>1, <2>2, <2>4, <2>5
<1>5. after \in [Slots -> 0..1]
  BY <1>3
<1>6. \A s \in Slots : after[s] # before[s] => s \in (Slots \ Settled) \ (Slots \ Settled)' /\ before[s] = 0
  BY <1>0, <1>4
<1> QED BY <1>0, <1>2, <1>5, <1>6 DEF Once!Settle, MadeFrom

\* Every row of a file has its effect, a lead, at most once, and none after it was settled.
THEOREM RowsOnce == OpsSpec => RowsTakeEffectOnce
<1>1. OpsInit => Once!Init
  <2> SUFFICES ASSUME OpsInit PROVE Once!Init
    OBVIOUS
  <2>1. Settled = {}
    BY SlotIs DEF OpsInit, Settled
  <2>2. \A s \in Slots : {l \in DOMAIN book : book[l].from = s} = {}
    BY DEF OpsInit
  <2>3. Cardinality({}) = 0
    BY FS_EmptySet
  <2> QED BY <2>1, <2>2, <2>3 DEF Once!Init
<1>2. OpsInv /\ OpsInv' /\ [OpsNext]_opsVars => Once!Settle
  BY StepSettles
<1> QED BY <1>1, <1>2, OpsInvariant, PTL DEF OpsSpec, RowsTakeEffectOnce, Once!Spec
===============================================================================
