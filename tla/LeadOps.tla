-------------------------------- MODULE LeadOps --------------------------------
(***************************************************************************)
(* Lead imports and assignment rules: the server behind the dashboard's    *)
(* import and rules panels.                                                *)
(*                                                                         *)
(* A file is staged as a job whose rows are decided (valid, duplicate,     *)
(* invalid); each commit of the job imports its next Batch valid rows,     *)
(* after looking at everything again.  A rule hands leads to its members   *)
(* in turn, on an import or on a run over the unassigned leads.  Every     *)
(* request has an id under which its answer is recorded; a panel that lost *)
(* an answer, or was loaded anew, asks again under the id it kept or under *)
(* a new one, and any request may be executed late: the requests executed  *)
(* are all there is to the panels.                                         *)
(*                                                                         *)
(* The server is started on one of two repositories, and both are here:    *)
(* PostgreSQL, whose transactions lock what they read in one order and so  *)
(* are single steps, and the in-memory one.  They share the rows' life;    *)
(* where they differ there are two operators, Pg... and Mem...             *)
(* Names, e-mail and statuses are payload: a row says only whether it is   *)
(* well formed.  No code deactivates a status.  The number of a rule is    *)
(* its priority, which stays.  The roles' scopes are left out.             *)
(* Operators named X_Slip are plausible slips in X.                        *)
(***************************************************************************)
EXTENDS Naturals, Sequences, FiniteSets, FiniteSetsExt, SequencesExt

CONSTANTS
  Stores,              \* the repositories considered, of "postgres" and "memory"
  Numbers, NoNumber,   \* phone numbers
  Agents, NoAgent,     \* employees
  AgentTeam,           \* the team of each, teams being numbered in the order of their names
  HomeTeam,            \* the team of the employee created first
  Sources,             \* sources of leads; an import's own unless the row names one
  Rules, NoRule,       \* assignment rules, by priority
  Uploads,             \* files: sequences of rows as they were parsed
  Jobs,                \* request ids of previews, each a job once staged
  Batch,               \* rows per commit, 50
  MaxAttempt,          \* bound: commits asked for per job
  MaxRuns,             \* bound: assignment runs
  MaxDesk              \* bound: steps of managers on rules, employees and leads

Input == [formed : BOOLEAN, number : Numbers, alternate : Numbers \cup {NoNumber},
          owner : Agents \cup {NoAgent}, source : Sources]

ASSUME OpsNulls == NoNumber \notin Numbers /\ NoAgent \notin Agents /\ NoRule \notin Rules
ASSUME OpsSets ==
  /\ Rules \subseteq Nat /\ IsFiniteSet(Rules) /\ IsFiniteSet(Jobs)
  /\ AgentTeam \in [Agents -> Nat \ {0}] /\ HomeTeam \in Nat /\ IsFiniteSet(Agents)
  /\ Stores \subseteq {"postgres", "memory"}
  /\ Uploads \subseteq Seq(Input)
ASSUME OpsBounds ==
  Batch \in Nat \ {0} /\ MaxAttempt \in Nat /\ MaxRuns \in Nat /\ MaxDesk \in Nat

VARIABLES
  store,               \* the repository the server was started on
  employed,            \* employees whose status is active
  book,                \* leads, in the order they were created
  job, rows,           \* lead_import_jobs, lead_import_rows
  rules,               \* lead_assignment_rules and their members
  receipt,             \* recorded answers to commits
  assigned,            \* recorded answers to assignment runs
  turns,               \* history: whom each rule chose since it was last edited
  desk                 \* what MaxDesk has allowed so far

opsVars == <<store, employed, book, job, rows, rules, receipt, assigned, turns, desk>>

OpsTeams  == {AgentTeam[a] : a \in Agents} \cup {HomeTeam}
Decisions == {"valid", "duplicate", "invalid", "imported"}
NoJob     == [status |-> "none", total |-> 0, valid |-> 0, duplicate |-> 0, error |-> 0,
              imported |-> 0, processed |-> 0]
NoReceipt == [status |-> "none", processed |-> 0]
NewRule   == [exists |-> FALSE, active |-> FALSE, team |-> HomeTeam, sources |-> {},
              turning |-> FALSE, members |-> <<>>, cursor |-> 0, version |-> 0]

OpsInit ==
  /\ store \in Stores
  /\ employed = Agents
  /\ book = <<>>
  /\ job = [j \in Jobs |-> NoJob] /\ rows = [j \in Jobs |-> <<>>]
  /\ rules = [r \in Rules |-> NewRule]
  /\ receipt = [j \in Jobs |-> [n \in 1..MaxAttempt |-> NoReceipt]]
  /\ assigned = {}
  /\ turns = [r \in Rules |-> <<>>]
  /\ desk = 0

-------------------------------------------------------------------------------
(* Rules and duplicates.                                                      *)

InTeam(a, team) == a \in employed /\ AgentTeam[a] = team

\* A rule counts while it is active and every member is, in its team.
AnyMember_Slip(r) == rules[r].active /\ \E i \in DOMAIN rules[r].members : TRUE
Usable(r) ==
  /\ rules[r].active
  /\ rules[r].members # <<>>
  /\ \A i \in DOMAIN rules[r].members : InTeam(rules[r].members[i], rules[r].team)

\* The source stands for all the conditions.
Matches(r, team, source) ==
  rules[r].team = team /\ (rules[r].sources = {} \/ source \in rules[r].sources)

FirstRule(fit) == IF fit = {} THEN NoRule ELSE Min(fit)

Chosen(r, won) ==
  rules[r].members[IF rules[r].turning THEN ((rules[r].cursor + won) % Len(rules[r].members)) + 1
                   ELSE 1]

PhonesOf(x) == {x.number, x.alternate} \ {NoNumber}

\* The lead of the team that has one of the row's numbers, 0 if none.
SameBook_Slip(leads, team, x) == 0
Existing(leads, team, x) ==
  LET hits == {l \in DOMAIN leads : /\ leads[l].team = team /\ ~leads[l].archived
                                    /\ PhonesOf(leads[l]) \cap PhonesOf(x) # {}}
  IN  IF hits = {} THEN 0 ELSE Min(hits)

-------------------------------------------------------------------------------
(* Staging a file.                                                            *)

\* Where a row without an owner goes: 0 is nowhere.
DefaultTeam ==
  LET staffed == IF store = "postgres" THEN OpsTeams ELSE {AgentTeam[a] : a \in employed}
  IN  IF staffed = {} THEN 0 ELSE Min(staffed)

\* previewLeadImport's decision on one row: only importable rows reserve numbers.
Decide(x, reserved) ==
  LET named   == x.owner # NoAgent
      team    == IF named /\ x.owner \in employed THEN AgentTeam[x.owner] ELSE DefaultTeam
      invalid == ~x.formed \/ (named /\ x.owner \notin employed) \/ team = 0
      inFile  == \/ \E p \in PhonesOf(x) : <<team, p>> \in reserved
                 \/ x.alternate = x.number
      known   == IF invalid \/ inFile THEN 0 ELSE Existing(book, team, x)
  IN  [decision |-> IF invalid THEN "invalid" ELSE IF inFile \/ known # 0 THEN "duplicate" ELSE "valid",
       team     |-> team]

\* The rule for a valid row without an owner; the cursor moves only in the preview.
Proposed(x, team, won) ==
  LET r == FirstRule({q \in Rules : Usable(q) /\ Matches(q, team, x.source)})
  IN  IF x.owner # NoAgent THEN [rule |-> NoRule, owner |-> x.owner]
      ELSE IF r = NoRule   THEN [rule |-> NoRule, owner |-> NoAgent]
      ELSE [rule |-> r, owner |-> Chosen(r, won[r])]

StageRow(acc, x) ==
  LET d == Decide(x, acc.reserved)
      p == IF d.decision = "valid" THEN Proposed(x, d.team, acc.won)
           ELSE [rule |-> NoRule, owner |-> NoAgent]
      turn == p.rule # NoRule /\ rules[p.rule].turning
  IN  [rows |-> Append(acc.rows,
         [input |-> x, decision |-> d.decision, team |-> d.team, owner |-> p.owner, rule |-> p.rule,
          seen |-> IF p.rule = NoRule \/ store = "memory" THEN 0 ELSE rules[p.rule].version,
          lead |-> 0]),
       won  |-> IF turn THEN [acc.won EXCEPT ![p.rule] = @ + 1] ELSE acc.won,
       reserved |-> acc.reserved \cup
         (IF d.decision = "valid" THEN {<<d.team, q>> : q \in PhonesOf(x)} ELSE {})]

NoneWon == [r \in Rules |-> 0]

NothingStaged == [rows |-> <<>>, won |-> NoneWon, reserved |-> {}]
Staged(file) ==
  LET after[k \in 0..Len(file)] == IF k = 0 THEN NothingStaged ELSE StageRow(after[k - 1], file[k])
  IN  after[Len(file)].rows

Decided(staged, what) == Cardinality({i \in DOMAIN staged : staged[i].decision = what})

\* The job's row is written with its rows: the request id names the job, and a repeated
\* preview finds it.
Stage(j, file) ==
  LET staged == Staged(file) IN
  /\ job[j].status = "none"
  /\ rows' = [rows EXCEPT ![j] = staged]
  /\ job' = [job EXCEPT ![j] =
       [status |-> "preview_ready", total |-> Len(staged), valid |-> Decided(staged, "valid"),
        duplicate |-> Decided(staged, "duplicate"), error |-> Decided(staged, "invalid"),
        imported |-> 0, processed |-> Len(staged) - Decided(staged, "valid")]]
  /\ UNCHANGED <<store, employed, book, rules, receipt, assigned, turns, desk>>

PgPreview(j, file)  == store = "postgres" /\ Stage(j, file)
MemPreview(j, file) == store = "memory"   /\ Stage(j, file)

-------------------------------------------------------------------------------
(* Committing a job: the rows are looked at again, in order.  The accumulator *)
(* holds the leads, the rows' outcomes and what each rule has given.          *)

ValidRows(j) == {i \in DOMAIN rows[j] : rows[j][i].decision = "valid"}
NextRows(j) ==
  {i \in ValidRows(j) : Cardinality({k \in ValidRows(j) : k <= i}) <= Batch}

\* The new lead of a row.
NewLead(x, team, owner, from) ==
  [number |-> x.number, alternate |-> x.alternate, team |-> team, owner |-> owner,
   source |-> x.source, archived |-> FALSE, handled |-> FALSE, from |-> from]

Invalidate(acc, i) == [acc EXCEPT !.rows[i].decision = "invalid"]
Duplicate(acc, i)  == [acc EXCEPT !.rows[i].decision = "duplicate"]
Import_Slip(acc, i, lead) == [acc EXCEPT !.book = Append(@, lead)]
Import(acc, i, lead) ==
  LET r == acc.rows[i].rule IN
  [book  |-> Append(acc.book, lead),
   rows  |-> [acc.rows EXCEPT ![i] = [@ EXCEPT !.decision = "imported", !.lead = Len(acc.book) + 1]],
   won   |-> IF r # NoRule /\ rules[r].turning THEN [acc.won EXCEPT ![r] = @ + 1] ELSE acc.won,
   given |-> IF r # NoRule THEN [acc.given EXCEPT ![r] = Append(@, lead.owner)] ELSE acc.given]

\* PostgreSQL: a row staged on another version of its rule is refused, whatever changed.
Restaged(row) == row.rule # NoRule /\ rules[row.rule].version # row.seen

PgRow(j, acc, i) ==
  LET row   == acc.rows[i]
      ruled == row.rule # NoRule
      owner == IF ruled THEN Chosen(row.rule, acc.won[row.rule]) ELSE row.owner
  IN  IF \/ Restaged(row)
         \/ ruled /\ ~(rules[row.rule].active /\ Matches(row.rule, row.team, row.input.source))
      THEN Invalidate(acc, i)
      ELSE IF Existing(acc.book, row.team, row.input) # 0 THEN Duplicate(acc, i)
      ELSE IF \/ ruled /\ ~Usable(row.rule)
              \/ ~ruled /\ row.owner # NoAgent /\ ~InTeam(row.owner, row.team)
      THEN Invalidate(acc, i)
      ELSE Import(acc, i, NewLead(row.input, row.team, owner, <<j, i>>))

\* In memory: the rule as it is now decides; a lead without an owner joins HomeTeam.
MemRow(j, acc, i) ==
  LET row   == acc.rows[i]
      ruled == row.rule # NoRule
      owner == IF ruled THEN Chosen(row.rule, acc.won[row.rule]) ELSE row.owner
      team  == IF owner = NoAgent THEN HomeTeam ELSE AgentTeam[owner]
  IN  IF Existing(acc.book, row.team, row.input) # 0 THEN Duplicate(acc, i)
      ELSE IF \/ ruled /\ ~(Usable(row.rule) /\ Matches(row.rule, row.team, row.input.source))
              \/ ~ruled /\ row.owner # NoAgent /\ row.owner \notin employed
      THEN Invalidate(acc, i)
      ELSE Import(acc, i, NewLead(row.input, team, owner, <<j, i>>))

NoneGiven == [r \in Rules |-> <<>>]
CommitRow(j, acc, i) ==
  IF i \notin NextRows(j)    THEN acc
  ELSE IF store = "postgres" THEN PgRow(j, acc, i)
  ELSE MemRow(j, acc, i)

Uncommitted(j) == [book |-> book, rows |-> rows[j], won |-> NoneWon, given |-> NoneGiven]
Committed(j) ==
  LET after[k \in 0..Len(rows[j])] == IF k = 0 THEN Uncommitted(j) ELSE CommitRow(j, after[k - 1], k)
  IN  after[Len(rows[j])]

\* Rules that gave leads in turn move on, and their version with them.
Advanced_Slip(won) == [r \in Rules |-> IF won[r] = 0 THEN rules[r]
                                       ELSE [rules[r] EXCEPT !.version = @ + 1]]
Advanced(won) ==
  [r \in Rules |-> IF won[r] = 0 THEN rules[r]
                   ELSE [rules[r] EXCEPT !.cursor = @ + won[r], !.version = @ + 1]]

Remember(given) == turns' = [r \in Rules |-> turns[r] \o given[r]]

\* Only the rows of this job follow the rule's new version.
Realigned(staged, won) ==
  [i \in DOMAIN staged |->
     IF staged[i].decision = "valid" /\ staged[i].rule # NoRule /\ won[staged[i].rule] # 0 /\ store = "postgres"
     THEN [staged[i] EXCEPT !.seen = rules[staged[i].rule].version + 1]
     ELSE staged[i]]

Tally_Slip(j, after) ==
  [job[j] EXCEPT !.status = IF Decided(after, "valid") = 0 THEN "completed" ELSE "interrupted",
                 !.imported = Decided(after, "imported"),
                 !.processed = @ + Batch]
Tally(j, after) ==
  LET new(what) == Decided(after, what) - Decided(rows[j], what)
      settled   == Decided(rows[j], "valid") - Decided(after, "valid")
  IN  [job[j] EXCEPT !.status = IF Decided(after, "valid") = 0 THEN "completed" ELSE "interrupted",
                     !.imported = @ + new("imported"),
                     !.duplicate = @ + new("duplicate"),
                     !.error = @ + new("invalid"),
                     !.valid = @ - new("duplicate") - new("invalid"),
                     !.processed = @ + settled]

\* A request whose answer is recorded is answered from the record.
Unanswered(j, n) == receipt[j][n] = NoReceipt

Commit(j, n) ==
  /\ job[j].status # "none"
  /\ Unanswered(j, n)
  /\ IF job[j].status = "completed"
     THEN UNCHANGED <<book, rows, rules, job, turns>>
     ELSE \E done \in {Committed(j)} :
            /\ book' = done.book
            /\ rows' = [rows EXCEPT ![j] = Realigned(done.rows, done.won)]
            /\ rules' = Advanced(done.won)
            /\ job' = [job EXCEPT ![j] = Tally(j, done.rows)]
            /\ Remember(done.given)
  /\ receipt' = [receipt EXCEPT ![j][n] =
                   [status |-> job'[j].status, processed |-> job'[j].processed]]
  /\ UNCHANGED <<store, employed, assigned, desk>>

PgCommit(j, n)  == store = "postgres" /\ Commit(j, n)
MemCommit(j, n) == store = "memory"   /\ Commit(j, n)

-------------------------------------------------------------------------------
(* A run of the rules over the unassigned leads.                              *)

AssignLead(acc, l) ==
  LET lead == book[l]
      r == FirstRule({q \in Rules : Usable(q) /\ Matches(q, lead.team, lead.source)})
  IN  IF lead.owner # NoAgent \/ lead.archived \/ r = NoRule THEN acc
      ELSE LET who == Chosen(r, acc.won[r]) IN
           [book  |-> [acc.book EXCEPT ![l].owner = who],
            won   |-> IF rules[r].turning THEN [acc.won EXCEPT ![r] = @ + 1] ELSE acc.won,
            given |-> [acc.given EXCEPT ![r] = Append(@, who)]]

Unplanned == [book |-> book, won |-> NoneWon, given |-> NoneGiven]
Planned ==
  LET after[l \in 0..Len(book)] == IF l = 0 THEN Unplanned ELSE AssignLead(after[l - 1], l)
  IN  after[Len(book)]

Apply(a) ==
  /\ a \notin assigned
  /\ \E plan \in {Planned} :
       book' = plan.book /\ rules' = Advanced(plan.won) /\ Remember(plan.given)
  /\ assigned' = assigned \cup {a}
  /\ UNCHANGED <<store, employed, job, rows, receipt, desk>>

PgApply(a)  == store = "postgres" /\ Apply(a)
MemApply(a) == store = "memory"   /\ Apply(a)

-------------------------------------------------------------------------------
(* Managers.  A change on a stale version is refused and changes nothing.     *)

AtDesk ==
  /\ desk' = desk + 1
  /\ UNCHANGED <<store, job, rows, receipt, assigned>>

\* The members of a rule: active, of one team, and one only for a fixed owner.
Eligible(members, turning) ==
  /\ members # <<>>
  /\ Cardinality(ToSet(members)) = Len(members)
  /\ \A i \in DOMAIN members : InTeam(members[i], AgentTeam[members[1]])
  /\ turning \/ Len(members) = 1

CreateRule(r, members, sources, turning) ==
  /\ ~rules[r].exists /\ Eligible(members, turning)
  /\ rules' = [rules EXCEPT ![r] =
       [exists |-> TRUE, active |-> TRUE, team |-> AgentTeam[members[1]], sources |-> sources,
        turning |-> turning, members |-> members, cursor |-> 0, version |-> 1]]
  /\ AtDesk /\ UNCHANGED <<employed, book, turns>>

\* The team of a rule never changes, and its members must be eligible whatever is edited.
UpdateRule(r, active, members, sources, turning) ==
  LET rule == [rules[r] EXCEPT !.active = active, !.members = members, !.sources = sources,
                               !.turning = turning, !.version = @ + 1] IN
  /\ rules[r].exists
  /\ Eligible(members, turning)
  /\ AgentTeam[members[1]] = rules[r].team
  /\ rules' = [rules EXCEPT ![r] = rule]
  /\ turns' = IF <<members, turning>> = <<rules[r].members, rules[r].turning>> THEN turns
              ELSE [turns EXCEPT ![r] = <<>>]
  /\ AtDesk /\ UNCHANGED <<employed, book>>

\* For good: nothing makes a paused employee active again.
SuspendEmployee(a) ==
  /\ a \in employed
  /\ employed' = employed \ {a}
  /\ AtDesk /\ UNCHANGED <<book, rules, turns>>

\* createLead looks for no other lead with the number.
CreateLead(number, alternate, source, owner) ==
  LET team == IF owner # NoAgent THEN AgentTeam[owner]
              ELSE IF store = "memory" THEN HomeTeam ELSE DefaultTeam
      x    == [number |-> number, alternate |-> alternate, source |-> source]
  IN
  /\ owner \in employed \cup {NoAgent}
  /\ book' = Append(book, NewLead(x, team, owner, <<>>))
  /\ AtDesk /\ UNCHANGED <<employed, rules, turns>>

\* updateLead on the current version, nor does it.  What an edit leaves out stays; the team
\* follows a new owner.  A lead is handled once it has other numbers, another team, was
\* archived or restored: it is no longer what an import made of it.
UpdateLead(l, number, alternate, owner, archived) ==
  LET old  == book[l]
      team == IF owner \in {NoAgent, old.owner} THEN old.team ELSE AgentTeam[owner]
      same == <<number, alternate, team, archived>>
                = <<old.number, old.alternate, old.team, old.archived>>
  IN
  /\ owner # old.owner => owner \in employed \cup {NoAgent}
  /\ book' = [book EXCEPT ![l] =
       [old EXCEPT !.number = number, !.alternate = alternate, !.owner = owner, !.team = team,
                   !.archived = archived, !.handled = @ \/ ~same]]
  /\ AtDesk /\ UNCHANGED <<employed, rules, turns>>

-------------------------------------------------------------------------------
Server ==
  \/ \E j \in Jobs, f \in Uploads : PgPreview(j, f) \/ MemPreview(j, f)
  \/ \E j \in Jobs, n \in 1..MaxAttempt : PgCommit(j, n) \/ MemCommit(j, n)
  \/ \E a \in 1..MaxRuns : PgApply(a) \/ MemApply(a)

\* Sequences of members, in the positions a manager gives them.
Lineups == UNION {SetToSeqs(S) : S \in SUBSET Agents \ {{}}}

Managers ==
  /\ desk < MaxDesk
  /\ \/ \E r \in Rules, t \in BOOLEAN : \E m \in {m \in Lineups : Eligible(m, t)}, s \in SUBSET Sources :
          CreateRule(r, m, s, t) \/ \E on \in BOOLEAN : UpdateRule(r, on, m, s, t)
     \/ \E a \in Agents : SuspendEmployee(a)
     \/ \E p \in Numbers, q \in Numbers \cup {NoNumber}, o \in Agents \cup {NoAgent} :
          \/ \E s \in Sources : CreateLead(p, q, s, o)
          \/ \E l \in DOMAIN book, gone \in BOOLEAN : UpdateLead(l, p, q, o, gone)

OpsNext == Server \/ Managers
OpsSpec == OpsInit /\ [][OpsNext]_opsVars

-------------------------------------------------------------------------------
(* Properties.                                                                *)

Row == [input : Input, decision : Decisions, team : OpsTeams \cup {0}, owner : Agents \cup {NoAgent},
        rule : Rules \cup {NoRule}, seen : Nat, lead : Nat]
BookLead == [number : Numbers, alternate : Numbers \cup {NoNumber}, team : OpsTeams,
             owner : Agents \cup {NoAgent}, source : Sources, archived : BOOLEAN,
             handled : BOOLEAN, from : {<<>>} \cup (Jobs \X Nat)]

OpsTypeOK ==
  /\ store \in Stores /\ employed \subseteq Agents
  /\ book \in Seq(BookLead)
  /\ job \in [Jobs -> [status : {"none", "preview_ready", "interrupted", "completed"}, total : Nat,
                       valid : Nat, duplicate : Nat, error : Nat, imported : Nat, processed : Nat]]
  /\ rows \in [Jobs -> Seq(Row)]
  /\ rules \in [Rules -> [exists : BOOLEAN, active : BOOLEAN, team : OpsTeams, sources : SUBSET Sources,
                          turning : BOOLEAN, members : Seq(Agents), cursor : Nat,
                          version : Nat]]
  /\ receipt \in [Jobs -> [1..MaxAttempt -> [status : {"none", "interrupted", "completed"}, processed : Nat]]]
  /\ assigned \subseteq 1..MaxRuns
  /\ turns \in [Rules -> Seq(Agents)]
  /\ desk \in 0..MaxDesk

\* The counters of a job say what its rows are, and it is completed when none is left.
JobAccounts ==
  \A j \in Jobs : job[j].status # "none" =>
    /\ job[j].total = Len(rows[j])
    /\ job[j].valid = Decided(rows[j], "valid") + Decided(rows[j], "imported")
    /\ job[j].duplicate = Decided(rows[j], "duplicate")
    /\ job[j].error = Decided(rows[j], "invalid")
    /\ job[j].imported = Decided(rows[j], "imported")
    /\ job[j].processed = job[j].total - Decided(rows[j], "valid")
    /\ job[j].status = "completed" => ValidRows(j) = {}
    /\ job[j].status = "interrupted" => ValidRows(j) # {}

\* A row says "imported" exactly if there is a lead made from it, and names that lead, which
\* has the row's number until a manager gives it another.
RowsAndLeads ==
  /\ \A j \in Jobs : \A i \in DOMAIN rows[j] :
       LET row == rows[j][i] IN
       IF row.decision = "imported"
       THEN row.lead \in DOMAIN book /\ book[row.lead].from = <<j, i>>
            /\ (~book[row.lead].handled => book[row.lead].number = row.input.number)
       ELSE row.lead = 0
  /\ \A l \in DOMAIN book : book[l].from # <<>> =>
       rows[book[l].from[1]][book[l].from[2]].lead = l

\* What a job reports (importedRows, errorRows, status, the error file) is what happened to
\* its rows, through bounded commits, resumes, repeated requests and rules that change.
ImportInv == OpsTypeOK /\ JobAccounts /\ RowsAndLeads

\* Imports never give a team two leads with one number, though two jobs may be staged
\* before either is committed: of the leads that are as the imports made them.  A manager may
\* give a lead a number that another has, restore it or move it: nothing is looked up then.
\* (In memory a lead without an owner may join another team than its row was checked in.)
AsStaged(l) == /\ book[l].from # <<>> /\ ~book[l].handled /\ ~book[l].archived
               /\ book[l].team = rows[book[l].from[1]][book[l].from[2]].team
NoNumberTwice ==
  \A l, m \in DOMAIN book :
    (l # m /\ AsStaged(l) /\ AsStaged(m) /\ book[l].team = book[m].team) =>
      PhonesOf(book[l]) \cap PhonesOf(book[m]) = {}

\* A round-robin rule gives its members their turns in order, over imports of several jobs,
\* their batches and runs of assignment, however these interleave.
Following(members, a) ==
  LET i == CHOOSE k \in DOMAIN members : members[k] = a
  IN  members[(i % Len(members)) + 1]
TurnsRotate ==
  \A r \in Rules : rules[r].turning =>
    \A i \in 1..Len(turns[r]) - 1 : turns[r][i + 1] = Following(rules[r].members, turns[r][i])

\* Whoever is given a lead is active and of the lead's team at that moment, although owner and
\* rule were chosen when the file was staged and people leave in between.
OwnersEligible ==
  [][\A l \in DOMAIN book' :
       (book'[l].owner # NoAgent /\ (l \notin DOMAIN book \/ book'[l].owner # book[l].owner))
         => InTeam(book'[l].owner, book'[l].team)]_opsVars

\* Every row of a file has its effect, a lead, at most once, and none after it was settled.
Slots == {<<j, i>> : j \in Jobs, i \in UNION {1..Len(f) : f \in Uploads}}
RowAt(s) == rows[s[1]][s[2]]
Settled == {s \in Slots : s[2] \in DOMAIN rows[s[1]] /\ RowAt(s).decision # "valid"}
Once == INSTANCE ExactlyOnce WITH
          Items   <- Slots,
          open    <- Slots \ Settled,
          effects <- [s \in Slots |-> Cardinality({l \in DOMAIN book : book[l].from = s})]
RowsTakeEffectOnce == Once!Spec
================================================================================
