------------------------------ MODULE MCBackOffice ------------------------------
(* The rest of the server and the dashboard for TLC, in four parts that share *)
(* no state, so that a behaviour is of one of them: "desk", a browser tab and *)
(* the requests it sends (StaffDesk); "bulk", the server's imports and        *)
(* assignment rules (LeadOps), with two employees of one team and one of      *)
(* another, and two files that share numbers; "keys", two servers, a process  *)
(* of the key tool and two calls (CallPii); "phones", one phone and its       *)
(* employee on the in-memory repository (MemTrust).  While a part is not      *)
(* played it stands in one of its initial states.                             *)
EXTENDS LeadOps, StaffDesk, CallPii, MemTrust, TLC
CONSTANTS Ann, Bob, Cyd, Web, n1, n2, n3, Dee
VARIABLE part

TeamOfAgents == Ann :> 1 @@ Bob :> 1 @@ Cyd :> 2

Line(formed, number, alternate, owner) ==
  [formed |-> formed, number |-> number, alternate |-> alternate, owner |-> owner, source |-> Web]

Morning == <<Line(TRUE, n1, NoNumber, NoAgent), Line(FALSE, n1, NoNumber, NoAgent),
             Line(TRUE, n2, NoNumber, NoAgent), Line(TRUE, n3, n1, NoAgent)>>
Evening == <<Line(TRUE, n3, n2, NoAgent), Line(TRUE, n1, NoNumber, Cyd)>>
Files   == {Morning, Evening}

Manager == {"leads.read", "leads.manage", "leads.assign", "reports.export"}
Queries == {{1, 2}, {2}}

\* Request ids are interchangeable, and so are pairing codes: both are drawn in order.
\* The last id is kept for a code or a confirmation, so that two rotations can be prepared and confirmed.
\* Two policies are explored with what four ids can do, six ids with one policy.
Used     == {i \in Tokens : done[i] # Undone} \cup {m.req : m \in open}
FreshIds ==
  /\ \A i \in Used' \ Used, j \in Tokens \ Used : i <= j
  /\ \A m \in open' : (\A i \in Tokens : i <= m.req) => m.op = "confirm"
  /\ terms' <= 1 \/ Cardinality(Used') <= 4
  /\ \A k \in Tickets : ticket'[k].state # "none" => \A j \in Tickets : j < k => ticket[j].state # "none"

\* Bound: a manager's edit changes one thing about a lead, a new lead has one number, and the
\* one number that managers write is a number of both files.  Rules are for the one source of all.
Fields    == {"number", "alternate", "owner", "archived"}
OneChange == desk' # desk =>
  /\ \A r \in Rules : rules'[r].exists => rules'[r].sources = Sources
  /\ \A l \in DOMAIN book' \ DOMAIN book : book'[l].number = n1 /\ book'[l].alternate = NoNumber
  /\ \A l \in DOMAIN book : book'[l] # book[l] =>
       /\ Cardinality({f \in Fields : book'[l][f] # book[l][f]}) = 1
       /\ book'[l].number \in {book[l].number, n1}
       /\ book'[l].alternate \in {book[l].alternate, n1, NoNumber}

\* Bound: of two desk steps one at most is on leads, unless it restores one.
OneEdit == (desk = 1 /\ desk' = 2 /\ book' # book) =>
  \/ employed # Agents \/ \E r \in Rules : rules[r].exists
  \/ \E l \in DOMAIN book : book[l].archived /\ ~book'[l].archived

\* Bound: of the tab's two requests one is an update, or both are of one route.
Sent     == {c \in Calls : call'[c].stage # "none"}
OneRoute == \A c, d \in Sent : "updateLead" \in {call'[c].route, call'[d].route} \/ call'[c].route = call'[d].route

Init ==
  /\ OpsInit /\ DeskInit /\ PiiInit /\ TrustInit
  /\ part \in {"desk", "bulk", "keys", "phones"}
  /\ part # "bulk"   => store = "memory"
  /\ part # "keys"   => pii = [r \in Sealables |-> Absent]
  /\ part # "phones" => standing = [e \in Staff |-> "active"]

Next ==
  /\ part' = part
  /\ \/ part = "desk"   /\ DeskNext  /\ OneRoute
                         /\ UNCHANGED <<opsVars, piiVars, trustVars>>
     \/ part = "bulk"   /\ OpsNext   /\ OneChange /\ OneEdit
                         /\ UNCHANGED <<tabVars, piiVars, trustVars>>
     \/ part = "keys"   /\ PiiNext   /\ UNCHANGED <<tabVars, opsVars, trustVars>>
     \/ part = "phones" /\ TrustNext /\ FreshIds
                         /\ UNCHANGED <<tabVars, opsVars, piiVars>>

Spec == Init /\ [][Next]_<<opsVars, tabVars, piiVars, trustVars, part>>

Symmetry == Permutations({Ann, Bob}) \cup Permutations(Jobs)
================================================================================
