------------------------------- MODULE StaffDesk -------------------------------
(***************************************************************************)
(* A browser tab on the lead workspace (useLeadData and the panels around  *)
(* it), talking to the API of Gateway.                                     *)
(*                                                                         *)
(* The list and the detail are fetched by effects: a new one aborts the    *)
(* last, so one of each is listened to at a time, and its answer may have  *)
(* been read at the server before a change that the tab already shows.     *)
(* The answer of a change carries the detail of its lead.  One step is one *)
(* callback of the event loop with the effects that it causes.             *)
(* Left out: dev mode, in which no token ends and an API out of reach is   *)
(* an error instead of the gate, and its demonstration data; what a row or *)
(* a detail holds besides its version; the other workspaces.               *)
(***************************************************************************)
EXTENDS Gateway

CONSTANTS
  Filters,        \* queries: the leads that each of them finds
  Presses,        \* routes that the panels of this tab use
  MaxMoves        \* bound: how often the user moves about: selects, filters, reloads, signs in or out

ASSUME DeskBounds == Presses \subseteq DOMAIN Table /\ MaxMoves \in Nat

VARIABLES
  session,        \* useAuth: "in", or "out" (any state that shows the gate)
  status, able,   \* dataSource.status; the permissions it shows
  filter,         \* search, queue, status and owner
  table,          \* allLeads: version of each, 0 if it is not listed
  selected,       \* selectedLeadId
  screen,         \* selectedDetail
  spin, failed,   \* detailLoading, detailError
  cache,          \* detailCacheRef
  list, detail,   \* the fetches that are listened to
  pending,        \* mutationControllersRef: calls that are listened to
  key,            \* applyRequestIdRef
  moves,          \* how often that was
  told            \* history: the newest version of each lead the tab was given

deskVars == <<session, status, able, filter, table, selected, screen, spin, failed, cache,
              list, detail, pending, key, moves, told>>
tabVars == <<gatewayVars, deskVars>>

NoRows == [l \in Leads |-> 0]
NoDetail == [of |-> 0, version |-> 0]
NoFetch  == [stage |-> "idle", found |-> NoRows]
NoLook   == [stage |-> "idle", of |-> 0, version |-> 0]
Fetching == [stage |-> "sent", found |-> NoRows]

DeskInit ==
  /\ GatewayInit
  /\ session = "in"
  /\ status = "loading" /\ able = FALSE
  /\ filter = Leads
  /\ table = NoRows /\ selected = 0 /\ screen = NoDetail
  /\ spin = FALSE /\ failed = FALSE /\ cache = NoRows
  /\ list = Fetching /\ detail = NoLook
  /\ pending = {} /\ key = 1 /\ moves = 0 /\ told = NoRows

-------------------------------------------------------------------------------
(* Signing in and out.                                                        *)

\* The gate replaces the workspace: everything it held is gone, every fetch aborted.
Unmount ==
  /\ session' = "out"
  /\ status' = "loading" /\ able' = FALSE
  /\ table' = NoRows /\ selected' = 0 /\ screen' = NoDetail
  /\ spin' = FALSE /\ failed' = FALSE /\ cache' = NoRows
  /\ list' = NoFetch /\ detail' = NoLook
  /\ pending' = {} /\ told' = NoRows
  /\ UNCHANGED filter

\* A fetch that goes wrong counts among the upsets.
Trouble == Upset /\ UNCHANGED <<grants, versions, call, taken, trail>>

Move == moves < MaxMoves /\ moves' = moves + 1

NewKey == key' = IF \E c \in Calls : call[c].key = key THEN key + 1 ELSE key

\* Signing out, or the timer of useAuth at the end of the token.
Leave == Move /\ session = "in" /\ Unmount /\ NewKey /\ UNCHANGED gatewayVars

SignIn ==
  /\ Move /\ session = "out"
  /\ session' = "in" /\ filter' = Leads /\ list' = Fetching
  /\ UNCHANGED <<gatewayVars, status, able, table, selected, screen, spin, failed, cache,
                 detail, pending, key, told>>

-------------------------------------------------------------------------------
(* The effects.                                                               *)

\* Of filter and refreshVersion: the running load is aborted, another one starts.
Reload == status' = "loading" /\ list' = Fetching

\* Of allLeads and selectedLeadId: the detail is fetched anew, the cached one shown meanwhile.
Detailed_Slip(sel, held) ==
  /\ screen' = IF sel = 0 THEN NoDetail
               ELSE IF held[sel] # 0 THEN [of |-> sel, version |-> held[sel]] ELSE screen
  /\ IF sel = selected THEN UNCHANGED <<spin, failed, detail>>
     ELSE spin' = (sel # 0) /\ failed' = FALSE
          /\ detail' = IF sel = 0 THEN NoLook ELSE [stage |-> "sent", of |-> sel, version |-> 0]
Detailed_SlipSpin(sel, held) ==
  /\ IF sel = 0 THEN screen' = NoDetail /\ UNCHANGED spin /\ detail' = NoLook
     ELSE /\ screen' = IF held[sel] # 0 THEN [of |-> sel, version |-> held[sel]] ELSE screen
          /\ spin' = TRUE /\ detail' = [stage |-> "sent", of |-> sel, version |-> 0]
  /\ failed' = FALSE
Detailed(sel, held) ==
  /\ IF sel = 0 THEN screen' = NoDetail /\ spin' = FALSE /\ detail' = NoLook
     ELSE /\ screen' = IF held[sel] # 0 THEN [of |-> sel, version |-> held[sel]] ELSE screen
          /\ spin' = TRUE /\ detail' = [stage |-> "sent", of |-> sel, version |-> 0]
  /\ failed' = FALSE

Newer(a, b) == IF a < b THEN b ELSE a

-------------------------------------------------------------------------------
(* Loading the list.                                                          *)

SetFilter(f) ==
  /\ Move /\ session = "in" /\ f # filter
  /\ filter' = f /\ Reload
  /\ UNCHANGED <<gatewayVars, session, able, table, selected, screen, spin, failed, cache,
                 detail, pending, key, told>>

Refresh ==
  /\ Move /\ session = "in"
  /\ cache' = NoRows /\ Reload
  /\ UNCHANGED <<gatewayVars, session, able, filter, table, selected, screen, spin, failed,
                 detail, pending, key, told>>

ListServed ==
  /\ list.stage = "sent"
  /\ list' = [stage |-> "served", found |-> [l \in Leads |-> IF l \in filter THEN versions[l] ELSE 0]]
  /\ UNCHANGED <<gatewayVars, session, status, able, filter, table, selected, screen, spin,
                 failed, cache, detail, pending, key, told, moves>>

\* The selected lead stays if it is listed, or else the first of the list, the newest, is selected.
Selection(found) ==
  LET listed == {l \in Leads : found[l] # 0}
  IN  IF selected \in listed THEN selected
      ELSE IF listed = {} THEN 0
      ELSE CHOOSE l \in listed : \A m \in listed : m <= l

ListShown ==
  /\ list.stage = "served"
  /\ status' = "live" /\ able' = TRUE
  /\ table' = list.found
  /\ selected' = Selection(list.found)
  /\ told' = [l \in Leads |-> Newer(told[l], list.found[l])]
  /\ list' = NoFetch
  /\ Detailed(selected', cache)
  /\ UNCHANGED <<gatewayVars, session, filter, cache, pending, key, moves>>

\* An unusable token ends the session; anything but a refusal shows the gate as well.
ListEndsSession == list.stage # "idle" /\ Trouble /\ Unmount /\ NewKey /\ UNCHANGED moves

\* What remains: the role may not read leads.
ListFails ==
  /\ list.stage # "idle" /\ Trouble
  /\ status' = "live" /\ able' = FALSE
  /\ table' = NoRows /\ list' = NoFetch
  /\ Detailed(selected, cache)
  /\ UNCHANGED <<session, filter, selected, cache, pending, key, told, moves>>

-------------------------------------------------------------------------------
(* The detail.                                                                *)

Select(l) ==
  /\ Move /\ session = "in" /\ table[l] # 0 /\ l # selected
  /\ selected' = l
  /\ Detailed(l, cache)
  /\ UNCHANGED <<gatewayVars, session, status, able, filter, table, cache, list, pending, key, told>>

DetailServed ==
  /\ detail.stage = "sent"
  /\ detail' = [detail EXCEPT !.stage = "served", !.version = versions[detail.of]]
  /\ UNCHANGED <<gatewayVars, session, status, able, filter, table, selected, screen, spin,
                 failed, cache, list, pending, key, told, moves>>

DetailShown ==
  /\ detail.stage = "served"
  /\ cache' = [cache EXCEPT ![detail.of] = detail.version]
  /\ screen' = [of |-> detail.of, version |-> detail.version]
  /\ told' = [told EXCEPT ![detail.of] = Newer(@, detail.version)]
  /\ spin' = FALSE /\ detail' = NoLook
  /\ UNCHANGED <<gatewayVars, session, status, able, filter, table, selected, failed, list, pending, key, moves>>

DetailFails ==
  /\ detail.stage # "idle" /\ Trouble
  /\ failed' = TRUE /\ spin' = FALSE /\ detail' = NoLook
  /\ UNCHANGED <<session, status, able, filter, table, selected, screen, cache,
                 list, pending, key, told, moves>>

DetailEndsSession == detail.stage # "idle" /\ Trouble /\ Unmount /\ NewKey /\ UNCHANGED moves

-------------------------------------------------------------------------------
(* Changes.                                                                   *)

Target(r)  == IF Table[r].effect \in {"updates", "touches"} \/ r = "addNote" THEN screen.of ELSE 0
Expects(r) == IF Table[r].effect = "updates" THEN screen.version ELSE 0
KeyOf(r)   == IF Table[r].effect = "once" THEN key ELSE 0

\* A panel waits for its own answer: one call of each route is listened to.
Press(c, r) ==
  /\ session = "in" /\ able
  /\ \A d \in pending : call[d].route # r
  /\ (Table[r].effect \in {"updates", "touches"} \/ r = "addNote") => screen.of # 0
  /\ Post(c, r, Target(r), Expects(r), KeyOf(r))
  /\ pending' = pending \cup {c}
  /\ UNCHANGED <<grants, versions, taken, trail, upsets, session, status, able, filter, table,
                 selected, screen, spin, failed, cache, list, detail, key, told, moves>>

\* storeDetail: of the lead that was changed, wherever the tab is now.
StoreDetail(l, v) ==
  /\ cache' = [cache EXCEPT ![l] = v]
  /\ table' = [table EXCEPT ![l] = v]
  /\ selected' = l
  /\ told' = [told EXCEPT ![l] = Newer(@, v)]
  /\ Detailed(l, cache')
  /\ UNCHANGED <<status, list, key>>

\* The panel loads the workspace again, and draws another request id.
Applied ==
  /\ cache' = NoRows /\ Reload
  /\ key' = key + 1
  /\ UNCHANGED <<table, selected, told, screen, spin, failed, detail>>

\* The answers that change what the workspace shows.
Shows(c) == call[c].target # 0 \/ call[c].route \in {"applyRules", "commitImport"}

Ended == {"recorded", "refused", "broken"}

\* The answer of a change; an error is only shown, and so is what else was added.
Hear(c) ==
  /\ call[c].stage \in Ended
  /\ Moves(c, "closed")
  /\ pending' = pending \ {c}
  /\ \/ c \in pending /\ At(c, "recorded") /\ call[c].target # 0 /\ StoreDetail(call[c].target, call[c].version)
     \/ c \in pending /\ At(c, "recorded") /\ call[c].route \in {"applyRules", "commitImport"} /\ Applied
     \/ /\ ~(c \in pending /\ At(c, "recorded") /\ Shows(c))
        /\ UNCHANGED <<status, table, selected, screen, spin, failed, cache, list, detail, key, told>>
  /\ UNCHANGED <<grants, versions, taken, trail, upsets, session, able, filter, moves>>

\* A panel that is closed and opened again has forgotten the id it used.
Reopen ==
  /\ Move /\ session = "in" /\ NewKey /\ key' # key
  /\ UNCHANGED <<gatewayVars, session, status, able, filter, table, selected, screen, spin,
                 failed, cache, list, detail, pending, told>>

Tab ==
  \/ Leave \/ SignIn
  \/ \E f \in Filters : SetFilter(f)
  \/ Refresh \/ ListServed \/ ListShown \/ ListEndsSession
  \/ ListFails
  \/ \E l \in Leads : Select(l)
  \/ DetailServed \/ DetailShown \/ DetailFails \/ DetailEndsSession
  \/ \E c \in Calls, r \in Presses : Press(c, r)
  \/ \E c \in Calls : Hear(c)
  \/ Reopen

DeskNext == Tab \/ (GatewayNext /\ UNCHANGED deskVars)
DeskSpec == DeskInit /\ [][DeskNext]_tabVars

-------------------------------------------------------------------------------
(* Properties.                                                                *)

DeskTypeOK ==
  /\ GatewayTypeOK
  /\ session \in {"in", "out"}
  /\ status \in {"loading", "live"} /\ able \in BOOLEAN
  /\ table \in [Leads -> Nat] /\ cache \in [Leads -> Nat] /\ told \in [Leads -> Nat]
  /\ selected \in Leads \cup {0}
  /\ screen \in [of : Leads \cup {0}, version : Nat]
  /\ spin \in BOOLEAN /\ failed \in BOOLEAN
  /\ list.stage \in {"idle", "sent", "served"} /\ detail.stage \in {"idle", "sent", "served"}
  /\ pending \subseteq Calls /\ key \in Nat /\ moves \in 0..MaxMoves

\* The types, and the two spinners tell the truth: whatever is aborted, superseded or fails, the
\* workspace says that it is loading exactly while an answer is on the way that will end it
\* (useLeadData 102-197, 224-249), and nothing is listened to behind the gate.
DeskInv ==
  /\ DeskTypeOK
  /\ session = "in" => /\ status = "loading" <=> list.stage # "idle"
                       /\ spin <=> detail.stage # "idle"
  /\ session = "out" => list.stage = "idle" /\ detail.stage = "idle" /\ pending = {}

\* Once everything is answered, the panel shows the selected lead, and not an older version of it
\* than the tab was ever given: not after answers of changes in the wrong order, a list that was
\* read before a change and arrives after it, a cached detail, or a selection moved meanwhile.
\* (Its row may be older: the list is not fetched again.  Nor does it hold if the fetch failed.)
AtRest == session = "in" /\ list.stage = "idle" /\ detail.stage = "idle" /\ pending = {}
AtRestFresh ==
  (AtRest /\ selected # 0 /\ ~failed)
    => screen.of = selected /\ screen.version >= told[selected]
================================================================================
