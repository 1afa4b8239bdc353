---------------------------- MODULE StaffDesk_proofs ----------------------------
(* Theorems about the dashboard's requests and its tab for every set of requests, *)
(* leads, routes, permissions and filters, and every bound.                       *)
EXTENDS StaffDesk, FiniteSetTheorems, WellFoundedInduction, TLAPS

(* The stages before an effect, or without one; those after the audit record; and *)
(* the requests that a ledger makes happen once.                                  *)
Early   == {"none", "sent", "admitted", "looked", "refused"}
Settled == {"recorded", "closed", "broken"}
Once(c) == Of(c).effect = "once"

\* What an effect left behind: a flag, a new version, and the ledger's row if it happens once.
EffectsAgree ==
  \A c \in Calls :
    /\ call[c].stage \in Early => ~call[c].took /\ ~call[c].replayed
    /\ call[c].stage \in {"done", "recorded"} => call[c].took \/ (call[c].replayed /\ Once(c))
    /\ call[c].took => ~call[c].replayed
    /\ (call[c].took /\ Once(c)) => Named(c) \in taken
    /\ (call[c].took /\ Of(c).effect = "updates") => call[c].version = call[c].before + 1

OneEffectPerKey ==
  \A c, d \in Calls : (call[c].took /\ call[d].took /\ Once(c) /\ Named(c) = Named(d)) => c = d

\* Versions only grow, so what was read or expected of a lead is not ahead of it.
ReadsAgree ==
  \A c \in Calls :
    /\ call[c].target # 0 => call[c].version <= versions[call[c].target]
    /\ (call[c].stage # "none" /\ Of(c).effect \in {"updates", "touches"}) => call[c].target # 0
    /\ (call[c].stage # "none" /\ Of(c).effect = "updates") => call[c].expects <= versions[call[c].target]
    /\ call[c].stage = "looked" => /\ Of(c).effect = "updates"
                                   /\ call[c].expects <= call[c].before
                                   /\ call[c].before <= versions[call[c].target]

TrailAgrees ==
  /\ \A e \in trail : /\ Effective(e.of) /\ call[e.of].stage \in Settled
                      /\ e.old = call[e.of].before /\ e.new = call[e.of].version
  /\ \A c \in Calls : (At(c, "recorded") /\ Effective(c) /\ Of(c).audited # "never") => Entries(c) # {}

GateInv == GatewayTypeOK /\ EffectsAgree /\ OneEffectPerKey /\ ReadsAgree /\ TrailAgrees

\* The fetches are about the selected lead, nothing that the tab holds is ahead of the server,
\* an answer that was read is not older than what the tab was told, and neither is what it
\* shows once its detail is there.
FetchStages == {"idle", "sent", "served"}
FetchTypeOK ==
  /\ list \in [stage : FetchStages, found : [Leads -> Nat]]
  /\ detail \in [stage : FetchStages, of : Leads \cup {0}, version : Nat]

HoldsNoFuture ==
  /\ \A l \in Leads : cache[l] <= versions[l] /\ told[l] <= versions[l] /\ list.found[l] <= versions[l]
  /\ screen.of # 0 => screen.version <= versions[screen.of]
  /\ detail.of # 0 => detail.version <= versions[detail.of]

DetailFollows ==
  /\ detail.stage # "idle" => detail.of = selected /\ selected # 0
  /\ detail.stage = "served" => told[detail.of] <= detail.version
  /\ session = "out" => selected = 0 /\ status = "loading" /\ ~spin
  /\ (detail.stage = "idle" /\ selected # 0 /\ ~failed) => screen.of = selected /\ told[selected] <= screen.version
-------------------------------------------------------------------------------
(* The table of routes.                                                        *)
RowOK(r) == /\ r.effect \in {"creates", "updates", "touches", "adds", "once"}
            /\ r.audited \in {"always", "first", "assigned", "never"}
            /\ r.effect = "once" <=> r.audited \in {"first", "assigned"}
TableOK(f) == \A x \in DOMAIN f : RowOK(f[x]) /\ (f[x].audited = "assigned" <=> x = "applyRules")

LEMMA JoinedRows ==
  ASSUME NEW f, NEW g, TableOK(f), TableOK(g)
  PROVE  TableOK(With(f, g))
BY DEF With, TableOK

\* Every route is in one of the tables, and what happens once is audited once, a run of the
\* rules if it assigned a lead.
LEMMA TableRows == TableOK(Table)
<1>1. TableOK(LeadRoutes)
  BY DEF Route, RowOK, TableOK, LeadRoutes
<1>2. TableOK(ImportRoutes) /\ TableOK(RuleRoutes)
  BY DEF Route, RowOK, TableOK, ImportRoutes, RuleRoutes
<1>3. TableOK(PeopleRoutes) /\ TableOK(ReportRoutes) /\ TableOK(KeyRoutes)
  BY DEF Route, RowOK, TableOK, PeopleRoutes, ReportRoutes, KeyRoutes
<1> QED BY <1>1, <1>2, <1>3, JoinedRows DEF Table
-------------------------------------------------------------------------------
(* The requests.                                                              *)
CallRecord == [stage : Stages, route : DOMAIN Table, target : Leads \cup {0}, expects : Nat,
               key : Nat, before : Nat, version : Nat, took : BOOLEAN, replayed : BOOLEAN,
               applied : BOOLEAN]

LEMMA CallFields ==
  ASSUME GatewayTypeOK, NEW c \in Calls
  PROVE  /\ call[c] \in CallRecord /\ call[c].stage \in Stages /\ call[c].route \in DOMAIN Table
         /\ call[c].target \in Leads \cup {0} /\ call[c].expects \in Nat /\ call[c].key \in Nat
         /\ call[c].before \in Nat /\ call[c].version \in Nat
         /\ call[c].took \in BOOLEAN /\ call[c].replayed \in BOOLEAN /\ call[c].applied \in BOOLEAN
         /\ RowOK(Of(c)) /\ (Of(c).audited = "assigned" <=> call[c].route = "applyRules")
         /\ 0 \notin Leads /\ Named(c) \in (DOMAIN Table) \X Nat
<1>1. call[c] \in CallRecord
  BY DEF GatewayTypeOK, CallRecord
<1>2. /\ call[c].stage \in Stages /\ call[c].route \in DOMAIN Table
      /\ call[c].target \in Leads \cup {0} /\ call[c].expects \in Nat /\ call[c].key \in Nat
      /\ call[c].before \in Nat /\ call[c].version \in Nat
      /\ call[c].took \in BOOLEAN /\ call[c].replayed \in BOOLEAN /\ call[c].applied \in BOOLEAN
  BY <1>1 DEF CallRecord
<1>3. 0 \notin Leads
  BY GatewayBounds DEF Leads
<1> QED BY <1>1, <1>2, <1>3, TableRows DEF TableOK, Of, Named

\* What a request is, apart from how far it has come.
Kept(c) == /\ call'[c].route = call[c].route /\ call'[c].target = call[c].target
           /\ call'[c].expects = call[c].expects /\ call'[c].key = call[c].key
           /\ call'[c].before = call[c].before /\ call'[c].version = call[c].version
           /\ call'[c].took = call[c].took /\ call'[c].replayed = call[c].replayed
           /\ call'[c].applied = call[c].applied

Grows == \A l \in Leads : versions[l] <= versions'[l]

LEMMA StaysBehind ==
  ASSUME GatewayTypeOK, GatewayTypeOK', Grows, NEW l \in Leads, NEW n \in Nat, n <= versions[l]
  PROVE  n <= versions'[l]
<1>1. versions[l] \in Nat /\ versions'[l] \in Nat
  BY DEF GatewayTypeOK
<1> QED BY <1>1 DEF Grows

LEMMA NothingGrows ==
  ASSUME GatewayTypeOK, UNCHANGED versions
  PROVE  Grows
<1>1. \A l \in Leads : versions[l] \in Nat
  BY DEF GatewayTypeOK
<1> QED BY <1>1 DEF Grows

LEMMA UpsetType ==
  ASSUME GatewayTypeOK, Upset
  PROVE  upsets' \in 0..MaxUpsets
BY GatewayBounds DEF GatewayTypeOK, Upset

\* Requests move on, fail or are answered, without a new effect.
LEMMA StagesMove ==
  ASSUME GateInv, GatewayTypeOK', Grows, UNCHANGED <<taken, trail>>,
         \A c \in Calls : Kept(c),
         \A c \in Calls : \/ call'[c].stage = call[c].stage
                          \/ /\ call[c].stage \in {"sent", "admitted", "looked"}
                             /\ call'[c].stage \in {"admitted", "refused", "broken"}
                          \/ /\ call[c].stage \in {"done", "refused"} \cup Settled
                             /\ call'[c].stage \in {"broken", "closed"}
  PROVE  GateInv'
<1>0. GatewayTypeOK
  BY DEF GateInv
<1>1. \A c \in Calls : (Of(c))' = Of(c) /\ (Named(c))' = Named(c) /\ ((Once(c))' <=> Once(c))
  BY DEF Kept, Of, Named, Once
<1>2. EffectsAgree'
  <2>1. ASSUME NEW c \in Calls
        PROVE  /\ call'[c].stage \in Early => ~call'[c].took /\ ~call'[c].replayed
               /\ call'[c].stage \in {"done", "recorded"} => call'[c].took \/ (call'[c].replayed /\ (Once(c))')
               /\ call'[c].took => ~call'[c].replayed
               /\ (call'[c].took /\ (Once(c))') => (Named(c))' \in taken'
               /\ (call'[c].took /\ (Of(c))'.effect = "updates") => call'[c].version = call'[c].before + 1
    <3>1. call'[c].stage \in Early => call[c].stage \in Early
      BY DEF Early, Settled
    <3>2. call'[c].stage \in {"done", "recorded"} => call[c].stage \in {"done", "recorded"}
      OBVIOUS
    <3> QED BY <1>1, <3>1, <3>2 DEF GateInv, EffectsAgree, Kept
  <2> QED BY <2>1 DEF EffectsAgree
<1>3. OneEffectPerKey'
  BY <1>1 DEF GateInv, OneEffectPerKey, Kept
<1>4. ReadsAgree'
  <2>1. ASSUME NEW c \in Calls
        PROVE  /\ call'[c].target # 0 => call'[c].version <= versions'[call'[c].target]
               /\ (call'[c].stage # "none" /\ (Of(c))'.effect \in {"updates", "touches"}) => call'[c].target # 0
               /\ (call'[c].stage # "none" /\ (Of(c))'.effect = "updates") => call'[c].expects <= versions'[call'[c].target]
               /\ call'[c].stage = "looked" => /\ (Of(c))'.effect = "updates"
                                               /\ call'[c].expects <= call'[c].before
                                               /\ call'[c].before <= versions'[call'[c].target]
    <3>1. /\ call'[c].stage # "none" => call[c].stage # "none"
          /\ call'[c].stage = "looked" => call[c].stage = "looked"
      BY DEF Settled
    <3>2. \A n \in Nat : (call[c].target # 0 /\ n <= versions[call[c].target]) => n <= versions'[call[c].target]
      BY <1>0, CallFields, StaysBehind
    <3>3. call[c].version \in Nat /\ call[c].expects \in Nat /\ call[c].before \in Nat
      BY <1>0, CallFields
    <3> QED BY <1>1, <3>1, <3>2, <3>3 DEF GateInv, ReadsAgree, Kept
  <2> QED BY <2>1 DEF ReadsAgree
<1>5. TrailAgrees'
  <2>1. \A e \in trail : e.of \in Calls /\ call'[e.of].stage \in Settled
    <3>1. \A e \in trail : e.of \in Calls /\ call[e.of].stage \in Settled
      BY <1>0 DEF GatewayTypeOK, GateInv, TrailAgrees
    <3> QED BY <3>1 DEF Settled
  <2>2. \A c \in Calls : (At(c, "recorded"))' => At(c, "recorded")
    BY DEF At
  <2>3. \A c \in Calls : (Entries(c))' = Entries(c)
    BY DEF Entries
  <2>4. \A c \in Calls : (Effective(c))' <=> Effective(c)
    BY DEF Effective, Kept
  <2> QED BY <1>1, <2>1, <2>2, <2>3, <2>4 DEF GateInv, TrailAgrees, Kept
<1> QED BY <1>2, <1>3, <1>4, <1>5 DEF GateInv

LEMMA MovedFields ==
  ASSUME GatewayTypeOK, NEW c \in Calls, NEW stage \in Stages, Moves(c, stage)
  PROVE  /\ call' \in [Calls -> CallRecord] /\ call'[c].stage = stage
         /\ \A d \in Calls : Kept(d) /\ (d # c => call'[d] = call[d])
<1> DEFINE new == [call[c] EXCEPT !.stage = stage]
<1>1. call \in [Calls -> CallRecord] /\ call' = [call EXCEPT ![c] = new]
  BY DEF GatewayTypeOK, CallRecord, Moves
<1>2. /\ new \in CallRecord /\ new.stage = stage
      /\ new.route = call[c].route /\ new.target = call[c].target
      /\ new.expects = call[c].expects /\ new.key = call[c].key
      /\ new.before = call[c].before /\ new.version = call[c].version
      /\ new.took = call[c].took /\ new.replayed = call[c].replayed /\ new.applied = call[c].applied
  BY CallFields DEF CallRecord
<1> HIDE DEF new
<1>3. call' \in [Calls -> CallRecord] /\ call'[c] = new /\ \A d \in Calls : d # c => call'[d] = call[d]
  BY <1>1, <1>2
<1> QED BY <1>2, <1>3 DEF Kept

\* What the dashboard is told, and what is refused or fails on the way.
LEMMA MoveKeeps ==
  ASSUME GateInv, NEW c \in Calls, NEW stage \in Stages, Moves(c, stage),
         \/ call[c].stage \in {"sent", "admitted", "looked"} /\ stage \in {"admitted", "refused", "broken"}
         \/ call[c].stage \in {"done", "refused"} \cup Settled /\ stage \in {"broken", "closed"},
         UNCHANGED <<grants, versions, taken, trail>>,
         upsets' \in 0..MaxUpsets
  PROVE  GateInv' /\ Grows
<1>0. GatewayTypeOK
  BY DEF GateInv
<1>1. GatewayTypeOK'
  BY <1>0, MovedFields DEF GatewayTypeOK, CallRecord
<1>2. Grows
  BY <1>0, NothingGrows
<1> QED BY <1>0, <1>1, <1>2, MovedFields, StagesMove

\* A request has its effect: nobody else had it under the same id, and the lead it shows exists.
LEMMA EffectHappens ==
  ASSUME GateInv, GatewayTypeOK', Grows, NEW c \in Calls, Ready(c), UNCHANGED trail, taken \subseteq taken',
         \A d \in Calls : d # c => call'[d] = call[d],
         call'[c].stage = "done", call'[c].route = call[c].route, call'[c].key = call[c].key,
         call'[c].expects = call[c].expects, call'[c].before = call[c].before,
         call'[c].took \/ (call'[c].replayed /\ Once(c)), call'[c].took => ~call'[c].replayed,
         (call'[c].took /\ Once(c)) => (Named(c) \in taken' /\ Named(c) \notin taken),
         (call'[c].took /\ Of(c).effect = "updates") => call'[c].version = call[c].before + 1,
         call'[c].target # 0 => call'[c].version <= versions'[call'[c].target],
         Of(c).effect \in {"updates", "touches"} => (call'[c].target = call[c].target /\ call[c].target # 0)
  PROVE  GateInv'
<1>0. GatewayTypeOK /\ call[c].stage \in {"admitted", "looked"} /\ ~call[c].took
  BY DEF GateInv, Ready, At, EffectsAgree, Early
<1>1. \A d \in Calls : (Of(d))' = Of(d) /\ (Named(d))' = Named(d) /\ ((Once(d))' <=> Once(d))
  BY DEF Of, Named, Once
<1>2. EffectsAgree'
  <2>1. \A d \in Calls : d # c =>
          /\ call'[d].stage \in Early => ~call'[d].took /\ ~call'[d].replayed
          /\ call'[d].stage \in {"done", "recorded"} => call'[d].took \/ (call'[d].replayed /\ (Once(d))')
          /\ call'[d].took => ~call'[d].replayed
          /\ (call'[d].took /\ (Once(d))') => (Named(d))' \in taken'
          /\ (call'[d].took /\ (Of(d))'.effect = "updates") => call'[d].version = call'[d].before + 1
    BY <1>1 DEF GateInv, EffectsAgree
  <2>2. /\ call'[c].stage \notin Early
        /\ call'[c].stage \in {"done", "recorded"} => call'[c].took \/ (call'[c].replayed /\ (Once(c))')
        /\ call'[c].took => ~call'[c].replayed
        /\ (call'[c].took /\ (Once(c))') => (Named(c))' \in taken'
        /\ (call'[c].took /\ (Of(c))'.effect = "updates") => call'[c].version = call'[c].before + 1
    BY <1>1 DEF Early
  <2> QED BY <2>1, <2>2 DEF EffectsAgree
<1>3. OneEffectPerKey'
  <2>1. \A d \in Calls : (call[d].took /\ Once(d)) => Named(d) \in taken
    BY DEF GateInv, EffectsAgree
  <2>2. \A d \in Calls : Named(d) = Named(c) => (Once(d) <=> Once(c))
    BY DEF Named, Once, Of
  <2>3. ASSUME NEW d \in Calls, NEW e \in Calls, call'[d].took, call'[e].took, Once(d), Named(d) = Named(e)
        PROVE  d = e
    <3>1. CASE d # c /\ e # c
      BY <2>3, <3>1 DEF GateInv, OneEffectPerKey
    <3>2. CASE d = c /\ e # c
      BY <2>1, <2>2, <2>3, <3>2
    <3>3. CASE d # c /\ e = c
      BY <2>1, <2>2, <2>3, <3>3
    <3> QED BY <3>1, <3>2, <3>3
  <2> QED BY <1>1, <2>3 DEF OneEffectPerKey
<1>4. ReadsAgree'
  <2>1. ASSUME NEW d \in Calls
        PROVE  /\ call'[d].target # 0 => call'[d].version <= versions'[call'[d].target]
               /\ (call'[d].stage # "none" /\ (Of(d))'.effect \in {"updates", "touches"}) => call'[d].target # 0
               /\ (call'[d].stage # "none" /\ (Of(d))'.effect = "updates") => call'[d].expects <= versions'[call'[d].target]
               /\ call'[d].stage = "looked" => /\ (Of(d))'.effect = "updates"
                                               /\ call'[d].expects <= call'[d].before
                                               /\ call'[d].before <= versions'[call'[d].target]
    <3>1. \A n \in Nat : (call[d].target # 0 /\ n <= versions[call[d].target]) => n <= versions'[call[d].target]
      BY <1>0, CallFields, StaysBehind
    <3>2. call[d].version \in Nat /\ call[d].expects \in Nat /\ call[d].before \in Nat
      BY <1>0, CallFields
    <3>3. CASE d # c
      BY <1>1, <3>1, <3>2, <3>3 DEF GateInv, ReadsAgree
    <3>4. CASE d = c
      BY <1>0, <1>1, <3>1, <3>2, <3>4 DEF GateInv, ReadsAgree
    <3> QED BY <3>3, <3>4
  <2> QED BY <2>1 DEF ReadsAgree
<1>5. TrailAgrees'
  <2>1. \A e \in trail : e.of \in Calls /\ e.of # c
    BY <1>0 DEF GatewayTypeOK, GateInv, TrailAgrees, Settled
  <2>2. \A d \in Calls : (At(d, "recorded"))' => At(d, "recorded") /\ d # c
    BY DEF At
  <2>3. \A d \in Calls : (Entries(d))' = Entries(d)
    BY DEF Entries
  <2>4. \A d \in Calls : d # c => ((Effective(d))' <=> Effective(d))
    BY DEF Effective
  <2> QED BY <1>1, <2>1, <2>2, <2>3, <2>4 DEF GateInv, TrailAgrees
<1> QED BY <1>2, <1>3, <1>4, <1>5 DEF GateInv

LEMMA ReadyCall ==
  ASSUME GateInv, NEW c \in Calls, Ready(c)
  PROVE  /\ call[c].stage \in {"admitted", "looked"} /\ ~call[c].took /\ ~call[c].replayed
         /\ Of(c).effect = "updates" => call[c].stage = "looked"
BY DEF GateInv, Ready, At, EffectsAgree, Early

\* Of a nonempty set of naturals, the least.
LEMMA LeastOf ==
  ASSUME NEW S \in SUBSET Nat, S # {}
  PROVE  \E x \in S : \A y \in S : x <= y
<1>1. PICK x \in S : \A y \in S : ~(<<y, x>> \in OpToRel(<, Nat))
  BY NatLessThanWellFounded, WFMin
<1>2. \A y \in S : x <= y
  <2> TAKE y \in S
  <2>1. ~(<<y, x>> \in OpToRel(<, Nat))
    BY <1>1
  <2>2. x \in Nat /\ y \in Nat
    OBVIOUS
  <2>3. ~(y < x)
    BY <2>1, <2>2 DEF OpToRel
  <2> QED BY <2>2, <2>3
<1> QED BY <1>2

LEMMA DoneFields ==
  ASSUME GatewayTypeOK, NEW c \in Calls, NEW target \in Leads, NEW version \in Nat, Does(c, target, version)
  PROVE  /\ call' \in [Calls -> CallRecord] /\ versions' \in [Leads -> Nat] /\ versions'[target] = version
         /\ \A d \in Calls : d # c => call'[d] = call[d]
         /\ \A l \in Leads : l # target => versions'[l] = versions[l]
         /\ call'[c].stage = "done" /\ call'[c].took /\ call'[c].target = target /\ call'[c].version = version
         /\ call'[c].route = call[c].route /\ call'[c].key = call[c].key /\ call'[c].expects = call[c].expects
         /\ call'[c].before = call[c].before /\ call'[c].replayed = call[c].replayed
<1> DEFINE new == [call[c] EXCEPT !.stage = "done", !.took = TRUE, !.target = target, !.version = version]
<1>1. call \in [Calls -> CallRecord] /\ call' = [call EXCEPT ![c] = new]
  BY DEF GatewayTypeOK, CallRecord, Does
<1>2. /\ new \in CallRecord /\ new.stage = "done" /\ new.took /\ new.target = target /\ new.version = version
      /\ new.route = call[c].route /\ new.key = call[c].key /\ new.expects = call[c].expects
      /\ new.before = call[c].before /\ new.replayed = call[c].replayed
  BY CallFields DEF CallRecord, Stages
<1> HIDE DEF new
<1>3. call' \in [Calls -> CallRecord] /\ call'[c] = new /\ \A d \in Calls : d # c => call'[d] = call[d]
  BY <1>1, <1>2
<1>4. /\ versions' \in [Leads -> Nat] /\ versions'[target] = version
      /\ \A l \in Leads : l # target => versions'[l] = versions[l]
  BY DEF GatewayTypeOK, Does
<1> QED BY <1>2, <1>3, <1>4

\* A lead gets a version that is not older, by a request that does not happen once only.
LEMMA DoesKeeps ==
  ASSUME GateInv, NEW c \in Calls, NEW target \in Leads, NEW version \in Nat, Does(c, target, version),
         Ready(c), ~Once(c), versions[target] <= version,
         Of(c).effect \in {"updates", "touches"} => target = call[c].target,
         Of(c).effect = "updates" => version = call[c].before + 1,
         UNCHANGED <<grants, taken, trail, upsets>>
  PROVE  GateInv' /\ Grows
<1>0. GatewayTypeOK /\ ~call[c].replayed
  BY ReadyCall DEF GateInv
<1>1. GatewayTypeOK'
  BY <1>0, DoneFields DEF GatewayTypeOK, CallRecord
<1>2. Grows
  <2>1. \A l \in Leads : versions[l] \in Nat
    BY <1>0 DEF GatewayTypeOK
  <2> QED BY <1>0, <2>1, DoneFields DEF Grows
<1>3. target # 0
  BY <1>0, CallFields
<1>4. /\ \A d \in Calls : d # c => call'[d] = call[d]
      /\ call'[c].stage = "done" /\ call'[c].took /\ call'[c].target = target /\ call'[c].version = version
      /\ call'[c].route = call[c].route /\ call'[c].key = call[c].key /\ call'[c].expects = call[c].expects
      /\ call'[c].before = call[c].before /\ ~call'[c].replayed /\ version <= versions'[target]
  BY <1>0, DoneFields
<1> QED BY <1>1, <1>2, <1>3, <1>4, EffectHappens

LEMMA CreateKeeps ==
  ASSUME GateInv, NEW c \in Calls, Create(c)
  PROVE  GateInv' /\ Grows
<1> DEFINE new == {l \in Leads : versions[l] = 0}
           pick == CHOOSE l \in new : \A m \in new : l <= m
<1>1. /\ Ready(c) /\ Of(c).effect = "creates" /\ new # {} /\ Does(c, pick, 1)
      /\ UNCHANGED <<grants, taken, trail, upsets>>
  BY DEF Create
<1>2. new \in SUBSET Nat
  BY DEF Leads
<1>3. pick \in new
  <2>1. \E l \in new : \A m \in new : l <= m
    BY <1>1, <1>2, LeastOf
  <2> QED BY <2>1
<1>4. pick \in Leads /\ versions[pick] = 0
  BY <1>3
<1> HIDE DEF new, pick
<1> QED BY <1>1, <1>4, DoesKeeps DEF Once

LEMMA UpdateKeeps ==
  ASSUME GateInv, NEW c \in Calls, Update(c)
  PROVE  GateInv' /\ Grows
<1>0. /\ GatewayTypeOK /\ Ready(c) /\ Of(c).effect = "updates" /\ call[c].stage = "looked"
      /\ UNCHANGED <<grants, taken, trail, upsets>>
  BY ReadyCall DEF GateInv, Update
<1>1. CASE Expected(c)
  <2>1. Does(c, call[c].target, versions[call[c].target] + 1)
    BY <1>1 DEF Update
  <2>2. call[c].target \in Leads
    BY <1>0, CallFields DEF GateInv, ReadsAgree
  <2>3. versions[call[c].target] \in Nat /\ call[c].before \in Nat
    BY <1>0, <2>2, CallFields DEF GatewayTypeOK
  <2>4. call[c].expects <= call[c].before /\ call[c].before <= versions[call[c].target]
    BY <1>0 DEF GateInv, ReadsAgree
  <2>5. call[c].before = versions[call[c].target]
    BY <1>1, <2>3, <2>4 DEF Expected
  <2>6. versions[call[c].target] + 1 \in Nat /\ versions[call[c].target] <= versions[call[c].target] + 1
    BY <2>3
  <2> QED BY <1>0, <2>1, <2>2, <2>5, <2>6, DoesKeeps DEF Once
<1>2. CASE ~Expected(c)
  <2>1. Moves(c, "refused") /\ UNCHANGED versions
    BY <1>2 DEF Update
  <2>2. upsets' \in 0..MaxUpsets
    BY <1>0 DEF GatewayTypeOK
  <2> QED BY <1>0, <2>1, <2>2, MoveKeeps DEF Stages
<1> QED BY <1>1, <1>2

LEMMA TouchKeeps ==
  ASSUME GateInv, NEW c \in Calls, Touch(c)
  PROVE  GateInv' /\ Grows
<1>1. /\ GatewayTypeOK /\ Ready(c) /\ Of(c).effect = "touches"
      /\ Does(c, call[c].target, versions[call[c].target] + 1)
      /\ UNCHANGED <<grants, taken, trail, upsets>>
  BY DEF GateInv, Touch
<1>2. call[c].target \in Leads
  BY <1>1, ReadyCall, CallFields DEF GateInv, ReadsAgree
<1>3. versions[call[c].target] \in Nat
  BY <1>1, <1>2 DEF GatewayTypeOK
<1>4. versions[call[c].target] + 1 \in Nat /\ versions[call[c].target] <= versions[call[c].target] + 1
  BY <1>3
<1> QED BY <1>1, <1>2, <1>4, DoesKeeps DEF Once

LEMMA AddKeeps ==
  ASSUME GateInv, NEW c \in Calls, Add(c)
  PROVE  GateInv' /\ Grows
<1> DEFINE seen == IF call[c].target = 0 THEN 0 ELSE versions[call[c].target]
           new == [call[c] EXCEPT !.stage = "done", !.took = TRUE, !.version = seen]
<1>1. /\ GatewayTypeOK /\ Ready(c) /\ Of(c).effect = "adds" /\ call \in [Calls -> CallRecord]
      /\ call' = [call EXCEPT ![c] = new] /\ UNCHANGED <<grants, versions, taken, trail, upsets>>
  BY DEF GateInv, GatewayTypeOK, CallRecord, Add
<1>0. GatewayTypeOK
  BY DEF GateInv
<1>2. seen \in Nat
  BY <1>0, CallFields DEF GatewayTypeOK
<1>21. call[c].target # 0 => seen <= versions[call[c].target]
  BY <1>0, <1>2
<1> HIDE DEF seen
<1>3. /\ new \in CallRecord /\ new.stage = "done" /\ new.took /\ new.target = call[c].target /\ new.version = seen
      /\ new.route = call[c].route /\ new.key = call[c].key /\ new.expects = call[c].expects
      /\ new.before = call[c].before /\ new.replayed = call[c].replayed
  BY <1>0, <1>2, CallFields DEF CallRecord, Stages
<1> HIDE DEF new
<1>4. call' \in [Calls -> CallRecord] /\ call'[c] = new /\ \A d \in Calls : d # c => call'[d] = call[d]
  BY <1>1, <1>3
<1>5. GatewayTypeOK'
  BY <1>1, <1>4 DEF GatewayTypeOK, CallRecord
<1>6. Grows
  BY <1>1, NothingGrows
<1>7. ~call[c].replayed
  BY <1>1, ReadyCall
<1>8. /\ call'[c].stage = "done" /\ call'[c].took /\ ~call'[c].replayed /\ call'[c].target = call[c].target
      /\ call'[c].route = call[c].route /\ call'[c].key = call[c].key /\ call'[c].expects = call[c].expects
      /\ call'[c].before = call[c].before
      /\ call'[c].target # 0 => call'[c].version <= versions'[call'[c].target]
  BY <1>1, <1>21, <1>3, <1>4, <1>7
<1>9. ~Once(c) /\ Of(c).effect \notin {"updates", "touches"}
  BY <1>1 DEF Once
<1> QED BY <1>1, <1>4, <1>5, <1>6, <1>8, <1>9, EffectHappens

\* The ledger makes the difference: the effect happens under a new id, a known one is answered.
LEMMA ByKeyKeeps ==
  ASSUME GateInv, NEW c \in Calls, NEW ls \in SUBSET Leads, ByKey(c, ls)
  PROVE  GateInv' /\ Grows
<1> DEFINE new == [call[c] EXCEPT !.stage = "done", !.took = ~Recorded(c), !.replayed = Recorded(c),
                                   !.applied = ~Recorded(c) /\ ls # {}]
<1>1. /\ GatewayTypeOK /\ Ready(c) /\ Once(c) /\ call \in [Calls -> CallRecord]
      /\ call' = [call EXCEPT ![c] = new] /\ taken' = taken \cup {Named(c)}
      /\ UNCHANGED <<grants, trail, upsets>>
  BY DEF GateInv, GatewayTypeOK, CallRecord, ByKey, Once
<1>0. GatewayTypeOK /\ Recorded(c) \in BOOLEAN
  BY DEF GateInv, Recorded
<1>2. /\ new \in CallRecord /\ new.stage = "done" /\ new.took = ~Recorded(c) /\ new.replayed = Recorded(c)
      /\ new.target = call[c].target /\ new.version = call[c].version
      /\ new.route = call[c].route /\ new.key = call[c].key /\ new.expects = call[c].expects
      /\ new.before = call[c].before
  <2>1. call[c] \in CallRecord
    BY <1>0, CallFields
  <2>2. "done" \in Stages /\ (~Recorded(c)) \in BOOLEAN /\ (~Recorded(c) /\ ls # {}) \in BOOLEAN
    BY <1>0 DEF Stages
  <2>3. new \in CallRecord
    BY <1>0, <2>1, <2>2 DEF CallRecord
  <2> QED BY <2>1, <2>3 DEF CallRecord
<1> HIDE DEF new
<1>3. call' \in [Calls -> CallRecord] /\ call'[c] = new /\ \A d \in Calls : d # c => call'[d] = call[d]
  BY <1>1, <1>2
<1>4. versions' \in [Leads -> Nat] /\ Grows
  <2>1. versions \in [Leads -> Nat]
    BY <1>1 DEF GatewayTypeOK
  <2>2. CASE versions' = versions
    BY <2>1, <2>2 DEF Grows
  <2>3. CASE versions' = [l \in Leads |-> versions[l] + (IF l \in ls THEN 1 ELSE 0)]
    BY <2>1, <2>3 DEF Grows
  <2> QED BY <2>2, <2>3 DEF ByKey
<1>5. GatewayTypeOK'
  <2>1. Named(c) \in (DOMAIN Table) \X Nat
    BY <1>1, CallFields
  <2> QED BY <1>1, <1>3, <1>4, <2>1 DEF GatewayTypeOK, CallRecord
<1>6. call[c].target # 0 => call[c].version <= versions'[call[c].target]
  <2>1. call[c].target \in Leads \cup {0} /\ call[c].version \in Nat
    BY <1>1, CallFields
  <2> QED BY <1>1, <1>4, <1>5, <2>1, StaysBehind DEF GateInv, ReadsAgree
<1>7. (call'[c].took <=> Named(c) \notin taken) /\ (call'[c].replayed <=> Named(c) \in taken)
  BY <1>2, <1>3 DEF Recorded
<1>8. /\ call'[c].stage = "done" /\ call'[c].target = call[c].target /\ call'[c].version = call[c].version
      /\ call'[c].route = call[c].route /\ call'[c].key = call[c].key /\ call'[c].expects = call[c].expects
      /\ call'[c].before = call[c].before
  BY <1>2, <1>3
<1>9. Of(c).effect = "once"
  BY <1>1 DEF Once
<1> QED BY <1>1, <1>3, <1>4, <1>5, <1>6, <1>7, <1>8, <1>9, EffectHappens

LEMMA LookKeeps ==
  ASSUME GateInv, NEW c \in Calls, Look(c)
  PROVE  GateInv' /\ Grows
<1> DEFINE seen == versions[call[c].target]
           new == [call[c] EXCEPT !.stage = "looked", !.before = seen]
<1>0. /\ GatewayTypeOK /\ call[c].stage = "admitted" /\ Of(c).effect = "updates" /\ call \in [Calls -> CallRecord]
      /\ call' = [call EXCEPT ![c] = new] /\ UNCHANGED <<grants, versions, taken, trail, upsets>>
  BY DEF GateInv, GatewayTypeOK, CallRecord, Look, At
<1>1. /\ ~call[c].took /\ ~call[c].replayed /\ call[c].target \in Leads /\ call[c].target # 0
      /\ call[c].expects <= versions[call[c].target] /\ call[c].version <= versions[call[c].target]
  BY <1>0, CallFields DEF GateInv, EffectsAgree, ReadsAgree, Early
<1>2. seen \in Nat
  BY <1>0, <1>1 DEF GatewayTypeOK
<1>3. /\ new \in CallRecord /\ new.stage = "looked" /\ new.before = seen
      /\ new.target = call[c].target /\ new.version = call[c].version
      /\ new.route = call[c].route /\ new.key = call[c].key /\ new.expects = call[c].expects
      /\ new.took = call[c].took /\ new.replayed = call[c].replayed /\ new.applied = call[c].applied
  BY <1>0, <1>2, CallFields DEF CallRecord, Stages
<1> HIDE DEF new
<1>4. call' \in [Calls -> CallRecord] /\ call'[c] = new /\ \A d \in Calls : d # c => call'[d] = call[d]
  BY <1>0, <1>3
<1>5. GatewayTypeOK' /\ Grows
  BY <1>0, <1>4, NothingGrows DEF GatewayTypeOK, CallRecord
<1>6. \A d \in Calls : (Of(d))' = Of(d) /\ (Named(d))' = Named(d) /\ ((Once(d))' <=> Once(d))
  BY <1>3, <1>4 DEF Of, Named, Once
<1>7. EffectsAgree'
  <2>1. \A d \in Calls : d # c =>
          /\ call'[d].stage \in Early => ~call'[d].took /\ ~call'[d].replayed
          /\ call'[d].stage \in {"done", "recorded"} => call'[d].took \/ (call'[d].replayed /\ (Once(d))')
          /\ call'[d].took => ~call'[d].replayed
          /\ (call'[d].took /\ (Once(d))') => (Named(d))' \in taken'
          /\ (call'[d].took /\ (Of(d))'.effect = "updates") => call'[d].version = call'[d].before + 1
    BY <1>0, <1>4, <1>6 DEF GateInv, EffectsAgree
  <2>2. call'[c].stage = "looked" /\ ~call'[c].took /\ ~call'[c].replayed
    BY <1>1, <1>3, <1>4
  <2> QED BY <2>1, <2>2 DEF EffectsAgree
<1>8. OneEffectPerKey'
  BY <1>1, <1>3, <1>4, <1>6 DEF GateInv, OneEffectPerKey
<1>9. ReadsAgree'
  <2>1. \A d \in Calls : d # c =>
          /\ call'[d].target # 0 => call'[d].version <= versions'[call'[d].target]
          /\ (call'[d].stage # "none" /\ (Of(d))'.effect \in {"updates", "touches"}) => call'[d].target # 0
          /\ (call'[d].stage # "none" /\ (Of(d))'.effect = "updates") => call'[d].expects <= versions'[call'[d].target]
          /\ call'[d].stage = "looked" => /\ (Of(d))'.effect = "updates"
                                          /\ call'[d].expects <= call'[d].before
                                          /\ call'[d].before <= versions'[call'[d].target]
    BY <1>0, <1>4, <1>6 DEF GateInv, ReadsAgree
  <2>2. /\ call'[c].target # 0 /\ call'[c].version <= versions'[call'[c].target]
        /\ call'[c].expects <= versions'[call'[c].target] /\ (Of(c))'.effect = "updates"
        /\ call'[c].expects <= call'[c].before /\ call'[c].before <= versions'[call'[c].target]
    BY <1>0, <1>1, <1>2, <1>3, <1>4, <1>6
  <2> QED BY <2>1, <2>2 DEF ReadsAgree
<1>10. TrailAgrees'
  <2>1. \A e \in trail : e.of \in Calls /\ e.of # c
    BY <1>0 DEF GatewayTypeOK, GateInv, TrailAgrees, Settled
  <2>2. \A d \in Calls : (At(d, "recorded"))' => At(d, "recorded") /\ d # c
    BY <1>3, <1>4 DEF At
  <2>3. \A d \in Calls : (Entries(d))' = Entries(d)
    BY <1>0 DEF Entries
  <2>4. \A d \in Calls : d # c => ((Effective(d))' <=> Effective(d))
    BY <1>4 DEF Effective
  <2> QED BY <1>0, <1>4, <1>6, <2>1, <2>2, <2>3, <2>4 DEF GateInv, TrailAgrees
<1> QED BY <1>5, <1>7, <1>8, <1>9, <1>10 DEF GateInv

\* A record is of a request that was done, and says what it did.
LEMMA AuditKeeps ==
  ASSUME GateInv, NEW c \in Calls, Audit(c)
  PROVE  GateInv' /\ Grows
<1> DEFINE entry == [of |-> c, old |-> call[c].before, new |-> call[c].version]
<1>0. /\ GatewayTypeOK /\ call[c].stage = "done" /\ Moves(c, "recorded") /\ "recorded" \in Stages
      /\ trail' = IF Audited(c) THEN trail \cup {entry} ELSE trail
      /\ UNCHANGED <<grants, versions, taken, upsets>>
  BY DEF GateInv, Audit, At, Stages
<1>1. /\ call' \in [Calls -> CallRecord] /\ call'[c].stage = "recorded"
      /\ \A d \in Calls : Kept(d) /\ (d # c => call'[d] = call[d])
  BY <1>0, MovedFields
<1>2. \A d \in Calls : (Of(d))' = Of(d) /\ (Named(d))' = Named(d) /\ ((Once(d))' <=> Once(d))
  BY <1>1 DEF Kept, Of, Named, Once
<1>3. /\ entry.of = c /\ entry.old = call[c].before /\ entry.new = call[c].version
      /\ entry \in [of : Calls, old : Nat, new : Nat]
  BY <1>0, CallFields
<1> HIDE DEF entry
<1>4. GatewayTypeOK' /\ Grows
  <2>1. trail' \subseteq [of : Calls, old : Nat, new : Nat]
    BY <1>0, <1>3 DEF GatewayTypeOK
  <2> QED BY <1>0, <1>1, <2>1, NothingGrows DEF GatewayTypeOK, CallRecord
<1>5. EffectsAgree'
  <2>1. \A d \in Calls : /\ call'[d].stage \in Early => call[d].stage \in Early
                         /\ call'[d].stage \in {"done", "recorded"} => call[d].stage \in {"done", "recorded"}
    BY <1>0, <1>1 DEF Early
  <2> QED BY <1>0, <1>1, <1>2, <2>1 DEF GateInv, EffectsAgree, Kept
<1>6. OneEffectPerKey'
  BY <1>1, <1>2 DEF GateInv, OneEffectPerKey, Kept
<1>7. ReadsAgree'
  <2>1. \A d \in Calls : /\ call'[d].stage # "none" => call[d].stage # "none"
                         /\ call'[d].stage = "looked" => call[d].stage = "looked"
    BY <1>0, <1>1
  <2> QED BY <1>0, <1>1, <1>2, <2>1 DEF GateInv, ReadsAgree, Kept
<1>8. TrailAgrees'
  <2>0. \A d \in Calls : (Effective(d))' <=> Effective(d)
    BY <1>1 DEF Effective, Kept
  <2>1. \A e \in trail : /\ e.of \in Calls /\ e.of # c /\ Effective(e.of) /\ call[e.of].stage \in Settled
                         /\ e.old = call[e.of].before /\ e.new = call[e.of].version
    BY <1>0 DEF GatewayTypeOK, GateInv, TrailAgrees, Settled
  <2>2. /\ call[c].took \/ (call[c].replayed /\ Once(c))
        /\ call[c].took => ~call[c].replayed
        /\ RowOK(Of(c)) /\ (Of(c).audited = "assigned" <=> call[c].route = "applyRules")
    BY <1>0, CallFields DEF GateInv, EffectsAgree
  <2>3. Audited(c) => Effective(c)
    BY <2>2 DEF Audited, Effective, RowOK, Once
  <2>4. (Effective(c) /\ Of(c).audited # "never") => Audited(c)
    BY <2>2 DEF Audited, Effective, RowOK
  <2>5. ASSUME NEW e \in trail'
        PROVE  /\ (Effective(e.of))' /\ call'[e.of].stage \in Settled
               /\ e.old = call'[e.of].before /\ e.new = call'[e.of].version
    <3>1. CASE e \in trail
      BY <1>1, <2>0, <2>1, <3>1
    <3>2. CASE e \notin trail
      <4>1. e = entry /\ Audited(c)
        BY <1>0, <3>2
      <4> QED BY <1>1, <1>3, <2>0, <2>3, <4>1 DEF Kept, Settled
    <3> QED BY <3>1, <3>2
  <2>6. ASSUME NEW d \in Calls, (At(d, "recorded"))', (Effective(d))', (Of(d))'.audited # "never"
        PROVE  (Entries(d))' # {}
    <3>1. CASE d = c
      <4>1. entry \in trail'
        BY <1>0, <1>2, <2>0, <2>4, <2>6, <3>1
      <4> QED BY <1>3, <3>1, <4>1 DEF Entries
    <3>2. CASE d # c
      <4>1. Entries(d) # {}
        BY <1>1, <1>2, <2>0, <2>6, <3>2 DEF At, GateInv, TrailAgrees
      <4>2. trail \subseteq trail'
        BY <1>0
      <4> QED BY <4>1, <4>2 DEF Entries
    <3> QED BY <3>1, <3>2
  <2> QED BY <2>5, <2>6 DEF TrailAgrees
<1> QED BY <1>4, <1>5, <1>6, <1>7, <1>8 DEF GateInv

LEMMA ServerDiesKeeps ==
  ASSUME GateInv, ServerDies
  PROVE  GateInv' /\ Grows
<1>0. /\ GatewayTypeOK /\ call \in [Calls -> CallRecord] /\ upsets' \in 0..MaxUpsets
      /\ UNCHANGED <<grants, versions, taken, trail>>
  BY UpsetType DEF GateInv, GatewayTypeOK, CallRecord, ServerDies
<1>1. ASSUME NEW c \in Calls
      PROVE  /\ call'[c] \in CallRecord /\ Kept(c)
             /\ \/ call'[c].stage = call[c].stage
                \/ call[c].stage \in {"sent", "admitted", "looked", "done", "recorded"} /\ call'[c].stage = "broken"
  <2>1. CASE c \notin Underway
    BY <1>0, <2>1 DEF ServerDies, Kept
  <2>2. CASE c \in Underway
    <3> DEFINE new == [call[c] EXCEPT !.stage = "broken"]
    <3>1. call'[c] = new
      BY <2>2 DEF ServerDies
    <3>2. /\ new \in CallRecord /\ new.stage = "broken"
          /\ new.route = call[c].route /\ new.target = call[c].target
          /\ new.expects = call[c].expects /\ new.key = call[c].key
          /\ new.before = call[c].before /\ new.version = call[c].version
          /\ new.took = call[c].took /\ new.replayed = call[c].replayed /\ new.applied = call[c].applied
      BY <1>0, CallFields DEF CallRecord, Stages
    <3> HIDE DEF new
    <3> QED BY <2>2, <3>1, <3>2 DEF Kept, Underway
  <2> QED BY <2>1, <2>2
<1>2. call' \in [Calls -> CallRecord]
  BY <1>1 DEF ServerDies
<1>3. GatewayTypeOK' /\ Grows
  BY <1>0, <1>2, NothingGrows DEF GatewayTypeOK, CallRecord
<1>4. \A c \in Calls : \/ call'[c].stage = call[c].stage
                       \/ /\ call[c].stage \in {"sent", "admitted", "looked"}
                          /\ call'[c].stage \in {"admitted", "refused", "broken"}
                       \/ /\ call[c].stage \in {"done", "refused"} \cup Settled
                          /\ call'[c].stage \in {"broken", "closed"}
  BY <1>1 DEF Settled
<1> QED BY <1>0, <1>1, <1>3, <1>4, StagesMove

\* Others change leads, or the role; what is under way does not notice.
LEMMA OthersKeep ==
  ASSUME GateInv, GatewayTypeOK', Grows, UNCHANGED <<call, taken, trail>>
  PROVE  GateInv'
<1>1. \A c \in Calls : Kept(c)
  BY DEF Kept
<1> QED BY <1>1, StagesMove

LEMMA GatewayKeeps ==
  ASSUME GateInv, GatewayNext
  PROVE  GateInv' /\ Grows
<1>0. GatewayTypeOK
  BY DEF GateInv
<1>1. ASSUME NEW c \in Calls, Handle(c) PROVE GateInv' /\ Grows
  <2>1. CASE Deny(c) \/ Admit(c) \/ Refuse(c)
    <3>1. PICK stage \in {"admitted", "refused"} : Moves(c, stage)
      BY <2>1 DEF Deny, Admit, Refuse
    <3>2. call[c].stage \in {"sent", "admitted", "looked"} /\ UNCHANGED <<grants, versions, taken, trail, upsets>>
      BY <2>1 DEF Deny, Admit, Refuse, Ready, At
    <3>3. upsets' \in 0..MaxUpsets
      BY <1>0, <3>2 DEF GatewayTypeOK
    <3> QED BY <3>1, <3>2, <3>3, MoveKeeps DEF Stages
  <2>2. CASE AuditFails(c)
    <3>1. Moves(c, "broken") /\ call[c].stage = "done" /\ UNCHANGED <<grants, versions, taken, trail>>
          /\ upsets' \in 0..MaxUpsets
      BY <1>0, <2>2, UpsetType DEF AuditFails, At
    <3> QED BY <3>1, MoveKeeps DEF Stages
  <2>3. CASE \E ls \in SUBSET {l \in Leads : versions[l] # 0} : ByKey(c, ls)
    BY <2>3, ByKeyKeeps
  <2> QED BY <1>1, <2>1, <2>2, <2>3, LookKeeps, CreateKeeps, UpdateKeeps, TouchKeeps, AddKeeps, AuditKeeps
          DEF Handle
<1>2. CASE Demote
  <2>1. GatewayTypeOK' /\ UNCHANGED <<versions, call, taken, trail>>
    BY <1>0, <1>2, UpsetType DEF Demote, GatewayTypeOK
  <2> QED BY <1>0, <2>1, NothingGrows, OthersKeep
<1>3. ASSUME NEW l \in Leads, OthersChange(l) PROVE GateInv' /\ Grows
  <2>1. versions' = [versions EXCEPT ![l] = @ + 1] /\ UNCHANGED <<grants, call, taken, trail>>
    BY <1>3 DEF OthersChange
  <2>2. versions' \in [Leads -> Nat] /\ Grows
    BY <1>0, <2>1 DEF GatewayTypeOK, Grows
  <2>3. GatewayTypeOK'
    BY <1>0, <1>3, <2>1, <2>2, UpsetType DEF OthersChange, GatewayTypeOK
  <2> QED BY <2>1, <2>2, <2>3, OthersKeep
<1> QED BY <1>1, <1>2, <1>3, ServerDiesKeeps DEF GatewayNext

LEMMA UnsentFields == Unsent \in CallRecord /\ Unsent.version = 0 /\ ~Unsent.took /\ ~Unsent.replayed
<1>1. "addNote" \in DOMAIN LeadRoutes
  BY DEF LeadRoutes
<1>2. "addNote" \in DOMAIN Table
  BY <1>1 DEF Table, With
<1> QED BY <1>2 DEF Unsent, CallRecord, Stages

\* A request is sent with what its tab shows, which is not ahead of the server.
LEMMA PostKeeps ==
  ASSUME GateInv, NEW c \in Calls, NEW route \in DOMAIN Table, NEW target \in Leads \cup {0},
         NEW expects \in Nat, NEW k \in Nat, Post(c, route, target, expects, k),
         Table[route].effect \in {"updates", "touches"} => target # 0,
         Table[route].effect = "updates" => expects <= versions[target],
         UNCHANGED <<grants, versions, taken, trail, upsets>>
  PROVE  GateInv' /\ Grows
<1>0. GatewayTypeOK /\ call \in [Calls -> CallRecord] /\ call[c].stage = "none" /\ ~call[c].took
  BY DEF GateInv, GatewayTypeOK, CallRecord, Post, At, EffectsAgree, Early
<1> DEFINE new == [Unsent EXCEPT !.stage = "sent", !.route = route, !.target = target,
                                 !.expects = expects, !.key = k]
<1>1. call' = [call EXCEPT ![c] = new]
  BY DEF Post
<1>2. /\ new \in CallRecord /\ new.stage = "sent" /\ new.route = route /\ new.target = target
      /\ new.expects = expects /\ new.version = 0 /\ ~new.took /\ ~new.replayed
  BY UnsentFields DEF CallRecord, Stages
<1> HIDE DEF new
<1>3. new \in CallRecord
  BY <1>2
<1>4. call' \in [Calls -> CallRecord] /\ call'[c] = new /\ \A d \in Calls \ {c} : call'[d] = call[d]
  BY <1>0, <1>1, <1>3
<1>5. /\ call'[c].stage = "sent" /\ call'[c].route = route /\ call'[c].target = target
      /\ call'[c].expects = expects /\ call'[c].version = 0 /\ ~call'[c].took /\ ~call'[c].replayed
  BY <1>2, <1>4
<1>6. GatewayTypeOK'
  BY <1>0, <1>4 DEF GatewayTypeOK, CallRecord
<1>7. /\ \A d \in Calls \ {c} : (Of(d))' = Of(d) /\ (Named(d))' = Named(d) /\ ((Once(d))' <=> Once(d))
      /\ (Of(c))' = Table[route]
  BY <1>4, <1>5 DEF Of, Named, Once
<1>8. EffectsAgree'
  <2>1. \A d \in Calls \ {c} : /\ call'[d].stage \in Early => ~call'[d].took /\ ~call'[d].replayed
                               /\ call'[d].stage \in {"done", "recorded"} => call'[d].took \/ (call'[d].replayed /\ (Once(d))')
                               /\ call'[d].took => ~call'[d].replayed
                               /\ (call'[d].took /\ (Once(d))') => (Named(d))' \in taken'
                               /\ (call'[d].took /\ (Of(d))'.effect = "updates") => call'[d].version = call'[d].before + 1
    BY <1>4, <1>7 DEF GateInv, EffectsAgree
  <2> QED BY <1>5, <2>1 DEF EffectsAgree
<1>9. OneEffectPerKey'
  BY <1>4, <1>5, <1>7 DEF GateInv, OneEffectPerKey
<1>10. ReadsAgree'
  <2>1. \A d \in Calls \ {c} :
          /\ call'[d].target # 0 => call'[d].version <= versions'[call'[d].target]
          /\ (call'[d].stage # "none" /\ (Of(d))'.effect \in {"updates", "touches"}) => call'[d].target # 0
          /\ (call'[d].stage # "none" /\ (Of(d))'.effect = "updates") => call'[d].expects <= versions'[call'[d].target]
          /\ call'[d].stage = "looked" => /\ (Of(d))'.effect = "updates"
                                          /\ call'[d].expects <= call'[d].before
                                          /\ call'[d].before <= versions'[call'[d].target]
    BY <1>4, <1>7 DEF GateInv, ReadsAgree
  <2>2. target # 0 => versions[target] \in Nat
    BY <1>0 DEF GatewayTypeOK
  <2> QED BY <1>5, <1>7, <2>1, <2>2 DEF ReadsAgree
<1>11. TrailAgrees'
  <2>1. \A e \in trail : e.of \in Calls /\ e.of # c
    BY <1>0 DEF GatewayTypeOK, GateInv, TrailAgrees, Settled
  <2>2. \A d \in Calls : (At(d, "recorded"))' => At(d, "recorded") /\ d # c
    BY <1>4, <1>5 DEF At
  <2>3. \A d \in Calls : (Entries(d))' = Entries(d)
    BY DEF Entries
  <2>4. \A d \in Calls \ {c} : (Effective(d))' <=> Effective(d)
    BY <1>4 DEF Effective
  <2> QED BY <1>4, <1>7, <2>1, <2>2, <2>3, <2>4 DEF GateInv, TrailAgrees
<1> QED BY <1>0, <1>6, <1>8, <1>9, <1>10, <1>11, NothingGrows DEF GateInv

\* What the trail's promise comes to.
LEMMA TrailFollows == GateInv => AuditTrail
<1> SUFFICES ASSUME GateInv PROVE AuditTrail
  OBVIOUS
<1>0. GatewayTypeOK
  BY DEF GateInv
<1>1. \A e \in trail : /\ e \in [of : Calls, old : Nat, new : Nat] /\ e.of \in Calls
                       /\ e = [of |-> e.of, old |-> call[e.of].before, new |-> call[e.of].version]
                       /\ Effective(e.of) /\ call[e.of].took
  BY <1>0 DEF GatewayTypeOK, GateInv, TrailAgrees, Effective
<1>2. \A e, f \in trail : e.of = f.of => e = f
  BY <1>1
<1>3. \A e, f \in trail : (Of(e.of).effect = "once" /\ Named(e.of) = Named(f.of)) => e = f
  BY <1>1, <1>2 DEF GateInv, OneEffectPerKey, Once
<1>4. \A e \in trail : Of(e.of).effect = "updates" => e.new = e.old + 1
  BY <1>1 DEF GateInv, EffectsAgree, TrailAgrees
<1>5. \A c \in Calls : Cardinality(Entries(c)) <= 1
  <2> TAKE c \in Calls
  <2>1. CASE Entries(c) = {}
    BY <2>1, FS_EmptySet
  <2>2. CASE Entries(c) # {}
    <3>1. PICK e \in Entries(c) : TRUE
      BY <2>2
    <3>2. Entries(c) = {e}
      BY <1>2, <3>1 DEF Entries
    <3> QED BY <3>2, FS_Singleton
  <2> QED BY <2>1, <2>2
<1>6. \A c \in Calls : At(c, "refused") => ~call[c].took
  BY DEF GateInv, EffectsAgree, Early, At
<1> QED BY <1>1, <1>3, <1>4, <1>5, <1>6 DEF GateInv, TrailAgrees, AuditTrail
-------------------------------------------------------------------------------
(* The tab.                                                                   *)
TabTypeOK ==
  /\ session \in {"in", "out"}
  /\ status \in {"loading", "live"} /\ able \in BOOLEAN
  /\ table \in [Leads -> Nat] /\ cache \in [Leads -> Nat] /\ told \in [Leads -> Nat]
  /\ selected \in Leads \cup {0}
  /\ screen \in [of : Leads \cup {0}, version : Nat]
  /\ spin \in BOOLEAN /\ failed \in BOOLEAN
  /\ pending \subseteq Calls /\ key \in Nat /\ moves \in 0..MaxMoves
  /\ FetchTypeOK

Spinners ==
  /\ session = "in" => (status = "loading" <=> list.stage # "idle") /\ (spin <=> detail.stage # "idle")
  /\ session = "out" => list.stage = "idle" /\ detail.stage = "idle" /\ pending = {}

DeskShape == TabTypeOK /\ Spinners /\ HoldsNoFuture /\ DetailFollows

LEMMA DeskShapeIsInv == (GatewayTypeOK /\ DeskShape) => DeskInv
<1> SUFFICES ASSUME GatewayTypeOK, DeskShape PROVE DeskInv
  OBVIOUS
<1>1. list.stage \in {"idle", "sent", "served"} /\ detail.stage \in {"idle", "sent", "served"}
  BY DEF DeskShape, TabTypeOK, FetchTypeOK, FetchStages
<1>2. DeskTypeOK
  BY <1>1 DEF DeskShape, TabTypeOK, DeskTypeOK
<1> QED BY <1>2 DEF DeskShape, TabTypeOK, Spinners, DeskInv

LEMMA Fetches ==
  /\ NoRows \in [Leads -> Nat] /\ \A l \in Leads : NoRows[l] = 0
  /\ NoFetch \in [stage : FetchStages, found : [Leads -> Nat]]
  /\ NoFetch.stage = "idle" /\ NoFetch.found = NoRows
  /\ Fetching \in [stage : FetchStages, found : [Leads -> Nat]]
  /\ Fetching.stage = "sent" /\ Fetching.found = NoRows
  /\ NoLook \in [stage : FetchStages, of : Leads \cup {0}, version : Nat]
  /\ NoLook.stage = "idle" /\ NoLook.of = 0
  /\ NoDetail \in [of : Leads \cup {0}, version : Nat] /\ NoDetail.of = 0
<1>1. NoRows \in [Leads -> Nat] /\ \A l \in Leads : NoRows[l] = 0
  BY DEF NoRows
<1>2. /\ NoFetch \in [stage : FetchStages, found : [Leads -> Nat]]
      /\ NoFetch.stage = "idle" /\ NoFetch.found = NoRows
      /\ Fetching \in [stage : FetchStages, found : [Leads -> Nat]]
      /\ Fetching.stage = "sent" /\ Fetching.found = NoRows
  <2> HIDE DEF NoRows
  <2> QED BY <1>1 DEF NoFetch, Fetching, FetchStages
<1>3. /\ NoLook \in [stage : FetchStages, of : Leads \cup {0}, version : Nat]
      /\ NoLook.stage = "idle" /\ NoLook.of = 0
      /\ NoDetail \in [of : Leads \cup {0}, version : Nat] /\ NoDetail.of = 0
  BY DEF NoLook, NoDetail, FetchStages
<1> QED BY <1>1, <1>2, <1>3

LEMMA GateInvInit == DeskInit => GateInv
<1> SUFFICES ASSUME DeskInit PROVE GateInv
  OBVIOUS
<1>1. /\ call = [c \in Calls |-> Unsent] /\ taken = {} /\ trail = {} /\ upsets = 0 /\ grants = Grants
      /\ versions \in [Leads -> Nat]
  BY DEF DeskInit, GatewayInit
<1>2. \A c \in Calls : /\ call[c] = Unsent /\ call[c] \in CallRecord /\ call[c].stage = "none"
                       /\ ~call[c].took /\ ~call[c].replayed /\ call[c].target = 0
  BY <1>1, UnsentFields DEF Unsent
<1>3. GatewayTypeOK
  <2>1. call \in [Calls -> CallRecord]
    BY <1>1, <1>2
  <2> QED BY <1>1, <2>1, GatewayBounds DEF GatewayTypeOK, CallRecord
<1>4. EffectsAgree /\ OneEffectPerKey /\ ReadsAgree
  BY <1>2 DEF EffectsAgree, OneEffectPerKey, ReadsAgree
<1>5. TrailAgrees
  BY <1>1, <1>2 DEF TrailAgrees, At
<1> QED BY <1>3, <1>4, <1>5 DEF GateInv

LEMMA DeskShapeInit == DeskInit => DeskShape
<1> SUFFICES ASSUME DeskInit PROVE DeskShape
  OBVIOUS
<1>0. /\ session = "in" /\ status = "loading" /\ able = FALSE
      /\ table = NoRows /\ selected = 0 /\ screen = NoDetail
      /\ spin = FALSE /\ failed = FALSE /\ cache = NoRows
      /\ list = Fetching /\ detail = NoLook
      /\ pending = {} /\ key = 1 /\ moves = 0 /\ told = NoRows
      /\ versions \in [Leads -> Nat]
  BY DEF DeskInit, GatewayInit
<1>1. TabTypeOK
  <2>1. moves \in 0..MaxMoves /\ key \in Nat /\ selected \in Leads \cup {0}
    BY <1>0, DeskBounds
  <2>2. /\ table \in [Leads -> Nat] /\ cache \in [Leads -> Nat] /\ told \in [Leads -> Nat]
        /\ screen \in [of : Leads \cup {0}, version : Nat] /\ FetchTypeOK
    BY <1>0, Fetches DEF FetchTypeOK
  <2> QED BY <1>0, <2>1, <2>2 DEF TabTypeOK
<1>2. Spinners /\ DetailFollows
  BY <1>0, Fetches DEF Spinners, DetailFollows
<1>3. HoldsNoFuture
  BY <1>0, Fetches DEF HoldsNoFuture
<1> QED BY <1>1, <1>2, <1>3 DEF DeskShape

\* The server's steps leave the tab alone.
LEMMA GrowingKeeps ==
  ASSUME GatewayTypeOK, GatewayTypeOK', Grows, DeskShape, UNCHANGED deskVars
  PROVE  DeskShape'
<1>0. UNCHANGED <<session, status, able, filter, table, selected, screen, spin, failed, cache,
                  list, detail, pending, key, moves, told>>
  BY DEF deskVars
<1>1. TabTypeOK' /\ Spinners' /\ DetailFollows'
  BY <1>0 DEF DeskShape, TabTypeOK, FetchTypeOK, Spinners, DetailFollows
<1>2. /\ \A l \in Leads : cache[l] \in Nat /\ told[l] \in Nat /\ list.found[l] \in Nat
      /\ screen.of \in Leads \cup {0} /\ screen.version \in Nat
      /\ detail.of \in Leads \cup {0} /\ detail.version \in Nat
  BY DEF DeskShape, TabTypeOK, FetchTypeOK
<1>3. HoldsNoFuture'
  BY <1>0, <1>2, StaysBehind DEF DeskShape, HoldsNoFuture
<1> QED BY <1>1, <1>3 DEF DeskShape

\* The detail is fetched, or nothing is selected.
LEMMA DetailedFields ==
  ASSUME DeskShape, NEW sel \in Leads \cup {0}, NEW held \in [Leads -> Nat],
         \A l \in Leads : held[l] <= versions[l], UNCHANGED versions,
         Detailed(sel, held), selected' = sel, session' = "in"
  PROVE  /\ screen' \in [of : Leads \cup {0}, version : Nat] /\ spin' \in BOOLEAN /\ failed' \in BOOLEAN
         /\ detail' \in [stage : FetchStages, of : Leads \cup {0}, version : Nat]
         /\ spin' <=> detail'.stage # "idle"
         /\ screen'.of # 0 => screen'.version <= versions'[screen'.of]
         /\ detail'.of # 0 => detail'.version = 0
         /\ DetailFollows'
<1>0. 0 \notin Leads
  BY GatewayBounds DEF Leads
<1>1. /\ screen \in [of : Leads \cup {0}, version : Nat]
      /\ screen.of # 0 => screen.version <= versions[screen.of]
  BY DEF DeskShape, TabTypeOK, HoldsNoFuture
<1>2. CASE sel = 0
  <2>1. screen' = NoDetail /\ spin' = FALSE /\ detail' = NoLook /\ failed' = FALSE
    BY <1>2 DEF Detailed
  <2> QED BY <1>2, <2>1, Fetches DEF DetailFollows
<1>3. CASE sel # 0
  <2>1. /\ screen' = IF held[sel] # 0 THEN [of |-> sel, version |-> held[sel]] ELSE screen
        /\ spin' = TRUE /\ detail' = [stage |-> "sent", of |-> sel, version |-> 0] /\ failed' = FALSE
    BY <1>3 DEF Detailed
  <2>2. screen' \in [of : Leads \cup {0}, version : Nat] /\ (screen'.of # 0 => screen'.version <= versions'[screen'.of])
    BY <1>1, <1>3, <2>1
  <2>3. /\ detail' \in [stage : FetchStages, of : Leads \cup {0}, version : Nat]
        /\ detail'.stage = "sent" /\ detail'.of = sel /\ detail'.version = 0
    BY <1>3, <2>1 DEF FetchStages
  <2> QED BY <1>3, <2>1, <2>2, <2>3 DEF DetailFollows
<1> QED BY <1>2, <1>3

\* Behind the gate nothing is left.
LEMMA UnmountKeeps ==
  ASSUME DeskShape, Unmount, UNCHANGED versions, GatewayTypeOK, NewKey, moves' \in 0..MaxMoves
  PROVE  DeskShape'
<1>0. /\ session' = "out" /\ status' = "loading" /\ able' = FALSE
      /\ table' = NoRows /\ selected' = 0 /\ screen' = NoDetail
      /\ spin' = FALSE /\ failed' = FALSE /\ cache' = NoRows
      /\ list' = NoFetch /\ detail' = NoLook /\ pending' = {} /\ told' = NoRows
  BY DEF Unmount
<1>1. key' \in Nat
  BY DEF NewKey, DeskShape, TabTypeOK
<1>2. TabTypeOK'
  BY <1>0, <1>1, Fetches DEF TabTypeOK, FetchTypeOK
<1>3. Spinners' /\ DetailFollows'
  BY <1>0, Fetches DEF Spinners, DetailFollows
<1>4. HoldsNoFuture'
  <2>1. \A l \in Leads : versions[l] \in Nat
    BY DEF GatewayTypeOK
  <2> QED BY <1>0, <2>1, Fetches DEF HoldsNoFuture
<1> QED BY <1>2, <1>3, <1>4 DEF DeskShape
-------------------------------------------------------------------------------
(* The tab's steps.                                                           *)
LEMMA TabFacts ==
  ASSUME GatewayTypeOK, DeskShape
  PROVE  /\ 0 \notin Leads /\ versions \in [Leads -> Nat] /\ \A l \in Leads : versions[l] \in Nat
         /\ \A l \in Leads : cache[l] \in Nat /\ told[l] \in Nat /\ list.found[l] \in Nat
         /\ list \in [stage : FetchStages, found : [Leads -> Nat]] /\ list.stage \in FetchStages
         /\ list.found \in [Leads -> Nat]
         /\ detail \in [stage : FetchStages, of : Leads \cup {0}, version : Nat]
         /\ detail.stage \in FetchStages /\ detail.of \in Leads \cup {0} /\ detail.version \in Nat
         /\ screen.of \in Leads \cup {0} /\ screen.version \in Nat
         /\ list.stage # "idle" => session = "in"
         /\ detail.stage # "idle" => session = "in"
         /\ pending # {} => session = "in"
<1>1. 0 \notin Leads
  BY GatewayBounds DEF Leads
<1>2. versions \in [Leads -> Nat] /\ \A l \in Leads : versions[l] \in Nat
  BY DEF GatewayTypeOK
<1>3. /\ list \in [stage : FetchStages, found : [Leads -> Nat]]
      /\ detail \in [stage : FetchStages, of : Leads \cup {0}, version : Nat]
      /\ screen \in [of : Leads \cup {0}, version : Nat]
      /\ cache \in [Leads -> Nat] /\ told \in [Leads -> Nat]
  BY DEF DeskShape, TabTypeOK, FetchTypeOK
<1>4. /\ list.stage \in FetchStages /\ list.found \in [Leads -> Nat]
      /\ detail.stage \in FetchStages /\ detail.of \in Leads \cup {0} /\ detail.version \in Nat
      /\ screen.of \in Leads \cup {0} /\ screen.version \in Nat
  BY <1>3
<1>5. \A l \in Leads : cache[l] \in Nat /\ told[l] \in Nat /\ list.found[l] \in Nat
  BY <1>3, <1>4
<1>6. /\ list.stage # "idle" => session = "in"
      /\ detail.stage # "idle" => session = "in"
      /\ pending # {} => session = "in"
  BY DEF DeskShape, TabTypeOK, Spinners
<1> QED BY <1>1, <1>2, <1>3, <1>4, <1>5, <1>6

LEMMA MoveCounts ==
  ASSUME DeskShape, Move
  PROVE  moves' \in 0..MaxMoves
BY DeskBounds DEF DeskShape, TabTypeOK, Move

\* What the panel is newly told of a lead.
LEMMA NewerFields ==
  ASSUME NEW a \in Nat, NEW b \in Nat
  PROVE  /\ Newer(a, b) \in Nat
         /\ a <= b => Newer(a, b) = b
         /\ \A n \in Nat : (a <= n /\ b <= n) => Newer(a, b) <= n
BY DEF Newer

\* The tab signs in, or filters or reloads the list: a load starts, and nothing else is touched.
LEMMA ReloadKeeps ==
  ASSUME GatewayTypeOK, DeskShape, session' = "in", status' = "loading", list' = Fetching,
         cache' = cache \/ cache' = NoRows,
         UNCHANGED <<versions, able, table, selected, screen, spin, failed, detail, told>>,
         pending' \subseteq Calls, key' \in Nat, moves' \in 0..MaxMoves
  PROVE  DeskShape'
<1>1. cache' \in [Leads -> Nat] /\ \A l \in Leads : cache'[l] <= versions'[l]
  BY TabFacts, Fetches DEF DeskShape, TabTypeOK, HoldsNoFuture
<1>2. TabTypeOK'
  BY <1>1, Fetches DEF DeskShape, TabTypeOK, FetchTypeOK
<1>3. spin <=> detail.stage # "idle"
  BY DEF DeskShape, TabTypeOK, Spinners, DetailFollows
<1>4. Spinners'
  BY <1>3, Fetches DEF Spinners
<1>5. HoldsNoFuture'
  BY <1>1, TabFacts, Fetches DEF DeskShape, HoldsNoFuture
<1>6. DetailFollows'
  BY DEF DeskShape, DetailFollows
<1> QED BY <1>2, <1>4, <1>5, <1>6 DEF DeskShape

LEMMA ListServedKeeps ==
  ASSUME GatewayTypeOK, DeskShape, ListServed
  PROVE  DeskShape' /\ UNCHANGED gatewayVars
<1>0. /\ list.stage = "sent" /\ session = "in"
      /\ list' = [stage |-> "served", found |-> [l \in Leads |-> IF l \in filter THEN versions[l] ELSE 0]]
      /\ UNCHANGED <<gatewayVars, session, status, able, table, selected, screen, spin,
                     failed, cache, detail, pending, key, told, moves>>
  BY TabFacts DEF ListServed
<1>1. UNCHANGED versions
  BY <1>0 DEF gatewayVars
<1> DEFINE rows == [l \in Leads |-> IF l \in filter THEN versions[l] ELSE 0]
<1>2. rows \in [Leads -> Nat] /\ \A l \in Leads : rows[l] <= versions[l]
  BY TabFacts
<1>3. list' = [stage |-> "served", found |-> rows]
  BY <1>0
<1> HIDE DEF rows
<1>4. list' \in [stage : FetchStages, found : [Leads -> Nat]] /\ list'.stage = "served" /\ list'.found = rows
  BY <1>2, <1>3 DEF FetchStages
<1>5. TabTypeOK'
  BY <1>0, <1>4 DEF DeskShape, TabTypeOK, FetchTypeOK
<1>6. Spinners'
  BY <1>0, <1>4 DEF DeskShape, Spinners
<1>7. HoldsNoFuture' /\ DetailFollows'
  BY <1>0, <1>1, <1>2, <1>4 DEF DeskShape, HoldsNoFuture, DetailFollows
<1> QED BY <1>0, <1>5, <1>6, <1>7 DEF DeskShape

\* Of a nonempty set of leads, the newest.
LEMMA NewestOf ==
  ASSUME NEW S \in SUBSET Leads, S # {}
  PROVE  \E l \in S : \A m \in S : m <= l
<1> DEFINE T == {n \in Nat : \E l \in S : n = MaxLead - l}
<1>1. MaxLead \in Nat /\ \A l \in S : l \in Nat /\ l <= MaxLead /\ MaxLead - l \in T
  BY GatewayBounds DEF Leads
<1>2. T \in SUBSET Nat /\ T # {}
  BY <1>1
<1>3. PICK n \in T : \A k \in T : n <= k
  BY <1>2, LeastOf
<1>4. PICK l \in S : n = MaxLead - l
  BY <1>3
<1>5. ASSUME NEW m \in S PROVE m <= l
  <2>1. MaxLead - m \in T
    BY <1>1
  <2>2. MaxLead - l <= MaxLead - m
    BY <1>3, <1>4, <2>1
  <2> HIDE DEF T
  <2> QED BY <1>1, <2>2
<1> QED BY <1>5

LEMMA SelectionOK ==
  ASSUME NEW found \in [Leads -> Nat], selected \in Leads \cup {0}
  PROVE  Selection(found) \in Leads \cup {0}
<1> DEFINE listed == {l \in Leads : found[l] # 0}
<1>1. CASE selected \in listed \/ listed = {}
  BY <1>1 DEF Selection
<1>2. CASE selected \notin listed /\ listed # {}
  <2>1. \E l \in listed : \A m \in listed : m <= l
    BY <1>2, NewestOf
  <2>2. (CHOOSE l \in listed : \A m \in listed : m <= l) \in listed
    BY <2>1
  <2> QED BY <1>2, <2>2 DEF Selection
<1> QED BY <1>1, <1>2

\* The detail is fetched after the list came, or could not be read.
LEMMA LoadEndsKeeps ==
  ASSUME GatewayTypeOK, DeskShape, session = "in", NEW sel \in Leads \cup {0},
         selected' = sel, Detailed(sel, cache), table' \in [Leads -> Nat], told' \in [Leads -> Nat],
         \A l \in Leads : told'[l] <= versions[l],
         status' = "live", able' \in BOOLEAN, list' = NoFetch,
         UNCHANGED <<versions, session, cache, pending, key, moves>>
  PROVE  DeskShape'
<1>1. cache \in [Leads -> Nat] /\ \A l \in Leads : cache[l] <= versions[l]
  BY DEF DeskShape, TabTypeOK, HoldsNoFuture
<1>2. /\ screen' \in [of : Leads \cup {0}, version : Nat] /\ spin' \in BOOLEAN /\ failed' \in BOOLEAN
      /\ detail' \in [stage : FetchStages, of : Leads \cup {0}, version : Nat]
      /\ spin' <=> detail'.stage # "idle"
      /\ screen'.of # 0 => screen'.version <= versions'[screen'.of]
      /\ detail'.of # 0 => detail'.version = 0
      /\ DetailFollows'
  BY <1>1, DetailedFields
<1>3. TabTypeOK'
  BY <1>2, Fetches DEF DeskShape, TabTypeOK, FetchTypeOK
<1>4. Spinners'
  BY <1>2, Fetches DEF Spinners
<1>5. detail'.of # 0 => detail'.of \in Leads
  BY <1>2
<1>6. HoldsNoFuture'
  BY <1>1, <1>2, <1>5, TabFacts, Fetches DEF HoldsNoFuture
<1> QED BY <1>2, <1>3, <1>4, <1>6 DEF DeskShape

LEMMA ListShownKeeps ==
  ASSUME GatewayTypeOK, DeskShape, ListShown
  PROVE  DeskShape' /\ UNCHANGED gatewayVars
<1> DEFINE sel == Selection(list.found)
<1>0. /\ list.stage = "served" /\ session = "in" /\ status' = "live" /\ able' = TRUE
      /\ table' = list.found /\ selected' = sel /\ list' = NoFetch
      /\ told' = [l \in Leads |-> Newer(told[l], list.found[l])]
      /\ UNCHANGED <<gatewayVars, session, filter, cache, pending, key, moves>>
  BY TabFacts DEF ListShown
<1>1. Detailed(sel, cache)
  BY <1>0 DEF ListShown, Detailed
<1>2. sel \in Leads \cup {0}
  BY TabFacts, SelectionOK DEF DeskShape, TabTypeOK
<1> HIDE DEF sel
<1>3. UNCHANGED versions
  BY <1>0 DEF gatewayVars
<1>4. \A l \in Leads : told[l] <= versions[l] /\ list.found[l] <= versions[l]
  BY DEF DeskShape, HoldsNoFuture
<1>5. told' \in [Leads -> Nat] /\ \A l \in Leads : told'[l] <= versions[l]
  <2>1. \A l \in Leads : Newer(told[l], list.found[l]) \in Nat /\ Newer(told[l], list.found[l]) <= versions[l]
    <3> TAKE l \in Leads
    <3>1. told[l] \in Nat /\ list.found[l] \in Nat /\ versions[l] \in Nat
      BY TabFacts
    <3> QED BY <1>4, <3>1, NewerFields
  <2> QED BY <1>0, <2>1
<1>6. list.found \in [Leads -> Nat]
  BY TabFacts
<1> QED BY <1>0, <1>1, <1>2, <1>3, <1>5, <1>6, LoadEndsKeeps

LEMMA ListFailsKeeps ==
  ASSUME GatewayTypeOK, DeskShape, ListFails
  PROVE  DeskShape'
<1>0. /\ list.stage # "idle" /\ session = "in" /\ status' = "live" /\ able' = FALSE
      /\ table' = NoRows /\ list' = NoFetch
      /\ UNCHANGED <<versions, session, filter, selected, cache, pending, key, told, moves>>
  BY TabFacts DEF ListFails, Trouble
<1>1. Detailed(selected, cache) /\ selected \in Leads \cup {0} /\ table' \in [Leads -> Nat]
  BY <1>0, Fetches DEF ListFails, DeskShape, TabTypeOK
<1>2. told' \in [Leads -> Nat] /\ \A l \in Leads : told'[l] <= versions[l]
  BY <1>0 DEF DeskShape, TabTypeOK, HoldsNoFuture
<1> QED BY <1>0, <1>1, <1>2, LoadEndsKeeps

LEMMA SelectKeeps ==
  ASSUME GatewayTypeOK, DeskShape, NEW l \in Leads, Select(l)
  PROVE  DeskShape' /\ UNCHANGED gatewayVars
<1>0. /\ session = "in" /\ selected' = l /\ moves' \in 0..MaxMoves
      /\ UNCHANGED <<gatewayVars, session, status, able, table, cache, list, pending, key, told>>
  BY MoveCounts DEF Select
<1>1. UNCHANGED versions
  BY <1>0 DEF gatewayVars
<1>2. cache \in [Leads -> Nat] /\ (\A k \in Leads : cache[k] <= versions[k]) /\ Detailed(l, cache)
  BY DEF DeskShape, TabTypeOK, HoldsNoFuture, Select
<1>3. /\ screen' \in [of : Leads \cup {0}, version : Nat] /\ spin' \in BOOLEAN /\ failed' \in BOOLEAN
      /\ detail' \in [stage : FetchStages, of : Leads \cup {0}, version : Nat]
      /\ spin' <=> detail'.stage # "idle"
      /\ screen'.of # 0 => screen'.version <= versions'[screen'.of]
      /\ detail'.of # 0 => detail'.version = 0
      /\ DetailFollows'
  BY <1>0, <1>1, <1>2, DetailedFields
<1>4. TabTypeOK'
  BY <1>0, <1>3 DEF DeskShape, TabTypeOK, FetchTypeOK
<1>5. Spinners'
  BY <1>0, <1>3 DEF DeskShape, Spinners
<1>6. detail'.of # 0 => detail'.of \in Leads
  BY <1>3
<1>7. HoldsNoFuture'
  BY <1>0, <1>1, <1>3, <1>6, TabFacts DEF DeskShape, HoldsNoFuture
<1> QED BY <1>0, <1>3, <1>4, <1>5, <1>7 DEF DeskShape

LEMMA DetailServedKeeps ==
  ASSUME GatewayTypeOK, DeskShape, DetailServed
  PROVE  DeskShape' /\ UNCHANGED gatewayVars
<1>0. /\ detail.stage = "sent" /\ session = "in"
      /\ detail' = [detail EXCEPT !.stage = "served", !.version = versions[detail.of]]
      /\ UNCHANGED <<gatewayVars, session, status, able, table, selected, screen, spin,
                     failed, cache, list, pending, key, told, moves>>
  BY TabFacts DEF DetailServed
<1>1. UNCHANGED versions
  BY <1>0 DEF gatewayVars
<1>2. detail.of = selected /\ selected # 0 /\ detail.of \in Leads /\ versions[detail.of] \in Nat
  BY <1>0, TabFacts DEF DeskShape, DetailFollows
<1>3. /\ detail' \in [stage : FetchStages, of : Leads \cup {0}, version : Nat]
      /\ detail'.stage = "served" /\ detail'.of = detail.of /\ detail'.version = versions[detail.of]
  BY <1>0, <1>2, TabFacts DEF FetchStages
<1>4. TabTypeOK'
  BY <1>0, <1>3 DEF DeskShape, TabTypeOK, FetchTypeOK
<1>5. Spinners'
  BY <1>0, <1>3 DEF DeskShape, Spinners
<1>6. HoldsNoFuture'
  BY <1>0, <1>1, <1>2, <1>3 DEF DeskShape, HoldsNoFuture
<1>7. DetailFollows'
  BY <1>0, <1>2, <1>3 DEF DeskShape, HoldsNoFuture, DetailFollows
<1> QED BY <1>0, <1>4, <1>5, <1>6, <1>7 DEF DeskShape

LEMMA DetailShownKeeps ==
  ASSUME GatewayTypeOK, DeskShape, DetailShown
  PROVE  DeskShape' /\ UNCHANGED gatewayVars
<1> DEFINE l == detail.of
           v == detail.version
<1>0. /\ detail.stage = "served" /\ session = "in"
      /\ cache' = [cache EXCEPT ![l] = v] /\ screen' = [of |-> l, version |-> v]
      /\ told' = [told EXCEPT ![l] = Newer(@, v)] /\ spin' = FALSE /\ detail' = NoLook
      /\ UNCHANGED <<gatewayVars, session, status, able, table, selected, failed, list, pending, key, moves>>
  BY TabFacts DEF DetailShown
<1>1. UNCHANGED versions
  BY <1>0 DEF gatewayVars
<1>2. l = selected /\ l \in Leads /\ v \in Nat /\ told[l] <= v /\ v <= versions[l] /\ told[l] \in Nat
  BY <1>0, TabFacts DEF DeskShape, DetailFollows, HoldsNoFuture
<1> HIDE DEF l, v
<1>3. Newer(told[l], v) = v
  BY <1>2, NewerFields
<1>4. cache \in [Leads -> Nat] /\ told \in [Leads -> Nat]
  BY DEF DeskShape, TabTypeOK
<1>5. /\ cache' \in [Leads -> Nat] /\ told' \in [Leads -> Nat] /\ cache'[l] = v /\ told'[l] = v
      /\ \A m \in Leads : m # l => cache'[m] = cache[m] /\ told'[m] = told[m]
  BY <1>0, <1>2, <1>3, <1>4
<1>6. screen' \in [of : Leads \cup {0}, version : Nat] /\ screen'.of = l /\ screen'.version = v
  BY <1>0, <1>2
<1>7. TabTypeOK'
  BY <1>0, <1>5, <1>6, Fetches DEF DeskShape, TabTypeOK, FetchTypeOK
<1>8. Spinners'
  BY <1>0, Fetches DEF DeskShape, Spinners
<1>9. HoldsNoFuture'
  BY <1>0, <1>1, <1>2, <1>5, <1>6, Fetches DEF DeskShape, HoldsNoFuture
<1>10. DetailFollows'
  BY <1>0, <1>2, <1>5, <1>6, Fetches DEF DetailFollows
<1> QED BY <1>0, <1>7, <1>8, <1>9, <1>10 DEF DeskShape

LEMMA DetailFailsKeeps ==
  ASSUME GatewayTypeOK, DeskShape, DetailFails
  PROVE  DeskShape'
<1>0. /\ detail.stage # "idle" /\ session = "in" /\ failed' = TRUE /\ spin' = FALSE /\ detail' = NoLook
      /\ UNCHANGED <<versions, session, status, able, table, selected, screen, cache,
                     list, pending, key, told, moves>>
  BY TabFacts DEF DetailFails, Trouble
<1>1. TabTypeOK'
  BY <1>0, Fetches DEF DeskShape, TabTypeOK, FetchTypeOK
<1>2. Spinners' /\ DetailFollows'
  BY <1>0, Fetches DEF DeskShape, Spinners, DetailFollows
<1>3. HoldsNoFuture'
  BY <1>0, Fetches DEF DeskShape, HoldsNoFuture
<1> QED BY <1>1, <1>2, <1>3 DEF DeskShape

\* A change of what is listened to, or of the request id, shows nothing.
LEMMA QuietKeeps ==
  ASSUME GatewayTypeOK, DeskShape, pending' \subseteq Calls, session = "in" \/ pending' = {},
         key' \in Nat, moves' \in 0..MaxMoves,
         UNCHANGED <<versions, session, status, able, table, selected, screen, spin, failed,
                     cache, list, detail, told>>
  PROVE  DeskShape'
<1>1. TabTypeOK'
  BY DEF DeskShape, TabTypeOK, FetchTypeOK
<1>2. Spinners' /\ DetailFollows' /\ HoldsNoFuture'
  BY DEF DeskShape, TabTypeOK, Spinners, DetailFollows, HoldsNoFuture
<1> QED BY <1>1, <1>2 DEF DeskShape

\* A panel sends what is on the screen, which is not ahead of the server.
LEMMA PressKeeps ==
  ASSUME GateInv, DeskShape, NEW c \in Calls, NEW r \in Presses, Press(c, r)
  PROVE  GateInv' /\ DeskShape'
<1>0. /\ session = "in" /\ Post(c, r, Target(r), Expects(r), KeyOf(r)) /\ pending' = pending \cup {c}
      /\ Table[r].effect \in {"updates", "touches"} => screen.of # 0
      /\ UNCHANGED <<grants, versions, taken, trail, upsets>>
      /\ UNCHANGED <<session, status, able, table, selected, screen, spin, failed,
                     cache, list, detail, key, told, moves>>
  BY DEF Press
<1>1. GatewayTypeOK /\ r \in DOMAIN Table /\ key \in Nat
  BY DeskBounds DEF GateInv, DeskShape, TabTypeOK
<1>2. Target(r) \in Leads \cup {0} /\ Expects(r) \in Nat /\ KeyOf(r) \in Nat
  BY <1>1, TabFacts DEF Target, Expects, KeyOf
<1>3. Table[r].effect \in {"updates", "touches"} => Target(r) # 0
  BY <1>0 DEF Target
<1>4. Table[r].effect = "updates" => Expects(r) <= versions[Target(r)]
  BY <1>0 DEF Target, Expects, DeskShape, HoldsNoFuture
<1>5. GateInv'
  BY <1>0, <1>1, <1>2, <1>3, <1>4, PostKeeps
<1>6. DeskShape'
  BY <1>0, <1>1, QuietKeeps DEF DeskShape, TabTypeOK
<1> QED BY <1>5, <1>6

\* The answer of a change shows the lead as it was then, and its detail is fetched again.
LEMMA StoreDetailKeeps ==
  ASSUME GatewayTypeOK, DeskShape, session = "in", NEW l \in Leads, NEW v \in Nat, v <= versions[l],
         StoreDetail(l, v), UNCHANGED <<versions, session, able, moves>>, pending' \subseteq Calls
  PROVE  DeskShape'
<1>0. /\ cache' = [cache EXCEPT ![l] = v] /\ table' = [table EXCEPT ![l] = v] /\ selected' = l
      /\ told' = [told EXCEPT ![l] = Newer(@, v)] /\ UNCHANGED <<status, list, key>>
  BY DEF StoreDetail
<1>1. /\ cache \in [Leads -> Nat] /\ table \in [Leads -> Nat] /\ told \in [Leads -> Nat]
      /\ told[l] \in Nat /\ versions[l] \in Nat
      /\ \A m \in Leads : cache[m] <= versions[m] /\ told[m] <= versions[m]
  BY TabFacts DEF DeskShape, TabTypeOK, HoldsNoFuture
<1>2. Newer(told[l], v) \in Nat /\ Newer(told[l], v) <= versions[l]
  BY <1>1, NewerFields
<1>3. /\ cache' \in [Leads -> Nat] /\ table' \in [Leads -> Nat] /\ told' \in [Leads -> Nat]
      /\ \A m \in Leads : cache'[m] <= versions[m] /\ told'[m] <= versions[m]
  BY <1>0, <1>1, <1>2
<1>4. Detailed(l, cache')
  BY DEF StoreDetail
<1>5. /\ screen' \in [of : Leads \cup {0}, version : Nat] /\ spin' \in BOOLEAN /\ failed' \in BOOLEAN
      /\ detail' \in [stage : FetchStages, of : Leads \cup {0}, version : Nat]
      /\ spin' <=> detail'.stage # "idle"
      /\ screen'.of # 0 => screen'.version <= versions'[screen'.of]
      /\ detail'.of # 0 => detail'.version = 0
      /\ DetailFollows'
  BY <1>0, <1>3, <1>4, DetailedFields
<1>6. TabTypeOK'
  BY <1>0, <1>3, <1>5 DEF DeskShape, TabTypeOK, FetchTypeOK
<1>7. Spinners'
  BY <1>0, <1>5 DEF DeskShape, Spinners
<1>8. detail'.of # 0 => detail'.of \in Leads
  BY <1>5
<1>9. HoldsNoFuture'
  BY <1>0, <1>3, <1>5, <1>8, TabFacts DEF DeskShape, HoldsNoFuture
<1> QED BY <1>5, <1>6, <1>7, <1>9 DEF DeskShape

LEMMA HearKeeps ==
  ASSUME GateInv, DeskShape, NEW c \in Calls, Hear(c)
  PROVE  GateInv' /\ DeskShape'
<1>0. /\ GatewayTypeOK /\ call[c].stage \in Ended /\ Moves(c, "closed") /\ pending' = pending \ {c}
      /\ UNCHANGED <<grants, versions, taken, trail, upsets>> /\ UNCHANGED <<session, able, moves>>
  BY DEF GateInv, Hear
<1>1. GateInv'
  <2>1. call[c].stage \in {"done", "refused"} \cup Settled /\ "closed" \in Stages
    BY <1>0 DEF Ended, Settled, Stages
  <2>2. upsets' \in 0..MaxUpsets
    BY <1>0 DEF GatewayTypeOK
  <2> QED BY <1>0, <2>1, <2>2, MoveKeeps
<1>2. pending' \subseteq Calls /\ moves' \in 0..MaxMoves
  BY <1>0 DEF DeskShape, TabTypeOK
<1>3. c \in pending => session = "in"
  BY <1>0, TabFacts
<1>4. DeskShape'
  <2>1. CASE c \in pending /\ call[c].target # 0 /\ StoreDetail(call[c].target, call[c].version)
    <3>1. call[c].target \in Leads /\ call[c].version \in Nat /\ call[c].version <= versions[call[c].target]
      BY <1>0, <2>1, CallFields DEF GateInv, ReadsAgree
    <3> QED BY <1>0, <1>2, <1>3, <2>1, <3>1, StoreDetailKeeps
  <2>2. CASE c \in pending /\ Applied
    <3>1. key' \in Nat
      BY <2>2 DEF Applied, DeskShape, TabTypeOK
    <3> QED BY <1>0, <1>2, <1>3, <2>2, <3>1, ReloadKeeps DEF Applied, Reload
  <2>3. CASE UNCHANGED <<status, table, selected, screen, spin, failed, cache, list, detail, key, told>>
    <3>1. key' \in Nat
      BY <2>3 DEF DeskShape, TabTypeOK
    <3>2. session = "in" \/ pending' = {}
      BY <1>0, TabFacts
    <3> QED BY <1>0, <1>2, <2>3, <3>1, <3>2, QuietKeeps
  <2> QED BY <2>1, <2>2, <2>3 DEF Hear
<1> QED BY <1>1, <1>4

\* The tab alone moves, or a fetch of it fails.
LEMMA RestKeeps ==
  ASSUME GateInv, UNCHANGED gatewayVars \/ Trouble
  PROVE  GateInv'
<1>1. GatewayTypeOK /\ UNCHANGED <<grants, versions, call, taken, trail>>
  BY DEF GateInv, gatewayVars, Trouble
<1>2. upsets' \in 0..MaxUpsets
  BY <1>1, UpsetType DEF gatewayVars, Trouble, GatewayTypeOK
<1>3. GatewayTypeOK' /\ Grows
  BY <1>1, <1>2, NothingGrows DEF GatewayTypeOK
<1> QED BY <1>1, <1>3, OthersKeep

LEMMA TabKeeps ==
  ASSUME GateInv, DeskShape, Tab
  PROVE  GateInv' /\ DeskShape'
<1>0. GatewayTypeOK /\ key \in Nat /\ moves \in 0..MaxMoves /\ pending \subseteq Calls
  BY DEF GateInv, DeskShape, TabTypeOK
<1>1. CASE Leave
  <2>1. Unmount /\ NewKey /\ moves' \in 0..MaxMoves /\ UNCHANGED gatewayVars
    BY <1>1, MoveCounts DEF Leave
  <2> QED BY <1>0, <2>1, RestKeeps, UnmountKeeps DEF gatewayVars
<1>2. CASE SignIn
  <2>1. /\ session' = "in" /\ list' = Fetching /\ moves' \in 0..MaxMoves /\ UNCHANGED gatewayVars
        /\ UNCHANGED <<status, able, table, selected, screen, spin, failed, cache, detail, pending, key, told>>
        /\ session = "out"
    BY <1>2, MoveCounts DEF SignIn
  <2>2. status' = "loading"
    BY <2>1 DEF DeskShape, DetailFollows
  <2> QED BY <1>0, <2>1, <2>2, RestKeeps, ReloadKeeps DEF gatewayVars
<1>3. CASE \E f \in Filters : SetFilter(f)
  <2>1. /\ session' = "in" /\ list' = Fetching /\ status' = "loading" /\ moves' \in 0..MaxMoves
        /\ UNCHANGED gatewayVars
        /\ UNCHANGED <<able, table, selected, screen, spin, failed, cache, detail, pending, key, told>>
    BY <1>3, MoveCounts DEF SetFilter, Reload
  <2> QED BY <1>0, <2>1, RestKeeps, ReloadKeeps DEF gatewayVars
<1>4. CASE Refresh
  <2>1. /\ session' = "in" /\ list' = Fetching /\ status' = "loading" /\ moves' \in 0..MaxMoves
        /\ UNCHANGED gatewayVars /\ cache' = NoRows
        /\ UNCHANGED <<able, table, selected, screen, spin, failed, detail, pending, key, told>>
    BY <1>4, MoveCounts DEF Refresh, Reload
  <2> QED BY <1>0, <2>1, RestKeeps, ReloadKeeps DEF gatewayVars
<1>5. CASE ListServed \/ ListShown \/ DetailServed \/ DetailShown \/ \E l \in Leads : Select(l)
  BY <1>0, <1>5, RestKeeps, ListServedKeeps, ListShownKeeps, DetailServedKeeps, DetailShownKeeps, SelectKeeps
<1>6. CASE ListEndsSession \/ DetailEndsSession
  <2>1. Trouble /\ Unmount /\ NewKey /\ UNCHANGED moves
    BY <1>6 DEF ListEndsSession, DetailEndsSession
  <2>2. UNCHANGED versions /\ moves' \in 0..MaxMoves
    BY <1>0, <2>1 DEF Trouble
  <2> QED BY <1>0, <2>1, <2>2, RestKeeps, UnmountKeeps
<1>7. CASE ListFails \/ DetailFails
  <2>1. Trouble
    BY <1>7 DEF ListFails, DetailFails
  <2> QED BY <1>0, <1>7, <2>1, RestKeeps, ListFailsKeeps, DetailFailsKeeps
<1>8. CASE \E c \in Calls, r \in Presses : Press(c, r)
  BY <1>8, PressKeeps
<1>9. CASE \E c \in Calls : Hear(c)
  BY <1>9, HearKeeps
<1>10. CASE Reopen
  <2>1. /\ session = "in" /\ key' \in Nat /\ moves' \in 0..MaxMoves /\ pending' \subseteq Calls
        /\ UNCHANGED gatewayVars
        /\ UNCHANGED <<session, status, able, table, selected, screen, spin, failed, cache, list, detail, told>>
    BY <1>0, <1>10, MoveCounts DEF Reopen, NewKey
  <2> QED BY <1>0, <2>1, RestKeeps, QuietKeeps DEF gatewayVars
<1> QED BY <1>1, <1>2, <1>3, <1>4, <1>5, <1>6, <1>7, <1>8, <1>9, <1>10 DEF Tab
-------------------------------------------------------------------------------
(* The theorems.                                                              *)

\* Requests and tab keep their types and agree with each other: see GateInv and DeskShape.
THEOREM DeskInvariant == DeskSpec => [](GateInv /\ DeskShape)
<1>1. DeskInit => GateInv /\ DeskShape
  BY GateInvInit, DeskShapeInit
<1>2. (GateInv /\ DeskShape) /\ [DeskNext]_tabVars => (GateInv /\ DeskShape)'
  <2> SUFFICES ASSUME GateInv, DeskShape, [DeskNext]_tabVars PROVE GateInv' /\ DeskShape'
    OBVIOUS
  <2>1. CASE Tab
    BY <2>1, TabKeeps
  <2>2. CASE GatewayNext /\ UNCHANGED deskVars
    BY <2>2, GatewayKeeps, GrowingKeeps DEF GateInv
  <2>3. CASE UNCHANGED tabVars
    <3>1. UNCHANGED gatewayVars /\ UNCHANGED deskVars
      BY <2>3 DEF tabVars
    <3>2. GateInv' /\ Grows
      BY <3>1, RestKeeps, NothingGrows DEF gatewayVars, GateInv
    <3> QED BY <3>1, <3>2, GrowingKeeps DEF GateInv
  <2> QED BY <2>1, <2>2, <2>3 DEF DeskNext
<1> QED BY <1>1, <1>2, PTL DEF DeskSpec

\* The audit trail (app.ts 867-869) tells the truth although it is written after the commit and
\* from what was read before it: one record for each effect that was answered, none for a refusal
\* or a repeated request id, and the step that an update made, whoever else changes the lead.
THEOREM TrailTellsTruth == DeskSpec => []AuditTrail
<1>1. GateInv => AuditTrail
  BY TrailFollows
<1> QED BY <1>1, DeskInvariant, PTL

\* The workspace says that it is loading exactly while an answer is on the way that will end it,
\* whatever is aborted, superseded or fails (useLeadData 102-197, 224-249).
THEOREM SpinnersTellTruth == DeskSpec => []DeskInv
<1>1. (GateInv /\ DeskShape) => DeskInv
  BY DeskShapeIsInv DEF GateInv
<1> QED BY <1>1, DeskInvariant, PTL

\* Once everything is answered the panel shows the selected lead, and no older version of it than
\* the tab was ever given, in whichever order answers, lists and details arrived.
THEOREM PanelIsFresh == DeskSpec => []AtRestFresh
<1>1. (GateInv /\ DeskShape) => AtRestFresh
  <2> SUFFICES ASSUME GateInv, DeskShape, AtRest, selected # 0, ~failed
               PROVE  screen.of = selected /\ screen.version >= told[selected]
    BY DEF AtRestFresh
  <2>1. screen.of = selected /\ told[selected] <= screen.version
    BY DEF AtRest, DeskShape, DetailFollows
  <2>2. told[selected] \in Nat /\ screen.version \in Nat
    BY TabFacts DEF GateInv, DeskShape, TabTypeOK
  <2> QED BY <2>1, <2>2
<1> QED BY <1>1, DeskInvariant, PTL
===============================================================================
