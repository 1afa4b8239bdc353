------------------------------ MODULE SessionChain ------------------------------
(***************************************************************************)
(* What a repository of device sessions promises.  A phone has at most one *)
(* session; it is handed over from one to the next or taken away, and one  *)
(* that was is spent: it never comes back.  A barred phone has none.       *)
(* Only a phone that has one may store calls.                              *)
(***************************************************************************)
CONSTANTS Phones, Sessions
VARIABLES holds, spent, barred, stored

Init ==
  /\ holds = [p \in Phones |-> {}]
  /\ spent = {}
  /\ barred = {}
  /\ stored = [p \in Phones |-> {}]

\* c was never a session before, not even of another phone.
Hand(p, c) ==
  /\ p \notin barred
  /\ c \notin spent /\ \A q \in Phones : c \notin holds[q]
  /\ holds' = [holds EXCEPT ![p] = {c}]
  /\ spent \cup holds[p] \subseteq spent' /\ c \notin spent'
  /\ UNCHANGED <<barred, stored>>

\* Phones lose their sessions, and some of them are barred for good; tokens that never became
\* sessions may be spent with them.
Take(P) ==
  /\ holds' = [p \in Phones |-> IF p \in P THEN {} ELSE holds[p]]
  /\ spent \cup UNION {holds[p] : p \in P} \subseteq spent'
  /\ \A p \in Phones : holds'[p] \cap spent' = {}
  /\ barred \subseteq barred' /\ \A p \in barred' : holds'[p] = {}
  /\ UNCHANGED stored

Store(p) ==
  /\ holds[p] # {} /\ p \notin barred
  /\ stored[p] \subseteq stored'[p] /\ \A q \in Phones \ {p} : stored'[q] = stored[q]
  /\ UNCHANGED <<holds, spent, barred>>

Next ==
  \/ \E P \in SUBSET Phones : Take(P)
  \/ \E p \in Phones, c \in Sessions : Hand(p, c)
  \/ \E p \in Phones : Store(p)

Spec == Init /\ [][Next]_<<holds, spent, barred, stored>>
================================================================================
