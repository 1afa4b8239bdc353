---------------------------- MODULE MCDeviceTrust ----------------------------
(* DeviceTrust for TLC: ids, codes, phones and employees are alike.            *)
EXTENDS DeviceTrust, TLC

Symmetry ==
  Permutations(Ids) \cup Permutations(Codes) \cup Permutations(Devices) \cup Permutations(Employees)

\* Two policies and two requests at once are explored with one code, and so one phone, and one
\* employee; a second code, for the other phone or employee or for a repair, with one of each.
OneByOne ==
  \/ \E e \in Employees, k \in Codes :
       /\ \A o \in Employees \ {e} : empStatus[o] = "invited"
       /\ \A l \in Codes \ {k} : codeState[l] = "none"
       /\ codeFor[k] \in {e, NoEmployee}
  \/ policy <= 1 /\ Cardinality(inflight) <= 1
================================================================================
