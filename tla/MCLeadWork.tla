------------------------------ MODULE MCLeadWork ------------------------------
(* LeadWork for TLC: a second member in another team, and one of the phone's  *)
(* updates, the first or the second, with a follow-up.                        *)
EXTENDS LeadWork, TLC
CONSTANTS Peer
TeamOf == Me :> "north" @@ Peer :> "south"

\* Bound: the follow-ups are that of one update and those of the managers.
OneDated == Cardinality({r \in Updates : command'[r].due # 0}) <= 1
MCSpec   == Init /\ [][Next /\ OneDated]_vars /\ WF_vars(WorkerStep) /\ WF_vars(DelayOver)
===============================================================================
