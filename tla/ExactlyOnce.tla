------------------------------ MODULE ExactlyOnce ------------------------------
(***************************************************************************)
(* What a request ledger promises, whatever is behind it: items are        *)
(* settled, some of them with an effect, and never again afterwards.       *)
(***************************************************************************)
EXTENDS Naturals

CONSTANT Items
VARIABLES open, effects

Init == open = Items /\ effects = [i \in Items |-> 0]

\* Some open items are settled together, each with one effect or none.
Settle ==
  /\ open' \subseteq open
  /\ effects' \in [Items -> 0..1]
  /\ \A i \in Items : effects'[i] # effects[i] => i \in open \ open' /\ effects[i] = 0

Spec == Init /\ [][Settle]_<<open, effects>>
================================================================================
