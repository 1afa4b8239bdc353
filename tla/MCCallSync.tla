------------------------------ MODULE MCCallSync ------------------------------
(* CallSync for TLC.  *)
EXTENDS CallSync, TLC
===============================================================================
