--------------------------- MODULE MCWazuhBridge ---------------------------
(***************************************************************************)
(* WazuhBridge for TLC: the first two alerts have no id and share the      *)
(* empty one (2), and the fifth, which has no rule, repeats the id of the  *)
(* sixth.                                                                  *)
(***************************************************************************)
EXTENDS WazuhBridge

MCIdOf == [a \in Alerts |-> CASE a <= 2 -> 2 [] a = 5 -> 6 [] OTHER -> a]
=============================================================================
