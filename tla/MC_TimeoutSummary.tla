------------------------ MODULE MC_TimeoutSummary ------------------------
(***************************************************************************)
(* Model-checking instance of TimeoutSummary: logs of up to three lines,   *)
(* flags 0, 1, 7 and an unparsable one, metrics 0, 1 and 2 (0 is the      *)
(* initial maximum, so a class whose metrics are all 0 is included).       *)
(***************************************************************************)
EXTENDS TimeoutSummary
=============================================================================
