------------------------ MODULE MC_LenientAggregate ------------------------
(***************************************************************************)
(* Model-checking instance of LenientAggregate.  The script draws four     *)
(* files; here two, each holding one or two results of two trials with    *)
(* zero, one or two runtimes of 1 or 2: empty, partial and complete groups *)
(* and means that differ from the mean over num_trials.                   *)
(***************************************************************************)
EXTENDS LenientAggregate

CONSTANTS cvxpy_10, tatonnement_10

MC_Lines == <<cvxpy_10, tatonnement_10>>
=============================================================================
