------------------------- MODULE MC_VolumeSummary -------------------------
(***************************************************************************)
(* Model-checking instance of VolumeSummary.  The script summarizes 500    *)
(* blocks over 20 assets; here two blocks of up to two transactions over   *)
(* two assets, with sell assets 0, 1 and 2 (one beyond num_assets),        *)
(* amounts 1 and 2, and operations that are not sell offers.               *)
(***************************************************************************)
EXTENDS VolumeSummary
=============================================================================
