------------------------- MODULE MC_CoinFormatter -------------------------
(***************************************************************************)
(* Model-checking instance of CoinFormatter.  The script formats twenty    *)
(* coins over a 500-day window; here two coins, a three-day window (day    *)
(* offsets -3 .. -1) and files of up to two rows dated from four days      *)
(* before end_date to end_date itself, with two distinct quotes: data     *)
(* before, inside and after the window, gaps, and two rows for one day.    *)
(***************************************************************************)
EXTENDS CoinFormatter

CONSTANTS cake, ada, q1, q2

MC_coins == <<cake, ada>>

MC_Days == -4 .. 0
=============================================================================
