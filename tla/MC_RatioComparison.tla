------------------------- MODULE MC_RatioComparison -------------------------
(***************************************************************************)
(* Model-checking instance of RatioComparison: runs of up to three rounds  *)
(* over metric values 0 (a division by zero), 1 and 2, and three parameter *)
(* sets: a base one, the same with another thread count, and one with     *)
(* another tax rate.                                                       *)
(***************************************************************************)
EXTENDS RatioComparison

P(assets, tax, smooth, threads, accounts) ==
    [num_assets |-> assets, tax_rate |-> tax, smooth_mult |-> smooth,
     num_threads |-> threads, num_accounts |-> accounts]

MC_ParamSets == {P(10, 1, 1, 4, 100), P(10, 1, 1, 8, 100), P(10, 2, 1, 4, 100)}
=============================================================================
