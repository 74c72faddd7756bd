------------------------ MODULE MC_GraphGeneration ------------------------
(***************************************************************************)
(* Model-checking instance of GraphGeneration: two results files; runs of  *)
(* up to two rounds with up to two processing measurements each, or a     *)
(* file that cannot be loaded; for the comparisons, four parameter sets   *)
(* (a base one, the same with another thread count, one with another     *)
(* account count, one with another tax rate) and records that resolve    *)
(* every attribute of both lists or all but total_time.                  *)
(***************************************************************************)
EXTENDS GraphGeneration

CONSTANTS r1, r2

MC_Files == <<r1, r2>>

P(assets, tax, smooth, threads, accounts) ==
    [num_assets |-> assets, tax_rate |-> tax, smooth_mult |-> smooth,
     num_threads |-> threads, num_accounts |-> accounts]

MC_ParamSets == {P(10, 1, 1, 4, 100), P(10, 1, 1, 8, 100),
                 P(10, 1, 1, 4, 200), P(10, 2, 1, 4, 100)}

AllPaths == Range(production_thread_attrs) \cup Range(validation_thread_attrs)

MC_Schemas == {AllPaths, AllPaths \ {"total_time"}}
=============================================================================
