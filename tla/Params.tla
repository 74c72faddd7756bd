------------------------------- MODULE Params -------------------------------
(***************************************************************************)
(* ExperimentParameters and their comparison across thread-count sweeps   *)
(* (src/implementation/src/graph_generation.py, lines 339-348), with the   *)
(* specification's definition of the same relation to check it against.  *)
(***************************************************************************)

\* Mutant: the num_accounts comparison is forgotten.
same_params_no_accounts(params1, params2) ==
    /\ params1.tax_rate = params2.tax_rate
    /\ params1.smooth_mult = params2.smooth_mult
    /\ params1.num_assets = params2.num_assets

\* Lines 339-348: same_params_ignoring_threadcount.
same_params_ignoring_threadcount(params1, params2) ==
    /\ params1.tax_rate = params2.tax_rate
    /\ params1.smooth_mult = params2.smooth_mult
    /\ params1.num_assets = params2.num_assets
    /\ params1.num_accounts = params2.num_accounts

\* Spec 3: parameter sets are equal when every field but num_threads is.
SameExceptThreads(p, q) ==
    \A f \in DOMAIN p \ {"num_threads"} : p[f] = q[f]

=============================================================================
