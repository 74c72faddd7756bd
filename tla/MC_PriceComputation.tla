------------------------- MODULE MC_PriceComputation -------------------------
(***************************************************************************)
(* Model-checking instance of PriceComputation.  The code sweeps seven     *)
(* levels (100 .. 50000 orders) over five trials; here two levels over two *)
(* trials, with order counts scaled down so that a block may be too short  *)
(* for the second level (the IndexError path) or long enough for both.     *)
(***************************************************************************)
EXTENDS PriceComputation

MC_num_tx_list == <<1, 3>>
MC_num_trials == 2
MC_BlockSizes == {2, 3}

=============================================================================
