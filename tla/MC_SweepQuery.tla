--------------------------- MODULE MC_SweepQuery ---------------------------
(***************************************************************************)
(* Model-checking instance of SweepQuery.  Two result files and one other  *)
(* entry; two tax rates that CPython's set iterates out of ascending order *)
(* (10 mod 8 = 2 comes before 5); one smooth_mult; two transaction counts, *)
(* of which only 500 is drawn (the SOSP sweep also writes num_txs = 100,   *)
(* which none of the script's lists contains).                             *)
(***************************************************************************)
EXTENDS SweepQuery

MC_Taxes == {5, 10}
MC_Mults == {1}
MC_TxCounts == {100, 500}
MC_TxList1 == <<500>>
MC_TxList2 == <<500>>
=============================================================================
