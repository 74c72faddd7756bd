-------------------------- MODULE GraphGeneration --------------------------
(***************************************************************************)
(* The command line of src/implementation/src/graph_generation.py (lines   *)
(* 504-527): args.graph selects one of four modes over the same            *)
(* results_files.  The two single modes are SinglePlots; the two           *)
(* thread-count comparisons are ThreadComparison, each with its own        *)
(* attribute list.  The mode is fixed for the whole behaviour; the         *)
(* variables of the part a mode does not run keep their initial values.   *)
(***************************************************************************)
EXTENDS Naturals, Sequences, SequencesExt

CONSTANTS
    Files, MaxRounds, MaxTxPoints, NoFile,   \* as in SinglePlots
    ParamSets, Schemas                       \* as in ThreadComparison

VARIABLES
    mode, disk, k, stage, run, fig, saved,        \* SinglePlots
    experiments, phase, attr, i, series, figures  \* ThreadComparison

sp_vars == <<mode, disk, k, stage, run, fig, saved>>
tc_vars == <<experiments, phase, attr, i, series, figures>>
vars == <<sp_vars, tc_vars>>

\* Lines 385-394: make_production_thread_comparison_plots' attributes.
production_thread_attrs ==
    <<"offer_checkpoint_time", "account_log_write_time",
      "offer_clearing_time", "block_building_time", "total_time",
      "state_commitment_time", "db_state_commitment_time",
      "work_unit_commitment_time", "account_log_hash_time">>

\* Lines 401-409: make_validation_thread_comparison_plots' attributes.
validation_thread_attrs ==
    <<"total_time", "account_log_write_time", "tx_validation_time",
      "db_tentative_commit_time", "hash_time", "account_log_finalization_time",
      "check_workunit_validation_time", "workunit_finalization_time">>

SP == INSTANCE SinglePlots

\* Lines 524-527: both comparisons take len(results_files) runs.
TCP == INSTANCE ThreadComparison
         WITH NumRuns <- Len(Files), attributes <- production_thread_attrs
TCV == INSTANCE ThreadComparison
         WITH NumRuns <- Len(Files), attributes <- validation_thread_attrs

Modes == SP!SingleModes \cup {"production_threadcount_comparison",
                              "validation_threadcount_comparison"}

\* The variables of the part the mode does not run.
SPIdle == SP!InitState /\ disk = [f \in Range(Files) |-> NoFile]
TCIdle ==
    /\ TCP!Init
    /\ experiments = CHOOSE e \in [1 .. Len(Files) ->
                                     [params : ParamSets, paths : Schemas]] : TRUE

\* Lines 508-516: argparse accepts one of the four modes.
Init ==
    \/ mode \in SP!SingleModes /\ SP!InitState /\ TCIdle
    \/ mode = "production_threadcount_comparison" /\ TCP!Init /\ SPIdle
    \/ mode = "validation_threadcount_comparison" /\ TCV!Init /\ SPIdle

\* Lines 518-527: the branch of the mode runs.
Next ==
    \/ mode \in SP!SingleModes /\ SP!Next /\ UNCHANGED tc_vars
    \/ mode = "production_threadcount_comparison" /\ TCP!Next
         /\ UNCHANGED sp_vars
    \/ mode = "validation_threadcount_comparison" /\ TCV!Next
         /\ UNCHANGED sp_vars

\* The script is one thread that runs until it exits.
Spec == Init /\ [][Next]_vars /\ WF_vars(Next)

(***************************************************************************)
(* Properties.                                                             *)
(***************************************************************************)

\* Every variable holds a value of its intended type.
TypeOK ==
    /\ mode \in Modes
    /\ SP!TypeOK
    /\ IF mode = "validation_threadcount_comparison" THEN TCV!TypeOK
                                                     ELSE TCP!TypeOK

\* In the single modes, the saved figures are the four of the mode for each
\* file in order, each showing every measurement of each of its attributes
\* once at the x of its round (SinglePlots!SavedFiguresMatchRuns).  About
\* the file loop of lines 518-523 and the series and scatter bookkeeping.
SavedFiguresMatchRuns == SP!SavedFiguresMatchRuns

\* In either comparison mode, a saved comparison shows every run once in
\* file order and all its runs agree on every parameter but the thread
\* count (ThreadComparison!ComparedRunsShareParams).  About
\* make_comparison_plot drawing a run before it checks its parameters.
ComparedRunsShareParams == TCP!ComparedRunsShareParams

=============================================================================
