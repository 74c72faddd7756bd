---------------------------- MODULE SinglePlots ----------------------------
(***************************************************************************)
(* The single-run modes of src/implementation/src/graph_generation.py      *)
(* (production_single, validation_single; lines 518-523): for each results *)
(* file, in command-line order, load it and save its four figures.  A line *)
(* figure draws, for each attribute of its list, the attribute's value in  *)
(* every round; the tx-processing figure scatters, for two attributes,     *)
(* every processing measurement of every round at the round's index.  A   *)
(* load error is raised again and ends the script.                         *)
(*                                                                         *)
(* A run is, per round (block_results), its number of                      *)
(* processing_measurements.  The value of attribute a in round i is        *)
(* <<a, i>>, that of the j-th processing measurement <<a, i, j>>; a series *)
(* is its x and y lists, x being plt.plot's implicit 0 .. n-1 for a line.  *)
(* Attribute paths are given by their last component; legends, axis      *)
(* labels and the parameter text box are layout and are left out.         *)
(***************************************************************************)
EXTENDS Naturals, Sequences, SequencesExt, Functions

CONSTANTS
    Files,         \* args.results_files, in order
    MaxRounds,     \* bound: block_results per run
    MaxTxPoints,   \* bound: processing_measurements per block
    NoFile         \* model value: the file cannot be loaded

SingleModes == {"production_single", "validation_single"}

Runs == BoundedSeq(0 .. MaxTxPoints, MaxRounds)

\* Lines 71-107: plot_block_measurements_over_rounds.
block_attrs == <<"block_building_time", "initial_account_db_commit_time",
    "initial_offer_db_commit_time", "tatonnement_time", "lp_time",
    "clearing_check_time", "offer_clearing_time", "db_validity_check_time",
    "final_commit_time">>

\* Lines 109-117: plot_overhead_time_over_rounds.
overhead_attrs == <<"state_commitment_time", "format_time">>

\* Lines 119-151: plot_persistence_over_rounds.
persistence_attrs == <<"wait_for_persist_time", "header_write_time",
    "account_db_checkpoint_time", "account_db_checkpoint_sync_time",
    "account_db_checkpoint_finish_time", "offer_checkpoint_time",
    "account_log_write_time", "block_hash_map_checkpoint_time">>

\* Lines 153-201: plot_validation_over_rounds.
validation_attrs == <<"clearing_param_check", "tx_validation_time",
    "tentative_commit_time", "check_workunit_validation_time",
    "get_dirty_account_time", "db_tentative_commit_time",
    "workunit_hash_time", "hash_time", "db_finalization_time",
    "workunit_finalization_time", "account_log_finalization_time",
    "header_map_finalization_time">>

\* Lines 204-216: plot_validation_overall_measurements_over_rounds.
overall_attrs == <<"block_load_time", "total_persistence_time",
    "validation_logic_time">>

\* Lines 218-230: plot_validation_tx_details_over_rounds.
tx_detail_attrs == <<"tx_validation_trie_merge_time",
    "tx_validation_processing_time", "tx_validation_offer_merge_time">>

\* Lines 314-315: the two scattered attributes.
scatter_attrs == <<"process_time", "finish_time">>

\* Mutant: the loop over block_results starts at index 1.
plot_measurement_skip_first(a, run) ==
    [x |-> [i \in 1 .. Len(run) - 1 |-> i - 1],
     y |-> [i \in 1 .. Len(run) - 1 |-> <<a, i + 1>>]]

\* Lines 44-48: one value per round, drawn at x = 0 .. n-1.
plot_measurement_over_rounds(a, run) ==
    [x |-> [i \in DOMAIN run |-> i - 1], y |-> [i \in DOMAIN run |-> <<a, i>>]]

\* Lines 292-297: the attribute of every processing measurement of round i.
get_tx_processing_pts(a, run, i) == [j \in 1 .. run[i] |-> <<a, i, j>>]

\* Mutant: the x values of a round are repeated len(yvals) times, the
\* points accumulated so far, instead of len(new_yvals).
scatter_len_yvals(a, run) ==
    LET before(i) == FlattenSeq([r \in 1 .. i - 1 |->
                                   get_tx_processing_pts(a, run, r)])
    IN [x |-> FlattenSeq([i \in DOMAIN run |->
                            [j \in 1 .. Len(before(i)) |-> i - 1]]),
        y |-> FlattenSeq([i \in DOMAIN run |-> get_tx_processing_pts(a, run, i)])]

\* Lines 299-310: xvals += [i] * len(new_yvals); yvals += the points of
\* round i (fetched a second time); plt.scatter(xvals, yvals).
make_tx_processing_scatterplot_oneattr(a, run) ==
    [x |-> FlattenSeq([i \in DOMAIN run |->
                         [j \in 1 .. Len(get_tx_processing_pts(a, run, i)) |-> i - 1]]),
     y |-> FlattenSeq([i \in DOMAIN run |-> get_tx_processing_pts(a, run, i)])]

Fig(name, attrs, scatter) == [name |-> name, attrs |-> attrs, scatter |-> scatter]

\* Lines 325-330: make_production_plots.
production_figures ==
    <<Fig("block_measurements", block_attrs, FALSE),
      Fig("tx_processing", scatter_attrs, TRUE),
      Fig("overhead", overhead_attrs, FALSE),
      Fig("persistence", persistence_attrs, FALSE)>>

\* Lines 332-337: make_validation_plots.
validation_figures ==
    <<Fig("validation_measurements", validation_attrs, FALSE),
      Fig("validation_persistence", persistence_attrs, FALSE),
      Fig("validation_tx_details", tx_detail_attrs, FALSE),
      Fig("validation_overall_measurements", overall_attrs, FALSE)>>

\* Lines 232-321: one make_*_plot call draws the series of its list on a
\* new figure.
DrawFigure(fig, run) ==
    [n \in DOMAIN fig.attrs |->
       IF fig.scatter THEN make_tx_processing_scatterplot_oneattr(fig.attrs[n], run)
                      ELSE plot_measurement_over_rounds(fig.attrs[n], run)]

VARIABLES
    mode,          \* args.graph, fixed for the whole behaviour
    disk,          \* the content of each results file (chosen in Init)
    k,             \* position in Files of the file being plotted
    stage,         \* "load", "plot", "done" or "aborted"
    run,           \* the loaded results of file k
    fig,           \* the next figure of the file's list
    saved          \* the saved figures, in order

sp_vars == <<mode, disk, k, stage, run, fig, saved>>

Plan == IF mode = "production_single" THEN production_figures
                                      ELSE validation_figures

\* Everything but the mode, which the composite chooses for itself.
InitState ==
    /\ disk \in [Range(Files) -> Runs \cup {NoFile}]
    /\ k = 1
    /\ stage = "load"
    /\ run = <<>>
    /\ fig = 1
    /\ saved = <<>>

Init == mode \in SingleModes /\ InitState

\* Lines 326, 333 (load_production_results, load_validation_results):
\* load the next file; a load error ends the script.
LoadFile ==
    /\ stage = "load"
    /\ k <= Len(Files)
    /\ IF disk[Files[k]] = NoFile
         THEN stage' = "aborted" /\ UNCHANGED <<run, fig>>
         ELSE /\ run' = disk[Files[k]]
              /\ fig' = 1
              /\ stage' = "plot"
    /\ UNCHANGED <<mode, disk, k, saved>>

\* Lines 232-321: one figure: plt.figure, its series, legend, savefig,
\* close.
PlotFigure ==
    /\ stage = "plot"
    /\ fig <= Len(Plan)
    /\ saved' = Append(saved, [file |-> Files[k], name |-> Plan[fig].name,
                               series |-> DrawFigure(Plan[fig], run)])
    /\ fig' = fig + 1
    /\ UNCHANGED <<mode, disk, k, stage, run>>

\* Lines 519-523: the next file of the loop.
NextFile ==
    /\ stage = "plot"
    /\ fig > Len(Plan)
    /\ k' = k + 1
    /\ stage' = "load"
    /\ UNCHANGED <<mode, disk, run, fig, saved>>

\* Line 518-523: the loop is over; the script exits.
Finish ==
    /\ stage = "load"
    /\ k > Len(Files)
    /\ stage' = "done"
    /\ UNCHANGED <<mode, disk, k, run, fig, saved>>

Next == LoadFile \/ PlotFigure \/ NextFile \/ Finish

\* The script is one thread that runs until it exits.
Spec == Init /\ [][Next]_sp_vars /\ WF_sp_vars(Next)

(***************************************************************************)
(* Properties.                                                             *)
(***************************************************************************)

Values == (STRING \X Nat) \cup (STRING \X Nat \X Nat)

Series == [x : Seq(Nat), y : Seq(Values)]

\* Every variable holds a value of its intended type.
TypeOK ==
    /\ stage \in {"load", "plot", "done", "aborted"}
    /\ k \in 1 .. Len(Files) + 1
    /\ run \in Runs
    /\ fig \in 1 .. Len(Plan) + 1
    /\ saved \in Seq([file : Range(Files), name : STRING, series : Seq(Series)])

\* The measurements of attribute a in a run: one per round for a line
\* figure, one per processing measurement for the scatter.
Measurements(a, r, scatter) ==
    IF scatter THEN UNION {{<<a, i, j>> : j \in 1 .. r[i]} : i \in DOMAIN r}
               ELSE {<<a, i>> : i \in DOMAIN r}

\* The saved figures are, file after file in command-line order, the four
\* figures of the mode's list; a file's figures are saved only once all of
\* the earlier files' are, and the script ends normally only after every
\* file's.  In each figure, the series of each attribute of its list
\* shows every measurement of that attribute exactly once, at the x of its
\* round (round i at i - 1, where every line figure draws it).  About the
\* file loop of lines 518-523, plot_measurement_over_rounds and the
\* xvals/yvals bookkeeping of make_tx_processing_scatterplot_oneattr.
SavedFiguresMatchRuns ==
    /\ \A m \in DOMAIN saved :
         LET f == Plan[((m - 1) % Len(Plan)) + 1]
             r == disk[saved[m].file]
         IN /\ saved[m].file = Files[((m - 1) \div Len(Plan)) + 1]
            /\ saved[m].name = f.name
            /\ DOMAIN saved[m].series = DOMAIN f.attrs
            /\ \A n \in DOMAIN f.attrs :
                 LET s == saved[m].series[n]
                 IN /\ Len(s.x) = Len(s.y)
                    /\ IsInjective(s.y)
                    /\ Range(s.y) = Measurements(f.attrs[n], r, f.scatter)
                    /\ \A p \in DOMAIN s.y : s.x[p] = s.y[p][2] - 1
    /\ stage = "done" => Len(saved) = Len(Files) * Len(Plan)

=============================================================================
