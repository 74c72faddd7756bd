-------------------------- MODULE ThreadComparison --------------------------
(***************************************************************************)
(* The thread-count comparison of src/implementation/src/graph_generation.py *)
(* (make_production_thread_comparison_plots and its validation twin): all  *)
(* the runs are loaded, then for each attribute make_comparison_plot draws *)
(* one series per run on a new figure, checking after each run that its   *)
(* parameters equal the first run's but for the thread count, and saves    *)
(* the figure.  A missing attribute or a parameter mismatch raises and     *)
(* ends the script.                                                        *)
(*                                                                         *)
(* A run is its parameters and the set of attribute paths its records      *)
(* resolve; series values are not modelled, only which run each series     *)
(* comes from.                                                             *)
(***************************************************************************)
EXTENDS Naturals, Sequences, SequencesExt, Params

CONSTANTS
    NumRuns,       \* len(filenames)
    attributes,    \* the attribute list, in order
    ParamSets,     \* ExperimentParameters records the runs may carry
    Schemas        \* sets of attribute paths a run's records may resolve

RunIds == 1 .. NumRuns
Attrs == 1 .. Len(attributes)

VARIABLES
    experiments,   \* the loaded runs (chosen in Init: the files' contents)
    phase,         \* "load", "figure", "plot", "aborted"
    attr,          \* position in attributes of the figure being drawn
    i,             \* the loop index of make_comparison_plot, plus one
    series,        \* the series drawn on the open figure
    figures        \* the figures saved so far

vars == <<experiments, phase, attr, i, series, figures>>

Init ==
    /\ experiments \in [RunIds -> [params : ParamSets, paths : Schemas]]
    /\ phase = "load"
    /\ attr = 1
    /\ i = 1
    /\ series = <<>>
    /\ figures = <<>>

\* Lines 367-371, 395, 410: load every run; a load error is raised again
\* and ends the script.
LoadExperiments ==
    /\ phase = "load"
    /\ phase' \in {"figure", "aborted"}
    /\ UNCHANGED <<experiments, attr, i, series, figures>>

\* Mutant: the series of the previous figure stay on the new one.
NewFigureKeepsSeries ==
    /\ phase = "figure"
    /\ attr <= Len(attributes)
    /\ phase' = "plot"
    /\ i' = 1
    /\ UNCHANGED <<experiments, attr, figures, series>>

\* Lines 396-397, 380-381, 351: the next attribute gets a new figure.
NewFigure ==
    /\ phase = "figure"
    /\ attr <= Len(attributes)
    /\ phase' = "plot"
    /\ i' = 1
    /\ series' = <<>>
    /\ UNCHANGED <<experiments, attr, figures>>

\* Lines 352-358: draw run i's series (attr_func raises AttributeError if
\* the path does not resolve), then check its parameters against run 1's.
PlotRun ==
    /\ phase = "plot"
    /\ i <= NumRuns
    /\ \/ /\ attributes[attr] \notin experiments[i].paths
          /\ phase' = "aborted"
          /\ UNCHANGED series
       \/ /\ attributes[attr] \in experiments[i].paths
          /\ series' = Append(series, i)
          /\ IF same_params_ignoring_threadcount(experiments[i].params,
                                                 experiments[1].params)
               THEN UNCHANGED phase
               ELSE phase' = "aborted"
    /\ i' = i + 1
    /\ UNCHANGED <<experiments, attr, figures>>

\* Lines 359-365: legend, savefig, close; then the next attribute.
SaveFigure ==
    /\ phase = "plot"
    /\ i > NumRuns
    /\ figures' = Append(figures, [attribute |-> attributes[attr],
                                   runs |-> series])
    /\ attr' = attr + 1
    /\ phase' = "figure"
    /\ UNCHANGED <<experiments, i, series>>

Next == LoadExperiments \/ NewFigure \/ PlotRun \/ SaveFigure

\* The script is one thread that runs until it exits.
Spec == Init /\ [][Next]_vars /\ WF_vars(Next)

(***************************************************************************)
(* Properties.                                                             *)
(***************************************************************************)

\* Every variable holds a value of its intended type; a figure holds at
\* most one series per run.
TypeOK ==
    /\ phase \in {"load", "figure", "plot", "aborted"}
    /\ attr \in 1 .. Len(attributes) + 1
    /\ i \in 1 .. NumRuns + 1
    /\ series \in Seq(RunIds) /\ Len(series) <= NumRuns
    /\ figures \in Seq([attribute : Range(attributes), runs : Seq(RunIds)])

\* Spec 4.5: a saved thread-count comparison shows every run, once each
\* and in file order, and any two of its runs have the same parameters
\* but for the thread count: a mismatch aborts it instead of being drawn.
\* About the loop of make_comparison_plot and
\* same_params_ignoring_threadcount.
ComparedRunsShareParams ==
    \A f \in Range(figures) :
      /\ f.runs = [k \in RunIds |-> k]
      /\ \A j, k \in RunIds :
           SameExceptThreads(experiments[j].params, experiments[k].params)

=============================================================================
