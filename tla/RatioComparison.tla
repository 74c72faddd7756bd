--------------------------- MODULE RatioComparison ---------------------------
(***************************************************************************)
(* The comparator of src/implementation/src/graph_generation.py:           *)
(* ratio_production_experiments (and its twin ratio_validation_experiments)*)
(* loads two experiment runs and draws, on one figure, the per-round ratio *)
(* of a metric (plot_ratio_over_rounds), its smoothed ratio                *)
(* (plot_ratio_smoothed) and a constant baseline (plot_baseline_ratio).    *)
(* make_production_comparison_plot (and make_validation_comparison_plot)  *)
(* loads the same experiment of several roots and draws each run's metric *)
(* over rounds on one figure (compare_*_experiments); two roots are      *)
(* modelled.  Which of the two library calls is made is chosen in Init.  *)
(*                                                                         *)
(* A run is its parameters and the value of the queried metric in each     *)
(* round; Missing stands for a record on which attr_func's path does not   *)
(* resolve.  Ratios are exact rationals <<numerator, denominator>>, the    *)
(* floats of the code without their rounding.                              *)
(***************************************************************************)
EXTENDS Naturals, Sequences, SequencesExt, Params

CONSTANTS
    Values,       \* metric values a round may hold
    Missing,      \* model value: the metric's path is absent in the record
    ParamSets,    \* ExperimentParameters records the runs may carry
    MaxRounds,    \* bound: rounds per run
    NoFile,       \* model value: the figure has not been saved
    Calls         \* the library calls checked: a subset of {"ratio", "compare"}

Rounds == UNION {[1 .. n -> Values \cup {Missing}] : n \in 0 .. MaxRounds}
Runs == [params : ParamSets, block_results : Rounds]

(***************************************************************************)
(* Exact rationals.                                                        *)
(***************************************************************************)
RatAdd(p, q) == <<p[1] * q[2] + q[1] * p[2], p[2] * q[2]>>
RatHalf(p) == <<p[1], 2 * p[2]>>
RatEq(p, q) == p[1] * q[2] = q[1] * p[2]

(***************************************************************************)
(* The series, translated from the plot functions.                         *)
(***************************************************************************)

\* Mutant: the quotient taken the wrong way round (exp2 over exp1).
RatioPointSwapped(a, b) == <<b, a>>

\* Line 53: func(exp1.block_results[i]) / func(exp2.block_results[i]).
RatioPoint(a, b) == <<a, b>>

\* Lines 50-54: raises when a metric is missing, when exp2 has fewer rounds
\* than exp1 (IndexError) or when exp2's metric is zero (ZeroDivisionError).
RatioRaises(e1, e2) ==
    \E i \in DOMAIN e1 :
      \/ i \notin DOMAIN e2
      \/ e1[i] = Missing
      \/ i \in DOMAIN e2 /\ e2[i] \in {Missing, 0}

\* Lines 51-53: one point per round of exp1, never of exp2.
RatioSeries(e1, e2) == [i \in DOMAIN e1 |-> RatioPoint(e1[i], e2[i])]

\* Mutant: the smoothing starts from 0.0.
SmoothStartZero == <<0, 1>>

\* Line 57: ratio = 1.0.
SmoothStart == <<1, 1>>

\* Lines 56-62: ratio = (ratio + latest) / 2, appended after each round.
Smoothed(rs) ==
    LET RECURSIVE From(_, _)
        From(prev, i) ==
          IF i > Len(rs) THEN <<>>
          ELSE LET cur == RatHalf(RatAdd(prev, rs[i]))
               IN <<cur>> \o From(cur, i + 1)
    IN From(SmoothStart, 1)

\* Lines 65-69: 1.0 for each round of exp1.
Baseline(n) == [i \in 1 .. n |-> <<1, 1>>]

VARIABLES
    call,         \* "ratio" or "compare": the library call being made
    exp1, exp2,   \* the two loaded runs (chosen in Init: the files' contents)
    phase,        \* the step of the call reached
    i,            \* compare: the loop index of compare_*_experiments
    series,       \* the series drawn on the open figure
    saved         \* the saved figure, or NoFile

vars == <<call, exp1, exp2, phase, i, series, saved>>

Phases == {"figure", "load", "ratio", "smoothed", "baseline", "plot", "save",
           "done", "aborted"}

\* Lines 432-437, 448-453: the experiment of each root, in order.
CompareRuns == <<exp1, exp2>>

Init ==
    /\ call \in Calls
    /\ i = 1
    /\ exp1 \in Runs
    /\ exp2 \in Runs
    /\ phase = "figure"
    /\ series = <<>>
    /\ saved = NoFile

Step(from, to) == phase = from /\ phase' = to

\* Lines 463, 431, 447: plt.figure().
OpenFigure ==
    /\ Step("figure", "load")
    /\ series' = <<>>
    /\ UNCHANGED <<call, exp1, exp2, i, saved>>

\* Lines 465-466, 13-20 (ratio) and 367-371 (compare): load both runs; a
\* load error is printed and raised again, ending the script.
Load ==
    /\ phase = "load"
    /\ phase' \in {IF call = "ratio" THEN "ratio" ELSE "plot", "aborted"}
    /\ UNCHANGED <<call, exp1, exp2, i, series, saved>>

\* Line 468: plot_ratio_over_rounds.
PlotRatio ==
    /\ phase = "ratio"
    /\ \/ /\ RatioRaises(exp1.block_results, exp2.block_results)
          /\ phase' = "aborted"
          /\ UNCHANGED series
       \/ /\ ~RatioRaises(exp1.block_results, exp2.block_results)
          /\ phase' = "smoothed"
          /\ series' = Append(series, [label |-> "ratio",
                        data |-> RatioSeries(exp1.block_results,
                                             exp2.block_results)])
    /\ UNCHANGED <<call, exp1, exp2, i, saved>>

\* Line 469: plot_ratio_smoothed recomputes the same quotients, so it
\* cannot raise once the ratio series was drawn.
PlotSmoothed ==
    /\ Step("smoothed", "baseline")
    /\ series' = Append(series, [label |-> "smoothed",
                  data |-> Smoothed(RatioSeries(exp1.block_results,
                                                exp2.block_results))])
    /\ UNCHANGED <<call, exp1, exp2, i, saved>>

\* Line 470: plot_baseline_ratio(exp1.block_results.size()).
PlotBaseline ==
    /\ Step("baseline", "save")
    /\ series' = Append(series, [label |-> "baseline",
                  data |-> Baseline(Len(exp1.block_results))])
    /\ UNCHANGED <<call, exp1, exp2, i, saved>>

\* Lines 472-477: legend, savefig, close.
SaveFigure ==
    /\ Step("save", "done")
    /\ saved' = [params1 |-> exp1.params, params2 |-> exp2.params,
                 len1 |-> Len(exp1.block_results),
                 len2 |-> Len(exp2.block_results), series |-> series]
    /\ UNCHANGED <<call, exp1, exp2, i, series>>

\* Lines 417-421, 44-48: plot_measurement_over_rounds for run i; attr_func
\* raises on a round without the metric before anything is drawn.
PlotRun ==
    /\ phase = "plot"
    /\ LET run == CompareRuns[i].block_results
       IN \/ /\ Missing \in Range(run)
             /\ phase' = "aborted"
             /\ UNCHANGED <<i, series>>
          \/ /\ Missing \notin Range(run)
             /\ series' = Append(series, [label |-> i, data |-> run])
             /\ i' = i + 1
             /\ phase' = IF i = Len(CompareRuns) THEN "save" ELSE "plot"
    /\ UNCHANGED <<call, exp1, exp2, saved>>

Next ==
    \/ OpenFigure
    \/ Load
    \/ PlotRatio
    \/ PlotSmoothed
    \/ PlotBaseline
    \/ SaveFigure
    \/ PlotRun

\* The script is one thread that runs until it exits.
Spec == Init /\ [][Next]_vars /\ WF_vars(Next)

(***************************************************************************)
(* Properties.                                                             *)
(***************************************************************************)

\* Every drawn ratio is a quotient with a non-zero divisor (a division by
\* zero raises before anything is drawn), and every drawn metric is a
\* value (a missing one raises in attr_func first).
TypeOK ==
    /\ call \in Calls
    /\ exp1 \in Runs /\ exp2 \in Runs
    /\ phase \in Phases
    /\ i \in 1 .. Len(CompareRuns) + 1
    /\ call = "ratio" =>
         series \in Seq([label : {"ratio", "smoothed", "baseline"},
                         data : Seq(Nat \X (Nat \ {0}))])
    /\ call = "compare" =>
         series \in Seq([label : DOMAIN CompareRuns, data : Seq(Values)])
    /\ Len(series) <= 3

\* The reference for the smoothed series: after t rounds of ratios r,
\* s_t = (1 + r_1 + 2 r_2 + ... + 2^(t-1) r_t) / 2^t.
ClosedForm(r, t) ==
    LET terms == [k \in 1 .. t |-> <<2^(k - 1) * r[k][1], r[k][2]>>]
        sum == FoldLeft(RatAdd, <<1, 1>>, terms)
    IN <<sum[1], sum[2] * 2^t>>

SeriesOf(label) == (CHOOSE s \in Range(saved.series) : s.label = label).data

\* Spec 4.5: the saved smoothed series is the fixed-factor-1/2 exponential
\* average of the saved ratio series, starting from 1.0, one value per
\* round (s = [1.0, 2.0] for ratios [1.0, 3.0]).  About the loop of
\* plot_ratio_smoothed against that of plot_ratio_over_rounds.
SmoothedIsExponentialAverage ==
    saved # NoFile /\ call = "ratio" =>
      LET r == SeriesOf("ratio")
          s == SeriesOf("smoothed")
      IN /\ Len(s) = Len(r)
         /\ \A t \in DOMAIN s : RatEq(s[t], ClosedForm(r, t))

\* Spec 4.5: two runs whose block_results differ in length are misaligned
\* and must not be compared (MisalignedRuns).
AlignedRunsOnly ==
    saved # NoFile => saved.len1 = saved.len2

=============================================================================
