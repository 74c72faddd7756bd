-------------------------- MODULE LenientAggregate --------------------------
(***************************************************************************)
(* The lenient aggregation path of                                         *)
(* src/implementation/src/gen_price_comp_comparison_graphs.py: the script  *)
(* draws one line per result file; plot_one_experiment_line loads a        *)
(* PriceComputationExperiment and, for each of its SingleConfigResults,    *)
(* adds the point (num_txs, mean runtime) whenever at least one trial      *)
(* completed, however many timed out.  The figure is saved once, after    *)
(* the last line.                                                          *)
(*                                                                         *)
(* A runtime is a small natural number; means are exact rationals          *)
(* <<numerator, denominator>>, the floats of the code without rounding.    *)
(* The timeout report (line 47) and the per-trial scatter data (lines      *)
(* 48-50, never drawn) are output only and are left out.                   *)
(***************************************************************************)
EXTENDS Naturals, Sequences, SequencesExt

CONSTANTS
    Lines,        \* the result files plotted, in call order (lines 57-62)
    TxCounts,     \* num_txs values a result may carry
    Runtimes,     \* runtime values a measurement may carry
    NumTrials,    \* num_trials of every result (the sweep's trial count)
    MaxLevels,    \* bound: SingleConfigResults per file
    NoFile        \* model value: the figure has not been saved

\* A SingleConfigResult as written by the sweep: at most num_trials
\* measurements.
Results == [num_txs : TxCounts, num_trials : {NumTrials},
            results : BoundedSeq(Runtimes, NumTrials)]
Collections == UNION {[1 .. n -> Results] : n \in 1 .. MaxLevels}

\* Mutant: the accumulation loop starts at index 1 and skips the first
\* runtime.
times_mean_skip_first(times) ==
    <<FoldLeft(+, 0, Tail(times)), Len(times)>>

\* Lines 23-27: acc sums the runtimes; acc / times.size().
times_mean(times) == <<FoldLeft(+, 0, times), Len(times)>>

\* Mutant: the zero-size guard is dropped.
PlottedAlways(e) == TRUE

\* Mutant: the strict policy (only fully completed groups).
PlottedStrict(e) == Len(e.results) = e.num_trials

\* Line 43: a result contributes a point when it has any measurement.
Plotted(e) == Len(e.results) > 0

VARIABLES
    disk,         \* the content of each result file (chosen in Init)
    line,         \* position in Lines of the line being plotted
    phase,        \* "load", "plot", "done" or "aborted"
    i,            \* loop index over results.experiments, plus one
    meanx, meany, \* the points of the line being built
    figure,       \* the lines drawn so far
    saved         \* the saved figure, or NoFile

vars == <<disk, line, phase, i, meanx, meany, figure, saved>>

Init ==
    /\ disk \in [Range(Lines) -> Collections]
    /\ line = 1
    /\ phase = "load"
    /\ i = 1
    /\ meanx = <<>>
    /\ meany = <<>>
    /\ figure = <<>>
    /\ saved = NoFile

\* Lines 31-38: load the next file; a load error is not caught and ends
\* the script.
LoadLine ==
    /\ phase = "load"
    /\ line <= Len(Lines)
    /\ \/ /\ phase' = "aborted"
          /\ UNCHANGED <<i, meanx, meany>>
       \/ /\ phase' = "plot"
          /\ i' = 1
          /\ meanx' = <<>>
          /\ meany' = <<>>
    /\ UNCHANGED <<disk, line, figure, saved>>

\* Lines 39-50: one iteration over results.experiments.
PlotExperiment ==
    /\ phase = "plot"
    /\ i <= Len(disk[Lines[line]])
    /\ LET e == disk[Lines[line]][i]
       IN IF Plotted(e)
            THEN /\ meanx' = Append(meanx, e.num_txs)
                 /\ meany' = Append(meany, times_mean(e.results))
            ELSE UNCHANGED <<meanx, meany>>
    /\ i' = i + 1
    /\ UNCHANGED <<disk, line, phase, figure, saved>>

\* Line 53: sns.lineplot(meanx, meany); the next call follows.
DrawLine ==
    /\ phase = "plot"
    /\ i > Len(disk[Lines[line]])
    /\ figure' = Append(figure, [file |-> Lines[line], x |-> meanx,
                                 y |-> meany])
    /\ line' = line + 1
    /\ phase' = "load"
    /\ UNCHANGED <<disk, i, meanx, meany, saved>>

\* Lines 66-78: axes, legend, tikzplotlib.save and savefig.
SaveFigure ==
    /\ phase = "load"
    /\ line > Len(Lines)
    /\ saved' = figure
    /\ phase' = "done"
    /\ UNCHANGED <<disk, line, i, meanx, meany, figure>>

Next == LoadLine \/ PlotExperiment \/ DrawLine \/ SaveFigure

\* The script is one thread that runs until it exits.
Spec == Init /\ [][Next]_vars /\ WF_vars(Next)

(***************************************************************************)
(* Properties.                                                             *)
(***************************************************************************)

\* Every variable holds a value of its intended type; every mean has a
\* non-zero divisor.
TypeOK ==
    /\ phase \in {"load", "plot", "done", "aborted"}
    /\ line \in 1 .. Len(Lines) + 1
    /\ meanx \in Seq(TxCounts)
    /\ meany \in Seq(Nat \X (Nat \ {0}))
    /\ figure \in Seq([file : Range(Lines), x : Seq(TxCounts),
                       y : Seq(Nat \X (Nat \ {0}))])

RatEq(p, q) == p[1] * q[2] = q[1] * p[2]

\* The groups of a collection with at least one completed trial.
CompletedGroups(c) == SelectSeq(c, LAMBDA e : e.results # <<>>)

\* The reference mean over the completed trials of a group.
MeanOfCompleted(e) == <<SumFunction(e.results), Len(e.results)>>

\* Spec 4.4, 8: a saved line has one point per group with at least one
\* completed trial, in file order, partial groups included; its value is
\* the mean over the completed trials, never over num_trials ((4.0, 3),
\* never (2.4, 5)).  About plot_one_experiment_line's zero-size guard and
\* times_mean.
MeanOverCompletedTrials ==
    saved # NoFile =>
      /\ [k \in DOMAIN saved |-> saved[k].file] = Lines
      /\ \A k \in DOMAIN saved :
          LET g == CompletedGroups(disk[saved[k].file])
          IN /\ saved[k].x = [j \in DOMAIN g |-> g[j].num_txs]
             /\ Len(saved[k].y) = Len(g)
             /\ \A j \in DOMAIN g :
                  RatEq(saved[k].y[j], MeanOfCompleted(g[j]))

=============================================================================
