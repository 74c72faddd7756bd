# TLA+ models of speedex-parallelize's experiment harness

This directory holds TLA+ models of the Python scripts under
`src/implementation/src/`, with the TLC configurations that check them. The
scripts drive a convex-solver baseline for market-clearing price computation
and turn the measurements of the experiments into figures.

## 1. Inventory

The system runs as one thread. Each script is a batch program: it reads XDR
record files, computes, and writes XDR files or figures. None of them runs
anything concurrently. The hard behaviours are the following:
- failures in the middle of a loop: some are caught and the loop goes on,
  others end the program after it has done part of its work;
- retries;
- an order the code does not control: `os.listdir`, and the iteration order
  of Python sets and dicts;
- edge cases in the numbers: empty groups, divisions by zero, off-by-one
  bounds.

| Component | Source | State | Operations | Interacts with |
|---|---|---|---|---|
| Price-computation driver | `sosp_cvxpy.py` `run_experiment` (11-106) | `max_iters`, `success`, the target `results` list | formulate the program from the first `m` orders; solve; retry with budget +20 on an exception; give up above 200; push a runtime if the solver reports one | solver (cvxpy, external); writes into the sweep runner's result record |
| Sweep runner | `sosp_cvxpy.py` `run_sosp_experiment` (108-149) | `results_out.experiments` (one record per level), trial/level loop counters | load params; create one record per level; for each trial, load the block, then call the driver for each level and catch its exception; save once | record store (external); the driver |
| Aggregation index + strict sweep query | `error_graphs.py` (13-190) | `output_dictionary` mapping a key to a list of records; the current matplotlib figure | `load_results_map` over the folder; `get_taxes`/`get_smooth_mults`; `plot_tax_attr`/`plot_smooth_attr`, which raise on a duplicated key and skip groups with missing trials; four figure loops | record store; plot sink |
| Comparator, field resolver, figure session | `graph_generation.py` | matplotlib's current figure and the series drawn on it | `attr_func` (path resolution); series over rounds; ratio, smoothed ratio and baseline series; `same_params_ignoring_threadcount`; `make_comparison_plot`; the `make_*_plot` wrappers | record store; plot sink |
| Lenient aggregator | `gen_price_comp_comparison_graphs.py` | series being built | `times_mean`; `plot_one_experiment_line`: the mean over the completed trials, with timeouts reported | record store; plot sink |
| Timeout log summary | `parse_timeouts.py` | max, sum and count for timed-out and in-time lines | fold over the lines; averages | a text file |
| Block volume summary | `summarize_experiment_data.py` | volume per asset | sum the sell amounts of a block, skipping orders it cannot read | record store |
| Coin price formatter | `cryptocoin_experiment_formatter.py` | snapshot list, `discontinuity` flag | fill a window of days from CSV rows; defaults before the first day with data; an error on a gap after it | CSV files; record store |
| Experiment control | `manage_experiment.py`, `send_start_signal.py` | none locally (remote nodes) | connect validators; start producer; poll; teardown (write measurements, then signal) | remote nodes over a socket RPC |
| Testbed topology | `create_cloudlab.py` | none | declare nodes and a link | CloudLab portal |

The data flows as follows. The sweep runner calls the driver and saves a
`PriceComputationExperiment`. The query scripts (`error_graphs.py`,
`gen_price_comp_comparison_graphs.py`) load files like it. `graph_generation.py`
loads per-round measurement records produced by the ledger system.

Each component is correct when the following hold:
- Driver and sweep runner:
  - a level's results hold exactly the runs that solved with a duration, in
    trial order; a failure leaves a shortfall, never a padded or zero entry;
  - retries use budgets 100 through 200 and no more;
  - results are append-only;
  - the file is written once, after every (trial, level) pair has run;
  - the sweep terminates.
- Index and strict query:
  - a duplicated key is an error;
  - a plotted point is the mean of the one record with its key, and that
    record is complete;
  - no complete group is dropped;
  - x values and legends are in ascending order.
- Comparator:
  - only aligned runs with equal parameters (thread count aside) are
    compared;
  - the smoothed series is the fixed-factor exponential average;
  - a figure holds only the series of its own call.
- Lenient aggregator: the mean is taken over the completed trials, never over
  `num_trials`.
- Formatter: the window is a run of defaults followed by contiguous real
  data, or the formatter fails.
- Control: every node's measurements are eventually written.

## 2. Plan

The modules, in order of importance. Modules marked ✔ exist.

1. ✔ `PriceComputation`: the driver and the sweep runner together. The
   driver is called synchronously inside the sweep loop, so they are one
   thread and one module.
2. ✔ `Sweep`: the abstract sweep. Each call of the driver atomically records
   zero or one measurement. `PriceComputation` refines it through
   `INSTANCE Sweep WITH ...`.
3. ✔ `SweepQuery`: the index and the strict figure loops of
   `error_graphs.py`.
4. ✔ `RatioComparison`, `ThreadComparison`, `Params`: the two
   comparisons of `graph_generation.py`. `Params` holds
   `same_params_ignoring_threadcount` and the spec's relation. The
   smoothing is a RECURSIVE operator, checked against its closed form over
   bounded inputs. One run fails, as expected: misaligned lengths are
   accepted silently when exp2 is longer.
   `RatioComparison` also makes the multi-run comparison call
   (`make_*_comparison_plot`, lines 415-460), so every library entry point
   of the file is modelled.
   ✔ `SinglePlots`: the single-run modes of `graph_generation.py`
   (lines 44-337, 518-523). `GraphGeneration` composes it and
   `ThreadComparison` (once per attribute list) under the command-line
   dispatch of lines 504-527, so one run checks all four modes.
5. ✔ `LenientAggregate`: `gen_price_comp_comparison_graphs.py`. The run
   checks that the mean is over the completed trials.
6. ✔ `CoinFormatter`, `VolumeSummary`, `TimeoutSummary`: the folds of the
   three data-preparation scripts, as operators and small state machines.
7. ✔ `ExperimentControl`: the start/poll/teardown sequence against an
   abstract node. It has a liveness property: every node eventually writes
   its measurements. That property fails because `poll_target` raises
   NameError.

Spec 9 asks that the strict policy (`SweepQuery`) and the lenient policy
(`LenientAggregate`) be kept as distinct behaviours. No module composes
them. The two scripts never interact: each reads result files on its own.
Each policy is checked against its own reference definition of the points
it must draw, and those two references differ exactly where the spec says
the policies do (partial groups). `GraphGeneration` is the one composite,
because there the four modes share one command line.

## 3. Modules and their correspondence to the code

### PriceComputation (`sosp_cvxpy.py`)

| Variable | Code |
|---|---|
| `phase` | where the thread is: before the params load, in the trial loop, formulating a run, in the solve loop, exited |
| `trial`, `level` | `i + 1`, `j + 1` |
| `block_size` | `experiment_data.size()` |
| `max_iters` | `max_iters` |
| `experiments` | `results_out.experiments`. A measurement is represented by the number of its trial. |
| `saved` | the output file |
| `outcome` | history only: what the environment did in each call. It is never read by an action. |

| Action | Code |
|---|---|
| `LoadParams` | lines 115-130 |
| `LoadBlock` | lines 132-138 |
| `SaveResults` | line 149 |
| `Formulate` | lines 13-73. It raises when the block is shorter than `num_txs`; a malformed order may also make it raise. |
| `SolveRaises` | lines 81-86 |
| `SolveReturns` | lines 76-99, with a duration or without one, and with the status the solver reports (`optimal` or not). The code reads neither before it sets `success`. |
| `EndRun` | the loop increments of lines 140-147 that follow every return of `run_experiment` and every exception it raises |

The external outcomes are nondeterministic choices:
- the loads fail or succeed;
- the block size;
- bad order data;
- the solver raises, or returns with or without a duration, and with an
  optimal or a non-optimal status.

The properties:
- `ShortfallIsFailures`: each level's results equal the sorted set of trials
  whose call ended in a measured solve.
- `RetrySchedule` (an action property): no solve runs with a budget above
  200, and a run gives up only after the attempt with budget 200.
- `SavedCoversEveryRun`.
- `ImplementsSweep`: the refinement. It also carries termination, because
  `Sweep`'s specification has weak fairness.
- `OnlyOptimalSolvesMeasured` (run `only_optimal`, expected to fail): every
  recorded measurement comes from a solve whose status was optimal.

### Sweep (abstract)

- Variables: `results`, `trial`, `level`, `status`, `saved`.
- Actions: `Start`, `RunLevel` (append this trial to this level, or not),
  `Save`, `Abort`.
- Refinement mapping from `PriceComputation`:
  - `results` is the per-level `results` field, or empty before the
    params load;
  - `status` is derived from `phase`;
  - formulating and the retry attempts are stuttering steps;
  - `EndRun` is `RunLevel`.

### SweepQuery (`error_graphs.py`)

| Variable | Code |
|---|---|
| `disk` | the folder's files, chosen in `Init` from every collection of at most `MaxRecords` records with distinct keys |
| `loaded`, `index` | `load_results_map` |
| `fig`, `open`, `pending`, `current`, `figures` | the position in the four figure loops, `plt.figure()`, the series values still to visit, the series drawn, and the saved figures |

| Action | Code |
|---|---|
| `LoadFile` | one iteration of `load_results_map` (lines 20-35), in any `listdir` order |
| `NewFigure` | `plt.figure()` and `get_smooth_mults` / `get_taxes` |
| `PlotSeries` | one call of `plot_tax_attr` / `plot_smooth_attr`. It aborts on the ValueError. |
| `SaveFigure` | `savefig` |

The order of `pending` is CPython's iteration order for a small int set. The
hash of an int is the int itself, so the order is by value modulo 8 for sets
of at most four elements with no collisions. The MC values satisfy the
`ASSUME` that states this.

### RatioComparison (`graph_generation.py` 50-69, 415-501)

| Variable | Code |
|---|---|
| `call` | the library call made, chosen in `Init` from the constant `Calls`: a ratio comparison (`ratio_*_experiments`) or a multi-run comparison (`make_*_comparison_plot`, with two roots) |
| `i` | the loop index of `compare_*_experiments` |
| `exp1`, `exp2` | the two loaded runs: parameters and the queried metric per round (`Missing` when `attr_func`'s path does not resolve) |
| `phase` | the line of `ratio_production_experiments` reached, or `aborted` after an uncaught exception |
| `series`, `saved` | the series drawn on the current figure; the saved figure |

| Action | Code |
|---|---|
| `OpenFigure` | line 463 (431, 447 for a comparison) |
| `Load` | lines 465-466, or `load_*_experiments` (367-377) for a comparison. A load error is raised again. |
| `PlotRun` | lines 417-421: `plot_measurement_over_rounds` for run `i`. `attr_func` raises on a missing metric before anything is drawn. |
| `PlotRatio` | line 468, `plot_ratio_over_rounds`: raises on a missing path, on exp2 shorter than exp1 (IndexError) and on a zero divisor |
| `PlotSmoothed` | line 469, `plot_ratio_smoothed`, via the RECURSIVE `Smoothed` |
| `PlotBaseline` | line 470 |
| `SaveFigure` | lines 472-477 (439-444, 455-460 for a comparison) |

Floats are exact rationals. `SmoothedIsExponentialAverage` compares the
recursive definition with a closed form computed by `FoldLeft`.

### ThreadComparison (`graph_generation.py` 350-412)

A run is its parameters and the set of attribute paths its records
resolve. `LoadExperiments` is `load_*_experiments`. `NewFigure` is
`plt.figure()` for the next attribute. `PlotRun` is one iteration of
`make_comparison_plot`'s loop: the series is drawn, then the parameters
are checked against run 1's and a mismatch raises. `SaveFigure` is
`savefig`/`close`. `ComparedRunsShareParams` checks the code's predicate
against the spec's relation (`SameExceptThreads` in `Params`). The module
is checked through `GraphGeneration`, which gives it the attribute list of
each comparison mode.

### SinglePlots (`graph_generation.py` 13-25, 44-337, 518-523)

A run is, per round, its number of processing measurements. The value of
attribute `a` in round `i` is `<<a, i>>`, and that of the `j`-th processing
measurement of round `i` is `<<a, i, j>>`. A series is its x and y lists.
Each figure function is a `Fig` record: its name, its attribute list
(`block_attrs` ... `tx_detail_attrs`, one per `plot_*_over_rounds`) and
whether it scatters. `production_figures` and `validation_figures` are
`make_production_plots` and `make_validation_plots`. `DrawFigure` draws
every series of a figure: `plot_measurement_over_rounds` (one value per
round at plt.plot's implicit x = 0 .. n-1) or
`make_tx_processing_scatterplot_oneattr` (x repeated `len(new_yvals)`
times per round, y the points fetched again). The actions are the loop of
lines 518-523:

| Action | Code |
|---|---|
| `LoadFile` | `load_production_results` / `load_validation_results`; a file that cannot be loaded ends the script |
| `PlotFigure` | one `make_*_plot` call: figure, series, savefig, close |
| `NextFile` | the next iteration of `for file in args.results_files` |
| `Finish` | the loop ends |

`SavedFiguresMatchRuns` states that the saved figures are the plan's,
file after file, and that each series shows every measurement of its
attribute exactly once at the x of its round.

### GraphGeneration (`graph_generation.py` 504-527)

The command line. `mode` is `args.graph`, chosen in `Init` and then fixed.
The single modes run `SinglePlots`. The comparison modes run
`ThreadComparison`, instantiated twice with `NumRuns <- Len(Files)`: once
with `production_thread_attrs` (lines 385-394) and once with
`validation_thread_attrs` (lines 401-409). The part a mode does not run
keeps one fixed initial state, so it does not multiply the state space.

### LenientAggregate (`gen_price_comp_comparison_graphs.py`)

| Variable | Code |
|---|---|
| `disk` | the content of each result file plotted (lines 57-62), chosen in `Init` |
| `line`, `i` | the call of `plot_one_experiment_line` being run; its loop index |
| `meanx`, `meany` | the two lists of lines 34-35; a mean is an exact rational |
| `figure`, `saved` | the lines drawn; the saved figure |

`LoadLine` is lines 30-38, and a load error ends the script.
`PlotExperiment` is one iteration of lines 39-50: the zero-size guard
`Plotted`, then `times_mean`. `DrawLine` is line 53 and `SaveFigure` is
lines 66-78. `MeanOverCompletedTrials` compares each saved line with the
completed groups of its file and their means. The groups come from
`SelectSeq` and the means from `SumFunction`, not from the fold of
`times_mean`.

### TimeoutSummary (`parse_timeouts.py`)

A line is its flag character (`0`, `1`, or `x`, which `int()` cannot
parse) and its metric. `st` holds the count, maximum and sum of each class
(lines 6-11). `ReadLine` is one iteration of lines 13-28, and `Report` is
lines 29-36. Both averages are printed only when both classes are
non-empty; otherwise the script ends in ZeroDivisionError.
`SummaryMatchesLog` compares the printed statistics with those of the lines
of each flag.

### VolumeSummary (`summarize_experiment_data.py`)

A transaction is its first operation's kind, its sell asset and its amount.
`get_block_volumes` is a `FoldLeft` of `AddVolume` (lines 16-24) starting
from `ZeroVolumes` (lines 13-14). An order that the bare `except` skips
changes nothing, because the read-modify-write of line 21 raises before it
writes. `SummarizeBlock` is lines 34-36 and `SaveTotal` is line 38.
`SnapshotsAreBlockVolumes` compares every saved snapshot with an
independent `SumFunction` over the block's sell offers.

### CoinFormatter (`cryptocoin_experiment_formatter.py`)

A CSV row is its day offset from `end_date` and a quote, a model value for
the `(price, volume)` pair. The actions follow `load_coin`:
- `OpenCsv`: lines 16-26.
- `ReadRow`: lines 27-29. `Store` lets a later row of a day overwrite an
  earlier one.
- `StartWindow`: lines 31-36.
- `WindowDay`: one iteration of lines 38-53. A missing day before any data
  gets the default, a missing day after data raises ValueError, and a
  covered day gets its data.
- `PushCoin` and `SaveData`: lines 54-61.

`WindowIsDefaultsThenData` compares each saved window with a reference
built from the rows over the `length` days before `end_date`, written
independently of the code's index arithmetic: defaults up to the first
covered day, then the last quote of each day. It also checks that a file is saved only when the data
of every coin is contiguous.

### ExperimentControl (`manage_experiment.py`, `send_start_signal.py`)

An invocation `inv` is a command and its argument. `Plan(inv)` is the list
of control connections the script opens, in order, built from the code's
own helpers (`connect_validators`, `teardown_node`,
`teardown_experiment`, ...) and ranges. A node is only the calls it has
received (`calls`). The actions:
- `Refused`: a connection is refused, and the exception ends the script.
- `Deliver`: a connection's calls are made in order. A call may fail after
  the first k of them, and the exception ends the script.
- `Poll`: the first statement of the polling loop reads the unbound name
  `i` and raises NameError.

The properties:
- `NoSilentHalfTeardown`: a node is left with `write_measurements` but no
  closing `signal_start` only when the script ends in that exception.
- `AllMeasurementsWritten` (liveness, expected to fail).

## 4. Runs

| Run | Result | What it shows |
|---|---|---|
| `sweep` (`MC_PriceComputation.cfg`) | pass, 13,483 states | the sweep's safety properties and the refinement, including termination |
| `strict_query` (`MC_SweepQuery.cfg`) | pass, 434,722 states | strict-policy points are unique complete groups, no complete group is dropped, x is ascending, and no figure is saved for a num_txs with a duplicated key (`DuplicateKeyNeverSaved`) |
| `ratio` (`MC_RatioComparison.cfg`) | pass, 617,652 states | a saved ratio figure has non-zero divisors only, and its smoothed series is the exponential average of its ratio series; a multi-run comparison never draws a missing metric |
| `aligned_runs` | violation | a figure is saved for runs of 0 and 1 rounds: exp2's extra round is ignored. Spec 4.5 says MisalignedRuns. |
| `graph_generation` (`MC_GraphGeneration.cfg`) | pass, 6,380 states | in the single modes the figures are saved file by file, each series showing every measurement of its attribute once at its round; in the comparison modes each saved comparison shows every run once, in order, with all runs agreeing on every parameter but the thread count |
| `only_optimal` | violation | a solve that returns status infeasible with a solve time is recorded as a measurement. Line 80 sets `success` for any return. |
| `lenient` (`MC_LenientAggregate.cfg`) | pass, 523,320 states | each saved line has one point per group with a completed trial, in file order, valued at the mean over the completed trials, with no division by zero |
| `timeout_summary` (`MC_TimeoutSummary.cfg`) | pass, 6,965 states | the printed counts, maxima and sums are those of the lines of each flag, and the averages are printed exactly when both classes are non-empty |
| `volume_summary` (`MC_VolumeSummary.cfg`) | pass, 147,894 states | every saved snapshot is its block's per-asset volume over the readable sell offers |
| `coin_formatter` (`MC_CoinFormatter.cfg`) | pass, 160,236 states | every saved window covers the `length` days before `end_date` and is defaults followed by the latest quote of each day, and a file is saved only if no coin has a gap |
| `control` (`MC_ExperimentControl.cfg`) | pass, 110 states | a control script that is running or exited normally never leaves a node half torn down |
| `measurements_written` | violation | `run_experiment` never writes any node's measurements. `poll_target` raises NameError (line 42) before the teardown. |

Every property of a passing run has a mutant in `PROJECT.json`: a plausible
fault of the code that TLC finds violating it.
- `push_back` pushes without a duration.
- The trial loop stops one trial early.
- The give-up test is `>=` instead of `>`.
- A partial group is averaged.
- The series loop iterates the wrong dimension.
- The sort of the x values is dropped.
- The record count is checked after the timed-out-trials `continue`, so a
  duplicate whose first record is incomplete goes unnoticed.
- The ratio is taken the wrong way round.
- The smoothing starts from 0.0.
- A new figure keeps the previous figure's series.
- `same_params_ignoring_threadcount` forgets `num_accounts`.
- `plot_measurement_over_rounds` skips the first round.
- The scatter repeats each round's x by the running `len(yvals)`.
- `times_mean` skips the first runtime.
- The zero-size guard is dropped.
- The statistics of the timed-out lines are not initialised.
- A class's maximum is compared with the other class's.
- `AddVolume` ignores the operation kind.
- The zeroing loop stops one asset early.
- `load_coin` stores the whole row instead of the quote.
- `load_coin` never sets `discontinuity`.
- The window index is shifted by one, so the window ends on `end_date`.
- `teardown_node` fetches measurements instead of sending the closing
  signal.
- A failing call is swallowed and the script goes on.

### Bounds

- `sweep`: two levels (1 and 3 orders) and two trials. Blocks hold 2 or 3
  orders, so both the short-block IndexError and a full run occur. The
  retry literals are the code's own: 100, 20, 200. All six attempts and the
  give-up are therefore reached, and every outcome occurs at every
  (trial, level) pair.
- `strict_query`:
  - two result files and one file that is not a result file;
  - at most two records per file;
  - keys from tax rates {5, 10}, smooth_mult {1}, num_txs {100, 500};
  - `num_trials` = 2 with 0-2 measurements. This covers empty, partial and
    complete groups.
  - Duplicates arise across the two files. Only num_txs 500 is drawn, as in
    the script, where 100 (written by the SOSP sweep) is in no list.

- `ratio`: runs of 0-3 rounds over metric values {0, 1, 2} and a missing
  path, with three parameter sets (base, other thread count, other tax
  rate). This covers every raise of `PlotRatio`, runs of unequal length
  both ways, and smoothed series of three steps. Both calls are checked.
  The `aligned_runs` run takes the ratio call only, so its trace shows the
  ratio figure.
- `graph_generation`: two results files.
  - Single modes: each file holds a run of 0-2 rounds with 0-2
    processing measurements per round, or cannot be loaded. This covers
    an empty run, rounds with no scatter points, and a load error on the
    first or the second file.
  - Comparison modes: the code's full attribute lists, records that
    resolve every attribute or all but `total_time`, and four parameter
    sets (base, other thread count, other account count, other tax rate).
    Each field compared by the code, and the one it ignores, therefore
    differs in some initial state.

- `lenient`:
  - two files, each with at most two groups;
  - `num_trials` = 2, with 0-2 runtimes from {1, 2}.
  This covers empty, partial and complete groups, and unequal means.
- `timeout_summary`: logs of up to three lines, with flags 0, 1, 7 (any
  digit other than 0 and 1, which `int()` accepts and line 19 counts as
  in time) and unparsable, and metrics {0, 1, 2}. This covers an empty class, an
  all-zero class, and a crash after earlier lines.
- `volume_summary`:
  - two blocks of up to two transactions, over two assets;
  - sell assets 0-2, so one asset is out of range;
  - operations that are not sell offers.
- `coin_formatter`:
  - two coins and a window of 3 days;
  - rows dated -4 to 0, so one day is before the window and one is
    `end_date` itself;
  - up to two rows per file, so a day can appear twice.
- `control`: six nodes, which `create_cloudlab.py`'s `n` allows, and every
  command with arguments 2 to 6. The violation run uses four nodes.

### Fairness

Each script is one thread that keeps running until it exits. Weak fairness
on `Next` expresses exactly that. No fairness is assumed about which outcome
the environment picks. Deadlock checking is off because every script really
stops: after its last write, or at an uncaught exception. In
`ExperimentControl` the fairness covers only the script's own steps
(`Exit`, `Deliver`, `Poll`), not `Refused`. A node may stay down forever,
so `AllMeasurementsWritten` excuses refusals and failed calls.

## 5. Not modelled

- The convex program and its numbers. The model keeps only the solver's
  outcome.
- The XDR encoding.
- Plot rendering and layout.
- The socket RPC and the remote nodes' internals. A node is only the calls
  it receives.
- The character-level parsing of `parse_timeouts.py`. When the last line
  has no newline, `line[74:-1]` truncates it. This is listed as a hazard
  with no property.
- The CloudLab topology.
- The attribute being averaged (runtime or rounds). It does not affect the
  control.

The file names of the figures are left out. `make_production_comparison_plot`
and `make_validation_comparison_plot` save to the same name for the same
`query_prop`, so one overwrites the other.

### Disagreements found while modelling, not checked by a run

These are recorded as hazards in `PROJECT.json`.
- `error_graphs.py` line 33 appends a second record with the same key and
  never rejects it. The ValueError of line 78 fires only for keys a figure
  queries. Spec 4.4 asks for DuplicateKey. The part of the spec that the
  code does keep, that a duplicated key never reaches a saved figure, is
  checked by `DuplicateKeyNeverSaved` in the `strict_query` run.
- `error_graphs.py` line 173 draws series in CPython's set order, so tax
  rates {5, 10} come as 10, then 5. Spec 4.4 asks for ascending legends.
- `graph_generation.py` line 465 (and line 486): the ratio comparisons never
  compare the two runs' parameters. Spec 4.5 asks for ParamsMismatch.
  `compare_*_experiments` (lines 415-428) checks neither the parameters
  nor the round counts of the runs it draws together.
- `send_start_signal.py` line 42: the argument is named `num_validators`,
  but `connect_validators 3` contacts nodes 2 and 3 only, because the code
  treats the argument as the node count.
