-------------------------- MODULE PriceComputation --------------------------
(***************************************************************************)
(* The convex-solver baseline of src/implementation/src/sosp_cvxpy.py:     *)
(* the sweep runner run_sosp_experiment and, inside it, the price-         *)
(* computation driver run_experiment with its retry loop around the        *)
(* external solver.  The program is one thread; every step below is a      *)
(* stretch of that thread between two points where the environment (a      *)
(* file load, the order data, the solver) decides what happens next.       *)
(*                                                                         *)
(* Data abstraction: the solver's problem (price vector, selector          *)
(* matrices, objective) is not modelled; what the code does with the       *)
(* solver's answer is.  A runtime measurement is represented by the number *)
(* of the trial that produced it.                                          *)
(***************************************************************************)
EXTENDS Naturals, Sequences, FiniteSets, SequencesExt

CONSTANTS
    num_tx_list,    \* the transaction-count levels, in sweep order
    num_trials,     \* trials per level, one input block per trial
    BlockSizes,     \* numbers of orders an input block may hold
    NoFile          \* model value: outfile_name has not been written

ASSUME num_tx_list \in Seq(Nat \ {0}) /\ num_trials \in Nat \ {0}

\* The literals of the retry loop in run_experiment.
InitialIters == 100
ItersStep == 20
ItersCap == 200

Levels == 1 .. Len(num_tx_list)
Trials == 1 .. num_trials
Runs == Trials \X Levels

\* What the environment did during one call of run_experiment.
Outcomes == {"pending",      \* not called yet
             "raised",       \* an exception before the solve loop
             "gave_up",      \* every solve attempt raised
             "no_duration",  \* solved, but the solver reported no time
             "unsolved",     \* returned a non-optimal status, with a time
             "measured"}     \* solved optimally, with a duration

\* The statuses problem.solve may return with instead of raising.
SolverStatuses == {"optimal", "infeasible"}

VARIABLES
    phase,        \* where the single thread is
    trial,        \* block_num = i + 1 of the trial loop
    level,        \* j + 1 of the level loop
    block_size,   \* number of orders in experiment_data
    max_iters,    \* iteration budget of the next solve attempt
    experiments,  \* results_out.experiments
    saved,        \* contents of outfile_name after save_to_file
    outcome       \* history: outcome of each (trial, level) call

vars == <<phase, trial, level, block_size, max_iters, experiments, saved,
          outcome>>

Phases == {"load_params", "trial_loop", "run", "solve", "done", "aborted"}

SingleExperiment == [num_txs : Nat, num_trials : Nat, results : Seq(Trials)]

(***************************************************************************)
(* Helpers, each the translation of a few lines of the code.              *)
(***************************************************************************)

\* Lines 120-130: one empty PriceComputationSingleExperiment per level.
NewExperiments ==
    [j \in Levels |-> [num_txs |-> num_tx_list[j], num_trials |-> num_trials,
                       results |-> <<>>]]

\* Mutant: the trial loop stops one trial early (range(0, num_trials - 1)).
MoreTrialsOffByOne(t) == t < num_trials

\* Line 132: the trial loop still has a trial to run.
MoreTrials(t) == t <= num_trials

\* Line 83: the budget after a failed attempt.
NextIters(iters) == iters + ItersStep

\* Mutant: the loop gives up when the budget reaches the cap.
GiveUpEarly(iters) == iters >= ItersCap

\* Mutant: the loop tries one budget above the cap.
GiveUpLate(iters) == iters > ItersCap + ItersStep

\* Line 84: the loop gives up once the budget exceeds the cap.
GiveUp(iters) == iters > ItersCap

\* Mutant: the duration check is dropped (a missing time is pushed).
push_back_always(res, has_duration, t) == Append(res, t)

\* Lines 93-98: a measurement is pushed only when the solver reported a
\* duration.
push_back(res, has_duration, t) == IF has_duration THEN Append(res, t) ELSE res

\* Lines 140-147: run_experiment has returned or raised (the exception is
\* caught and printed); the level loop, then the trial loop, move on.
EndRun(o) ==
    /\ outcome' = [outcome EXCEPT ![<<trial, level>>] = o]
    /\ IF level < Len(num_tx_list)
         THEN /\ phase' = "run"
              /\ level' = level + 1
              /\ UNCHANGED trial
         ELSE /\ phase' = "trial_loop"
              /\ level' = 1
              /\ trial' = trial + 1

(***************************************************************************)
(* Actions.                                                                *)
(***************************************************************************)

Init ==
    /\ phase = "load_params"
    /\ trial = 1
    /\ level = 1
    /\ block_size = 0
    /\ max_iters = InitialIters
    /\ experiments = <<>>
    /\ saved = NoFile
    /\ outcome = [r \in Runs |-> "pending"]

\* Lines 115-130: read the parameter file, then create the per-level
\* results.  A load error is not caught: the program stops, saving nothing.
LoadParams ==
    /\ phase = "load_params"
    /\ \/ /\ experiments' = NewExperiments
          /\ phase' = "trial_loop"
       \/ /\ phase' = "aborted"
          /\ UNCHANGED experiments
    /\ UNCHANGED <<trial, level, block_size, max_iters, saved, outcome>>

\* Lines 132-138: load block trial.txs.  A load error is not caught.
LoadBlock ==
    /\ phase = "trial_loop"
    /\ MoreTrials(trial)
    /\ \/ \E b \in BlockSizes :
            /\ block_size' = b
            /\ phase' = "run"
       \/ /\ phase' = "aborted"
          /\ UNCHANGED block_size
    /\ level' = 1
    /\ UNCHANGED <<trial, max_iters, experiments, saved, outcome>>

\* Line 149: every trial has run; the collection is written once.
SaveResults ==
    /\ phase = "trial_loop"
    /\ ~MoreTrials(trial)
    /\ \/ /\ saved' = experiments
          /\ phase' = "done"
       \/ /\ phase' = "aborted"       \* save_to_file raises
          /\ UNCHANGED saved
    /\ UNCHANGED <<trial, level, block_size, max_iters, experiments, outcome>>

\* Lines 13-73: read the first num_txs orders and build the problem.
\* Reading past the end of the block raises (IndexError); so does an order
\* that is not a sell offer or names an asset >= n, which the model leaves
\* to the environment.  Otherwise the retry loop starts at budget 100.
Formulate ==
    /\ phase = "run"
    /\ \/ /\ EndRun("raised")
          /\ UNCHANGED max_iters
       \/ /\ num_tx_list[level] <= block_size
          /\ phase' = "solve"
          /\ max_iters' = InitialIters
          /\ UNCHANGED <<trial, level, outcome>>
    /\ UNCHANGED <<block_size, experiments, saved>>

\* Lines 76, 81-86: the solve raises; raise the budget and retry, or
\* return with no measurement once it exceeds the cap.
SolveRaises ==
    /\ phase = "solve"
    /\ max_iters' = NextIters(max_iters)
    /\ IF GiveUp(NextIters(max_iters))
         THEN EndRun("gave_up")
         ELSE UNCHANGED <<phase, trial, level, outcome>>
    /\ UNCHANGED <<block_size, experiments, saved>>

\* Lines 76-80, 87-99: the solve returns, whatever problem.status it
\* reports; take its duration and push a measurement if there is one.
SolveReturns ==
    /\ phase = "solve"
    /\ \E has_duration \in BOOLEAN, status \in SolverStatuses :
         /\ experiments' = [experiments EXCEPT ![level].results =
                              push_back(@, has_duration, trial)]
         /\ EndRun(CASE ~has_duration       -> "no_duration"
                      [] status = "optimal" -> "measured"
                      [] OTHER              -> "unsolved")
    /\ UNCHANGED <<block_size, max_iters, saved>>

Next ==
    \/ LoadParams
    \/ LoadBlock
    \/ SaveResults
    \/ Formulate
    \/ SolveRaises
    \/ SolveReturns

\* One thread that always runs while the program has not exited.
Spec == Init /\ [][Next]_vars /\ WF_vars(Next)

Terminated == phase \in {"done", "aborted"}

(***************************************************************************)
(* Properties.                                                             *)
(***************************************************************************)

\* Every variable holds a value of its intended type.
TypeOK ==
    /\ phase \in Phases
    /\ trial \in 1 .. num_trials + 1
    /\ level \in Levels
    /\ block_size \in BlockSizes \cup {0}
    /\ max_iters \in InitialIters .. ItersCap + ItersStep
    /\ experiments \in [Levels -> SingleExperiment] \cup {<<>>}
    /\ saved \in [Levels -> SingleExperiment] \cup {NoFile}
    /\ outcome \in [Runs -> Outcomes]

\* Spec 3 and 4.1: a trial that raised, gave up or got no duration is
\* absent from its level's results (a shortfall, never a padded or zero
\* entry), and every trial whose solve returned a duration is present
\* once, in trial order.  So len(results) <= num_trials.  About push_back
\* and the level index j of run_sosp_experiment line 144.
ShortfallIsFailures ==
    experiments # <<>> =>
      \A j \in Levels :
        experiments[j].results =
          SetToSortSeq({t \in Trials :
                          outcome[<<t, j>>] \in {"measured", "unsolved"}}, <)

\* Spec 4.1: a measurement is appended only for a successful solve; a
\* solve that returns an infeasible or otherwise non-optimal status is a
\* failure and must leave a shortfall.  About lines 79-80 and 93-98.
OnlyOptimalSolvesMeasured ==
    experiments # <<>> =>
      \A j \in Levels : \A t \in Range(experiments[j].results) :
        outcome[<<t, j>>] = "measured"

\* Spec 4.1: the retry loop never solves with a budget above 200, and it
\* abandons a run only after the attempt with budget 200 has failed, so
\* the budgets 100, 120, ..., 200 have all been tried.  About lines 81-86.
RetrySchedule ==
    [][phase = "solve" =>
         /\ max_iters <= ItersCap
         /\ outcome'[<<trial, level>>] = "gave_up" => max_iters = ItersCap
      ]_vars

\* Spec 4.2: a saved collection covers every (trial, level) pair: each
\* trial's block was loaded and each level was run on it, and the file
\* holds exactly the in-memory results.  A load failure saves nothing.
SavedCoversEveryRun ==
    saved # NoFile =>
      /\ \A r \in Runs : outcome[r] # "pending"
      /\ saved = experiments

(***************************************************************************)
(* Refinement: the sweep with its retry loop implements the abstract sweep *)
(* of Sweep.tla.  Formulating the problem and every solve attempt but the  *)
(* last are stuttering steps of the abstract sweep; the step that ends a   *)
(* call of run_experiment is its RunLevel.                                 *)
(***************************************************************************)
AbstractStatus ==
    CASE phase = "load_params" -> "init"
      [] phase = "done"        -> "saved"
      [] phase = "aborted"     -> "aborted"
      [] OTHER                 -> "running"

ResultsOf(coll) == [j \in Levels |-> coll[j].results]

Abstract == INSTANCE Sweep
    WITH results <- IF experiments = <<>> THEN [j \in Levels |-> <<>>]
                                          ELSE ResultsOf(experiments),
         status <- AbstractStatus,
         saved <- IF saved = NoFile THEN NoFile ELSE ResultsOf(saved)

\* Spec 4.2: each call of the driver adds at most one measurement, for its
\* own trial and level, in trial order; the file is written once, after the
\* last trial; and the sweep always ends (the retry loop is bounded), under
\* the fairness of the single thread.
ImplementsSweep == Abstract!ASpec

=============================================================================
