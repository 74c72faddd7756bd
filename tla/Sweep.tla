------------------------------- MODULE Sweep -------------------------------
(***************************************************************************)
(* What the sweep runner of src/implementation/src/sosp_cvxpy.py promises  *)
(* (run_sosp_experiment, spec 4.2), with the driver's retry loop hidden:   *)
(* for each trial, in order, and each level, in order, one call of the     *)
(* driver either records one measurement for that trial at that level or   *)
(* records nothing; at the end the whole collection is written once.  An   *)
(* error that is not caught ends the program with nothing written.         *)
(***************************************************************************)
EXTENDS Naturals, Sequences

CONSTANTS
    num_tx_list,    \* the transaction-count levels, in sweep order
    num_trials,     \* trials per level
    NoFile          \* model value: the output file has not been written

Levels == 1 .. Len(num_tx_list)
Trials == 1 .. num_trials

VARIABLES
    results,   \* per level, the trials that produced a measurement
    trial,     \* the trial being run
    level,     \* the level being run within it
    status,    \* "init", "running", "saved" or "aborted"
    saved      \* the written collection, or NoFile

avars == <<results, trial, level, status, saved>>

AInit ==
    /\ results = [j \in Levels |-> <<>>]
    /\ trial = 1
    /\ level = 1
    /\ status = "init"
    /\ saved = NoFile

\* Lines 115-130: the parameters are read and the levels set up.
Start ==
    /\ status = "init"
    /\ status' = "running"
    /\ UNCHANGED <<results, trial, level, saved>>

\* Lines 140-147: one call of the driver for (trial, level), which adds at
\* most this trial to this level's results; then the loops move on.
RunLevel ==
    /\ status = "running"
    /\ trial <= num_trials
    /\ \/ results' = [results EXCEPT ![level] = Append(@, trial)]
       \/ UNCHANGED results
    /\ IF level < Len(num_tx_list)
         THEN level' = level + 1 /\ UNCHANGED trial
         ELSE level' = 1 /\ trial' = trial + 1
    /\ UNCHANGED <<status, saved>>

\* Line 149: after the last trial the collection is written.
Save ==
    /\ status = "running"
    /\ trial > num_trials
    /\ saved' = results
    /\ status' = "saved"
    /\ UNCHANGED <<results, trial, level>>

\* Lines 118, 138, 149: a load or save error ends the program; nothing is
\* written.
Abort ==
    /\ status \in {"init", "running"}
    /\ status' = "aborted"
    /\ UNCHANGED <<results, trial, level, saved>>

ANext == Start \/ RunLevel \/ Save \/ Abort

\* The program is one thread that runs until it exits.
ASpec == AInit /\ [][ANext]_avars /\ WF_avars(ANext)

=============================================================================
