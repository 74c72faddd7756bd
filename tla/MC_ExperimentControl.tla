------------------------ MODULE MC_ExperimentControl ------------------------
(***************************************************************************)
(* Model-checking instance of ExperimentControl on the four-node testbed   *)
(* that manage_experiment.py addresses (10.10.1.1 .. 10.10.1.4), and, for  *)
(* the command line, a six-node testbed (create_cloudlab.py takes the     *)
(* node count as a parameter) and arguments 2 .. 6.                        *)
(***************************************************************************)
EXTENDS ExperimentControl

Inv(cmd, arg) == [cmd |-> cmd, arg |-> arg]

\* Every invocation of either script, with the argument values that
\* address the testbed.
MC_Invocations ==
    {Inv("run_experiment", 0), Inv("start_production", 0)}
      \cup {Inv(c, a) : c \in {"connect_validators", "teardown"}, a \in 2 .. 6}

\* run_experiment alone.
MC_RunExperiment == {Inv("run_experiment", 0)}

=============================================================================
