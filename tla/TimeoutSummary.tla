-------------------------- MODULE TimeoutSummary --------------------------
(***************************************************************************)
(* src/implementation/src/parse_timeouts.py: one pass over the lines of a  *)
(* log, each holding a timeout flag in column 72 and a metric from column  *)
(* 74; for the timed-out lines (flag 1) and the others it keeps the        *)
(* count, the maximum (starting from 0) and the sum, then prints the       *)
(* counts, the maxima and the two averages.                                *)
(*                                                                         *)
(* A line is its flag character and its metric; "7" stands for any digit  *)
(* other than 0 and 1, "x" for a flag character int() cannot parse (or a  *)
(* line too short to have one).  The echo of each line (line 18) is       *)
(* output only and is left out.                                            *)
(***************************************************************************)
EXTENDS Naturals, Sequences, SequencesExt, FiniteSetsExt

CONSTANTS
    Metrics,      \* metric values a line may carry
    MaxLines,     \* bound: lines in the log
    NoReport      \* model value: the summary has not been printed

Lines == BoundedSeq([flag : {"0", "1", "7", "x"}, metric : Metrics], MaxLines)

\* The running statistics of one class of lines.
Stats == [max : Nat, count : Nat, sum : Nat]

Empty == [max |-> 0, count |-> 0, sum |-> 0]

\* Mutant: the statistics of the timed-out lines are not initialised.
InitStats_no_bad == [good |-> Empty]

\* Lines 6-11: max_good, max_bad, avg_good, avg_bad, bad_count, good_count.
InitStats == [good |-> Empty, bad |-> Empty]

\* Mutant: the maximum of a class is compared against the other class's.
Fold_crossed_max(st, cls, metric) ==
    LET other == IF cls = "bad" THEN "good" ELSE "bad"
    IN [st EXCEPT ![cls] = [max |-> IF metric > st[other].max
                                      THEN metric ELSE @.max,
                            count |-> @.count + 1, sum |-> @.sum + metric]]

\* Lines 19-28: a line of class cls updates that class's maximum, count
\* and sum.
Fold(st, cls, metric) ==
    [st EXCEPT ![cls] = [max |-> IF metric > @.max THEN metric ELSE @.max,
                         count |-> @.count + 1, sum |-> @.sum + metric]]

\* Line 19: timeout_flag == 1.
ClassOf(flag) == IF flag = "1" THEN "bad" ELSE "good"

VARIABLES
    log,          \* the lines of the file (chosen in Init)
    k,            \* the next line
    phase,        \* "loop", "done" or "crashed"
    st,           \* the statistics of both classes
    report        \* what lines 29-36 printed, or NoReport

vars == <<log, k, phase, st, report>>

Init ==
    /\ log \in Lines
    /\ k = 1
    /\ phase = "loop"
    /\ st = InitStats
    /\ report = NoReport

\* Lines 13-28: one line; int(timeout) raises ValueError on a flag that is
\* not a digit, ending the script.
ReadLine ==
    /\ phase = "loop"
    /\ k <= Len(log)
    /\ IF log[k].flag = "x"
         THEN phase' = "crashed" /\ UNCHANGED st
         ELSE /\ st' = Fold(st, ClassOf(log[k].flag), log[k].metric)
              /\ UNCHANGED phase
    /\ k' = k + 1
    /\ UNCHANGED <<log, report>>

\* Lines 29-36: print the counts and maxima, then the averages; an empty
\* class makes its average raise ZeroDivisionError after the rest was
\* printed.
Report ==
    /\ phase = "loop"
    /\ k > Len(log)
    /\ report' = [good |-> st.good, bad |-> st.bad]
    /\ phase' = IF st.good.count > 0 /\ st.bad.count > 0 THEN "done"
                                                      ELSE "crashed"
    /\ UNCHANGED <<log, k, st>>

Next == ReadLine \/ Report

\* The script is one thread that runs until it exits.
Spec == Init /\ [][Next]_vars /\ WF_vars(Next)

(***************************************************************************)
(* Properties.                                                             *)
(***************************************************************************)

\* Every variable holds a value of its intended type.
TypeOK ==
    /\ k \in 1 .. MaxLines + 1
    /\ phase \in {"loop", "done", "crashed"}
    /\ st \in [{"good", "bad"} -> Stats]
    /\ report \in [good : Stats, bad : Stats] \cup {NoReport}

\* The lines of the log in class cls: the timed-out lines have flag 1,
\* the in-time ones any other digit.
LinesOf(cls) == {j \in DOMAIN log : log[j].flag \in IF cls = "bad" THEN {"1"}
                                                                  ELSE {"0", "7"}}

\* The reference statistics of a class.
Expected(cls) ==
    [max |-> Max({0} \cup {log[j].metric : j \in LinesOf(cls)}),
     count |-> Cardinality(LinesOf(cls)),
     sum |-> SumFunction([j \in LinesOf(cls) |-> log[j].metric])]

\* When the summary is printed, each class's count, maximum and sum (so
\* average) are those of exactly the lines with its flag, every line in
\* one class; and the averages are printed in full exactly when both
\* classes have a line, otherwise the script ends in ZeroDivisionError.
\* About the single pass of lines 13-28 and the divisions of 35-36.
SummaryMatchesLog ==
    report # NoReport =>
      /\ report.good = Expected("good")
      /\ report.bad = Expected("bad")
      /\ report.good.count + report.bad.count = Len(log)
      /\ (phase = "done") = (LinesOf("good") # {} /\ LinesOf("bad") # {})

=============================================================================
