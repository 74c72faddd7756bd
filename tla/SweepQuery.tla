----------------------------- MODULE SweepQuery -----------------------------
(***************************************************************************)
(* The result index and the strict sweep queries of                        *)
(* src/implementation/src/error_graphs.py: load_results_map reads every    *)
(* result file of a folder into a map from (tax_rate, smooth_mult,         *)
(* num_txs) to the list of records with that key; the four loops at the   *)
(* end of the script then draw one figure per num_txs, one series per      *)
(* value of the other dimension, through plot_tax_attr / plot_smooth_attr. *)
(*                                                                         *)
(* Data abstraction: a record keeps its key, num_trials and the number of  *)
(* measurements it holds (results.size()); a plotted point keeps its x and *)
(* the record whose mean is its y.  Which getter (runtime or num_rounds)   *)
(* is averaged does not change the control and is left out.                *)
(***************************************************************************)
EXTENDS Naturals, Sequences, FiniteSets, SequencesExt

CONSTANTS
    Files,         \* the entries of the input folder
    ResultFiles,   \* those whose name contains "results"
    Taxes,         \* tax_rate values records may carry
    Mults,         \* smooth_mult values records may carry
    TxCounts,      \* num_txs values records may carry
    TxList1,       \* the num_txs list of the first loop (runtime by tax)
    TxList2,       \* the num_txs list of the other three loops
    NumTrials,     \* num_trials stamped on every record
    MaxRecords     \* bound: records per file

Keys == Taxes \X Mults \X TxCounts

Record == [key : Keys, num_trials : {NumTrials}, size : 0 .. NumTrials]

\* The contents a result file may have: a PriceComputationExperiment, one
\* record per configuration it ran.
FileContents ==
    UNION {{s \in [1 .. n -> Record] :
              \A a, b \in 1 .. n : a # b => s[a].key # s[b].key}
           : n \in 0 .. MaxRecords}

(***************************************************************************)
(* Iteration order of a Python set of small ints.  CPython's hash of an    *)
(* int is the int; a set of at most four elements built by set(list) keeps *)
(* an 8-slot table, so when no two elements agree modulo 8 it iterates in  *)
(* order of value modulo 8.  The model values are chosen so that holds.    *)
(***************************************************************************)
ASSUME /\ Cardinality(Taxes) <= 4 /\ Cardinality(Mults) <= 4
       /\ \A a, b \in Taxes : a % 8 = b % 8 => a = b
       /\ \A a, b \in Mults : a % 8 = b % 8 => a = b

PySetOrder(S) == SetToSortSeq(S, LAMBDA a, b : a % 8 < b % 8)

(***************************************************************************)
(* The figures the script draws, in order (lines 149-190): first runtime   *)
(* against tax_rate for each num_txs of TxList1, then rounds against       *)
(* tax_rate, runtime against smooth_mult and rounds against smooth_mult    *)
(* for each num_txs of TxList2.  "tax" figures have one series per         *)
(* smooth_mult and tax_rate on the x axis; "smooth" figures the converse.  *)
(***************************************************************************)
FiguresOf(dim, list) == [i \in DOMAIN list |-> [dim |-> dim, ntx |-> list[i]]]

Plan ==
    FiguresOf("tax", TxList1) \o FiguresOf("tax", TxList2)
      \o FiguresOf("smooth", TxList2) \o FiguresOf("smooth", TxList2)

VARIABLES
    disk,      \* the contents of each file of the folder
    loaded,    \* the files load_results_map has visited
    index,     \* output_dictionary: key -> list of records (<<>> if absent)
    status,    \* "running" or "aborted" (an uncaught exception)
    fig,       \* position in Plan of the figure being drawn
    open,      \* plt.figure() has been called for it
    pending,   \* the series values its loop has still to visit
    current,   \* the series drawn on the open figure
    figures    \* the figures saved so far

vars == <<disk, loaded, index, status, fig, open, pending, current, figures>>

(***************************************************************************)
(* Helpers translating the query functions.                                *)
(***************************************************************************)

InIndex(k) == k \in Keys /\ index[k] # <<>>

\* get_taxes / get_smooth_mults (lines 39-51): the distinct values of one
\* coordinate over all keys of the map.
get_taxes == {k[1] : k \in {k \in Keys : InIndex(k)}}
get_smooth_mults == {k[2] : k \in {k \in Keys : InIndex(k)}}

\* Mutant: the series loop iterates the x dimension's values (the set
\* function of the other pair of loops).
SeriesValuesSwapped(dim) == IF dim = "tax" THEN get_taxes ELSE get_smooth_mults

\* The values a figure's loop iterates over (a set: Python's order) and the
\* values its query function iterates over (sorted, lines 66-68, 106-108).
SeriesValues(dim) == IF dim = "tax" THEN get_smooth_mults ELSE get_taxes
XValues(dim) == IF dim = "tax" THEN get_taxes ELSE get_smooth_mults

\* Mutant: the x values are visited in set order, the sort dropped.
SortedXUnsorted(dim) == PySetOrder(XValues(dim))

\* Lines 66-68: list(set).sort().
SortedX(dim) == SetToSortSeq(XValues(dim), <)

KeyOf(dim, series, x, ntx) ==
    IF dim = "tax" THEN <<x, series, ntx>> ELSE <<series, x, ntx>>

\* Mutant: a group with partial trials is averaged (the lenient policy).
CompleteLenient(rec) == rec.size > 0

\* Lines 82-90, 122-130: the strict policy: a group is plotted only when
\* every trial produced a measurement, and only if there is one.
Complete(rec) == rec.size = rec.num_trials /\ rec.size > 0

\* Lines 73-75, 113-115: the x values whose key is in the map, in order.
PresentX(dim, series, ntx) ==
    SelectSeq(SortedX(dim), LAMBDA x : InIndex(KeyOf(dim, series, x, ntx)))

\* Mutant: the record count is checked after the timed-out-trials
\* `continue`, so a duplicated key whose first record is incomplete is
\* skipped silently.
SeriesRaisesAfterTimeoutCheck(dim, series, ntx) ==
    \E x \in Range(PresentX(dim, series, ntx)) :
      LET recs == index[KeyOf(dim, series, x, ntx)]
      IN Len(recs) # 1 /\ Complete(Head(recs))

\* Lines 76-78, 116-118: the query raises ValueError when a key present in
\* the map holds other than one record.
SeriesRaises(dim, series, ntx) ==
    \E x \in Range(PresentX(dim, series, ntx)) :
      Len(index[KeyOf(dim, series, x, ntx)]) # 1

\* Lines 80-92, 120-132: the points of one series of plot_tax_attr /
\* plot_smooth_attr when it does not raise: each present key's only
\* record, if it is complete.
SeriesPoints(dim, series, ntx) ==
    LET rec(x) == Head(index[KeyOf(dim, series, x, ntx)])
        ok == SelectSeq(PresentX(dim, series, ntx), LAMBDA x : Complete(rec(x)))
    IN [i \in DOMAIN ok |-> [x |-> ok[i], rec |-> rec(ok[i])]]

(***************************************************************************)
(* Actions.                                                                *)
(***************************************************************************)

Init ==
    /\ disk \in [ResultFiles -> FileContents]
    /\ loaded = {}
    /\ index = [k \in Keys |-> <<>>]
    /\ status = "running"
    /\ fig = 1
    /\ open = FALSE
    /\ pending = <<>>
    /\ current = <<>>
    /\ figures = <<>>

\* Lines 20-35: the next entry of os.listdir (in no particular order).  A
\* file without "results" in its name is skipped; loading a result file
\* may raise, which nothing catches; otherwise each record is appended to
\* the list of its key.
LoadFile ==
    /\ status = "running"
    /\ \E f \in Files \ loaded :
         /\ loaded' = loaded \cup {f}
         /\ \/ /\ f \notin ResultFiles
               /\ UNCHANGED <<index, status>>
            \/ /\ f \in ResultFiles
               /\ index' = [k \in Keys |->
                              index[k] \o SelectSeq(disk[f],
                                                    LAMBDA r : r.key = k)]
               /\ UNCHANGED status
            \/ /\ f \in ResultFiles
               /\ status' = "aborted"
               /\ UNCHANGED index
    /\ UNCHANGED <<disk, fig, open, pending, current, figures>>

\* Lines 150-151 (and 160-161, 171-172, 182-183): plt.figure(), then the
\* set of series values for the loop.
NewFigure ==
    /\ status = "running"
    /\ loaded = Files
    /\ fig <= Len(Plan)
    /\ ~open
    /\ open' = TRUE
    /\ pending' = PySetOrder(SeriesValues(Plan[fig].dim))
    /\ current' = <<>>
    /\ UNCHANGED <<disk, loaded, index, status, fig, figures>>

\* Lines 152-153 (and the like): one call of the query function for the
\* next series value.  A ValueError ends the script; otherwise the series
\* is drawn if it has any point (lines 94-95).
PlotSeries ==
    /\ status = "running"
    /\ open
    /\ pending # <<>>
    /\ LET dim == Plan[fig].dim
           ntx == Plan[fig].ntx
           pts == SeriesPoints(dim, Head(pending), ntx)
       IN \/ /\ SeriesRaises(dim, Head(pending), ntx)
             /\ status' = "aborted"
             /\ UNCHANGED <<pending, current>>
          \/ /\ ~SeriesRaises(dim, Head(pending), ntx)
             /\ pending' = Tail(pending)
             /\ current' = IF pts = <<>> THEN current
                           ELSE Append(current, [label |-> Head(pending),
                                                 points |-> pts])
             /\ UNCHANGED status
    /\ UNCHANGED <<disk, loaded, index, fig, open, figures>>

\* Lines 154-157 (and the like): legend, savefig, close.
SaveFigure ==
    /\ status = "running"
    /\ open
    /\ pending = <<>>
    /\ figures' = Append(figures, [plan |-> Plan[fig], series |-> current])
    /\ fig' = fig + 1
    /\ open' = FALSE
    /\ UNCHANGED <<disk, loaded, index, status, pending, current>>

Next == LoadFile \/ NewFigure \/ PlotSeries \/ SaveFigure

Spec == Init /\ [][Next]_vars /\ WF_vars(Next)

Finished == fig > Len(Plan)

(***************************************************************************)
(* Properties.                                                             *)
(***************************************************************************)

\* The number of records with key k over all result files of the folder.
RecordCount(k) ==
    Cardinality({<<f, i>> \in ResultFiles \X (1 .. MaxRecords) :
                   i \in DOMAIN disk[f] /\ disk[f][i].key = k})

\* The only record with key k, when there is one.
TheRecord(k) ==
    CHOOSE r \in UNION {Range(disk[f]) : f \in ResultFiles} : r.key = k

\* The key a point of series s of saved figure F stands for.
PointKey(F, s, p) == KeyOf(F.plan.dim, s.label, p.x, F.plan.ntx)

Points(F) == {<<s, p>> \in Range(F.series) \X UNION {Range(t.points) :
                                                    t \in Range(F.series)} :
                p \in Range(s.points)}

\* Every variable holds a value of its intended type.
TypeOK ==
    /\ disk \in [ResultFiles -> FileContents]
    /\ loaded \subseteq Files
    /\ index \in [Keys -> Seq(Record)]
    /\ status \in {"running", "aborted"}
    /\ fig \in 1 .. Len(Plan) + 1
    /\ open \in BOOLEAN
    /\ open => pending \in Seq(IF Plan[fig].dim = "tax" THEN Mults ELSE Taxes)
    /\ current \in Seq([label : Taxes \cup Mults,
                        points : Seq([x : Taxes \cup Mults, rec : Record])])
    /\ Len(figures) = fig - 1

\* Spec 4.6, the strict policy: every point of a saved figure is the mean
\* of the one record, over all result files, with the point's key, and that
\* record holds a measurement for each of its trials.  About the loading
\* loop of load_results_map and the checks of plot_tax_attr and
\* plot_smooth_attr together.
StrictPointsAreCompleteGroups ==
    \A F \in Range(figures) : \A sp \in Points(F) :
      LET k == PointKey(F, sp[1], sp[2])
      IN /\ RecordCount(k) = 1
         /\ sp[2].rec = TheRecord(k)
         /\ sp[2].rec.size = NumTrials

\* Spec 4.6: no complete group is silently left out: for every key of a
\* saved figure's num_txs held by exactly one complete record, the figure
\* has a series for the key's series value with a point at its x value.
NoCompleteGroupDropped ==
    \A F \in Range(figures) : \A k \in Keys :
      (k[3] = F.plan.ntx /\ RecordCount(k) = 1 /\ Complete(TheRecord(k)))
        => \E sp \in Points(F) : PointKey(F, sp[1], sp[2]) = k

\* Spec 4.4: each series is drawn with its x values in ascending order,
\* although the map and the sets the values come from have no order.
XAscending ==
    \A F \in Range(figures) : \A s \in Range(F.series) :
      \A i, j \in DOMAIN s.points : i < j => s.points[i].x < s.points[j].x

\* Spec 4.4 (DuplicateKey): a key held by more than one record is an
\* error, never a group.  load_results_map appends duplicates silently
\* (lines 33-35) and only the len != 1 check of the queries (lines 76-78,
\* 116-118) rejects them, when a figure visits the key.  So no figure is
\* saved for a num_txs that has a key held by two records over the result
\* files, even when the first of them is a timed-out group that is never
\* plotted; duplicates of a num_txs no figure draws pass unnoticed.
DuplicateKeyNeverSaved ==
    \A F \in Range(figures) : \A k \in Keys :
      k[3] = F.plan.ntx => RecordCount(k) <= 1

=============================================================================
