--------------------------- MODULE CoinFormatter ---------------------------
(***************************************************************************)
(* src/implementation/src/cryptocoin_experiment_formatter.py: for each     *)
(* coin, load_coin reads the coin's CSV file into a dictionary from day    *)
(* offset (relative to end_date) to (price, volume), then builds a window  *)
(* of `length` daily snapshots ending the day before end_date: days before *)
(* the first day with data get the default (1, 0); a missing day after    *)
(* it raises ValueError.  All coins are collected and saved once.          *)
(*                                                                         *)
(* A CSV row is its day offset (the parsed date minus end_date, in whole   *)
(* days) and its (price, volume) pair, abstracted to a model value.        *)
(***************************************************************************)
EXTENDS Naturals, Integers, Sequences, SequencesExt

CONSTANTS
    coins,        \* the coin names, in order
    length,       \* default_length: the window size
    Days,         \* day offsets a row may carry
    Quotes,       \* (price, volume) pairs a row may carry
    MaxRows,      \* bound: data rows per file
    Default,      \* model value: the default (1, 0)
    NoFile        \* model value: unified_data has not been written

Rows == BoundedSeq(Days \X Quotes, MaxRows)

\* Mutant: idx = i - length over a 1-based i, a window ending on end_date.
Window_with_end_day == [i \in 1 .. length |-> i - length]

\* Lines 38-39: the window's day offsets, idx = i - length.
Window == [i \in 1 .. length |-> (i - 1) - length]

VARIABLES
    csv,          \* each coin's CSV data rows, after the header (Init)
    c,            \* position in coins of the coin being loaded
    phase,        \* "open", "read", "window", "done" or "aborted"
    r,            \* the next CSV row
    output,       \* load_coin's dictionary: day offset -> quote
    w,            \* the next position in the window
    discontinuity,\* the flag of line 36: a day with data has been seen
    snapshots,    \* x.snapshots of the coin being built
    data,         \* data.coins: the coins built so far
    saved         \* the saved CryptocoinExperiment, or NoFile

vars == <<csv, c, phase, r, output, w, discontinuity, snapshots, data,
          saved>>

Init ==
    /\ csv \in [Range(coins) -> Rows]
    /\ c = 1
    /\ phase = "open"
    /\ r = 1
    /\ output = <<>>
    /\ w = 1
    /\ discontinuity = FALSE
    /\ snapshots = <<>>
    /\ data = <<>>
    /\ saved = NoFile

\* Lines 16-26: open the file (a missing file raises) and skip the
\* header row.
OpenCsv ==
    /\ phase = "open"
    /\ c <= Len(coins)
    /\ \/ /\ phase' = "aborted"
          /\ UNCHANGED <<r, output>>
       \/ /\ phase' = "read"
          /\ r' = 1
          /\ output' = <<>>
    /\ UNCHANGED <<csv, c, w, discontinuity, snapshots, data, saved>>

\* Mutant: a later row for the same day is ignored.
Store_keep_first(out, d, q) ==
    IF d \in DOMAIN out THEN out ELSE out @@ (d :> q)

\* Mutant: the whole row is stored instead of its (price, volume).
Store_row(out, d, q) == (d :> <<d, q>>) @@ out

\* Line 29: output[delta.days] = (price, volume); a later row overwrites.
Store(out, d, q) == (d :> q) @@ out

\* Lines 27-29: one data row.
ReadRow ==
    /\ phase = "read"
    /\ r <= Len(csv[coins[c]])
    /\ LET row == csv[coins[c]][r]
       IN output' = Store(output, row[1], row[2])
    /\ r' = r + 1
    /\ UNCHANGED <<csv, c, phase, w, discontinuity, snapshots, data, saved>>

\* Lines 31-36: the rows are read; the window loop starts.
StartWindow ==
    /\ phase = "read"
    /\ r > Len(csv[coins[c]])
    /\ phase' = "window"
    /\ w' = 1
    /\ discontinuity' = FALSE
    /\ snapshots' = <<>>
    /\ UNCHANGED <<csv, c, r, output, data, saved>>

\* Mutant: the flag is never set, so a gap is filled with the default.
SeenData_never(flag) == FALSE

\* Line 50: a day with data sets the flag.
SeenData(flag) == TRUE

\* Lines 38-53: one day of the window.  A missing day takes the default
\* before any data and raises ValueError after it.
WindowDay ==
    /\ phase = "window"
    /\ w <= length
    /\ LET idx == Window[w]
       IN \/ /\ idx \notin DOMAIN output
             /\ discontinuity
             /\ phase' = "aborted"
             /\ UNCHANGED <<w, discontinuity, snapshots>>
          \/ /\ idx \notin DOMAIN output
             /\ ~discontinuity
             /\ snapshots' = Append(snapshots, Default)
             /\ w' = w + 1
             /\ UNCHANGED <<phase, discontinuity>>
          \/ /\ idx \in DOMAIN output
             /\ snapshots' = Append(snapshots, output[idx])
             /\ discontinuity' = SeenData(discontinuity)
             /\ w' = w + 1
             /\ UNCHANGED phase
    /\ UNCHANGED <<csv, c, r, output, data, saved>>

\* Lines 54, 58-59: load_coin returns; the next coin follows.
PushCoin ==
    /\ phase = "window"
    /\ w > length
    /\ data' = Append(data, snapshots)
    /\ c' = c + 1
    /\ phase' = "open"
    /\ UNCHANGED <<csv, r, output, w, discontinuity, snapshots, saved>>

\* Line 61: every coin is loaded; the collection is saved.
SaveData ==
    /\ phase = "open"
    /\ c > Len(coins)
    /\ saved' = data
    /\ phase' = "done"
    /\ UNCHANGED <<csv, c, r, output, w, discontinuity, snapshots, data>>

Next ==
    \/ OpenCsv \/ ReadRow \/ StartWindow \/ WindowDay \/ PushCoin \/ SaveData

\* The script is one thread that runs until it exits.
Spec == Init /\ [][Next]_vars /\ WF_vars(Next)

(***************************************************************************)
(* Properties.                                                             *)
(***************************************************************************)

\* Every variable holds a value of its intended type.
TypeOK ==
    /\ phase \in {"open", "read", "window", "done", "aborted"}
    /\ c \in 1 .. Len(coins) + 1
    /\ w \in 1 .. length + 1
    /\ discontinuity \in BOOLEAN
    /\ snapshots \in Seq(Quotes \cup {Default})
    /\ Len(snapshots) <= length
    /\ data \in Seq(Seq(Quotes \cup {Default}))

\* The reference days: the `length` days before end_date, oldest first.
RefDays == SetToSortSeq(-length .. -1, <)

\* The reference days that some row of the file covers.
Covered(rows) == {d \in Range(RefDays) : \E k \in DOMAIN rows : rows[k][1] = d}

\* The quote of the last row of the file for day d.
LastQuote(rows, d) ==
    rows[CHOOSE k \in DOMAIN rows :
           rows[k][1] = d /\ \A j \in DOMAIN rows : rows[j][1] = d => j <= k][2]

\* The reference window of one file: the default up to the first covered
\* day, then the last quote of each day; defined only when every day from
\* the first covered one to the end of the window is covered.
Contiguous(rows) ==
    \A i, j \in DOMAIN RefDays :
      (i < j /\ RefDays[i] \in Covered(rows)) => RefDays[j] \in Covered(rows)

ReferenceWindow(rows) ==
    [i \in DOMAIN RefDays |->
       IF RefDays[i] \in Covered(rows) THEN LastQuote(rows, RefDays[i])
                                       ELSE Default]

\* The saved collection has one window per coin, in order; a coin's
\* window covers the `length` days before end_date, oldest first, and is
\* a run of defaults followed by the file's latest quote of every later
\* day; it is saved only when its data has no gap after the first day
\* with data.  About the index arithmetic idx = i - length (lines 38-39),
\* load_coin's dictionary (line 29), the discontinuity flag (lines 36-50)
\* and the single save.
WindowIsDefaultsThenData ==
    saved # NoFile =>
      /\ Len(saved) = Len(coins)
      /\ \A k \in DOMAIN coins :
           /\ Contiguous(csv[coins[k]])
           /\ saved[k] = ReferenceWindow(csv[coins[k]])

=============================================================================
