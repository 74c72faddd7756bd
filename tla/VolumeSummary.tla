--------------------------- MODULE VolumeSummary ---------------------------
(***************************************************************************)
(* src/implementation/src/summarize_experiment_data.py: for each of the    *)
(* numbered blocks 1 .. 500, get_block_volumes loads the block and sums,   *)
(* per asset, the amounts of its sell offers; a transaction it cannot read *)
(* as a sell offer of one of the num_assets assets raises inside the try   *)
(* and is skipped.  The per-block snapshots are saved once, in block       *)
(* order.                                                                  *)
(*                                                                         *)
(* A transaction is its first operation's kind, the sell asset and the    *)
(* amount; the other fields of the order are not read.                    *)
(***************************************************************************)
EXTENDS Naturals, Sequences, SequencesExt

CONSTANTS
    NumBlocks,    \* the blocks summarized (500)
    num_assets,   \* the assets of the experiment (20)
    AssetIds,     \* sell-asset indices an order may carry
    Amounts,      \* amounts an order may carry
    MaxTxs,       \* bound: transactions per block
    NoFile        \* model value: summarized_gen_volume has not been written

Assets == 0 .. num_assets - 1

Txs == [kind : {"createSellOffer", "other"}, sell : AssetIds,
        amount : Amounts]

\* Mutant: the zeroing loop stops one asset early.
ZeroVolumes_one_short == [a \in 0 .. num_assets - 2 |-> 0]

\* Lines 13-14: coin_volumes starts at zero for every asset.
ZeroVolumes == [a \in Assets |-> 0]

\* Mutant: the operation kind is not checked.
AddVolume_any_op(vols, tx) ==
    IF tx.sell \in Assets THEN [vols EXCEPT ![tx.sell] = @ + tx.amount]
                          ELSE vols

\* Lines 16-24: one transaction.  Reading createSellOfferOp of another
\* operation raises, and so does indexing coin_volumes with an asset
\* outside 0 .. num_assets - 1; the bare except skips the transaction.
\* The read-modify-write of line 21 raises before it writes, so a skipped
\* transaction changes nothing.
AddVolume(vols, tx) ==
    IF tx.kind = "createSellOffer" /\ tx.sell \in Assets
      THEN [vols EXCEPT ![tx.sell] = @ + tx.amount]
      ELSE vols

\* Lines 6-28: get_block_volumes over a loaded block.
get_block_volumes(block) == FoldLeft(AddVolume, ZeroVolumes, block)

VARIABLES
    blocks,       \* the content of each block file (chosen in Init)
    i,            \* the block being summarized
    phase,        \* "load", "done" or "aborted"
    snapshots,    \* total.snapshots
    saved         \* the saved GeneratedExperimentVolumeData, or NoFile

vars == <<blocks, i, phase, snapshots, saved>>

Init ==
    /\ blocks \in [1 .. NumBlocks -> BoundedSeq(Txs, MaxTxs)]
    /\ i = 1
    /\ phase = "load"
    /\ snapshots = <<>>
    /\ saved = NoFile

\* Lines 11, 34-36: load block i (a load error is not caught and ends the
\* script) and push its volumes.
SummarizeBlock ==
    /\ phase = "load"
    /\ i <= NumBlocks
    /\ \/ /\ snapshots' = Append(snapshots, get_block_volumes(blocks[i]))
          /\ i' = i + 1
          /\ UNCHANGED phase
       \/ /\ phase' = "aborted"
          /\ UNCHANGED <<snapshots, i>>
    /\ UNCHANGED <<blocks, saved>>

\* Line 38: every block is summarized; the collection is saved.
SaveTotal ==
    /\ phase = "load"
    /\ i > NumBlocks
    /\ saved' = snapshots
    /\ phase' = "done"
    /\ UNCHANGED <<blocks, i, snapshots>>

Next == SummarizeBlock \/ SaveTotal

\* The script is one thread that runs until it exits.
Spec == Init /\ [][Next]_vars /\ WF_vars(Next)

(***************************************************************************)
(* Properties.                                                             *)
(***************************************************************************)

\* Every variable holds a value of its intended type.
TypeOK ==
    /\ i \in 1 .. NumBlocks + 1
    /\ phase \in {"load", "done", "aborted"}
    /\ snapshots \in Seq([Assets -> Nat])
    /\ Len(snapshots) = i - 1

\* The reference volume of asset a in a block: the sum of the amounts of
\* the block's sell offers of a.
Volume(block, a) ==
    SumFunction([k \in {j \in DOMAIN block :
                          block[j].kind = "createSellOffer"
                          /\ block[j].sell = a} |-> block[k].amount])

\* The saved file holds one snapshot per block, in block order, and each
\* is the block's per-asset volume over its readable sell offers: an
\* order of an unknown asset or another operation is left out and
\* credited to no asset.  About the fold of get_block_volumes and its
\* bare except.
SnapshotsAreBlockVolumes ==
    saved # NoFile =>
      /\ Len(saved) = NumBlocks
      /\ \A b \in 1 .. NumBlocks, a \in Assets :
           saved[b][a] = Volume(blocks[b], a)

=============================================================================
