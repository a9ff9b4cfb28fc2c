---------------------------- MODULE Transactions ----------------------------
(***************************************************************************)
(* What the three readers of blocks (the hints generator, the forest       *)
(* builder and the prover) take from a block.  A block is an identity and  *)
(* a sequence of transactions; a transaction is its identifier, the        *)
(* outpoints it spends (none for a coinbase) and, for each output, whether *)
(* its script can be spent.  Values, scripts and signatures are left out.  *)
(***************************************************************************)
EXTENDS Naturals, Sequences, FiniteSets, SequencesExt

\* Outpoints that a transaction creates.
Created(tx) == {<<tx.txid, vout>> : vout \in 0 .. Len(tx.outputs) - 1}

\* Outpoints that a block spends, in the order of its inputs.
Spends(block) == FlattenSeq([t \in DOMAIN block.txs |-> block.txs[t].inputs])

\* Outputs that a later transaction of the same block spends.
same_block_spends(block) ==
    UNION {ToSet(block.txs[j].inputs) \cap UNION {Created(block.txs[i]) : i \in 1 .. j - 1} :
              j \in DOMAIN block.txs}

\* The outputs of a block that become leaves, in block order.
eligible_outputs(block) ==
    LET outputs(tx) == [v \in DOMAIN tx.outputs |->
                           [outpoint |-> <<tx.txid, v - 1>>, spendable |-> tx.outputs[v]]]
        all == FlattenSeq([t \in DOMAIN block.txs |-> outputs(block.txs[t])])
        kept == SelectSeq(all, LAMBDA o : o.spendable /\ o.outpoint \notin same_block_spends(block))
    IN  [i \in DOMAIN kept |-> kept[i].outpoint]
=============================================================================
