-------------------------- MODULE MCBlockProver --------------------------
(* The bootstrap and the steady state on small chains. *)
EXTENDS BlockProver

Block(id, txs) == [id |-> id, txs |-> txs]
Tx(txid, inputs, outputs) == [txid |-> txid, inputs |-> inputs, outputs |-> outputs]

\* "a" is used twice; "c" is spent in its own block, others in later blocks.
Trunk == << Block("b1", <<Tx("a", <<>>, <<TRUE>>), Tx("x", <<>>, <<TRUE>>)>>),
            Block("b2", <<Tx("b", <<>>, <<TRUE, FALSE, TRUE>>), Tx("w", << <<"x", 0>> >>, <<FALSE>>)>>),
            Block("b3", <<Tx("a", <<>>, <<TRUE>>),
                          Tx("c", << <<"b", 0>> >>, <<TRUE, TRUE>>),
                          Tx("d", << <<"c", 0>> >>, <<TRUE>>)>>) >>

\* The fourth block spends and has no leaf, the fifth spends outputs of the third.
Longer == Trunk \o
    << Block("b4", <<Tx("e", << <<"b", 2>>, <<"c", 1>> >>, <<FALSE>>)>>),
       Block("b5", <<Tx("g", << <<"a", 0>> >>, <<TRUE>>)>>) >>

\* A fork of the last three blocks; the first has one leaf more, and the others spend it and another.
Side == SubSeq(Trunk, 1, 2) \o
    << Block("z3", <<Tx("a", <<>>, <<TRUE>>),
                     Tx("c", << <<"b", 0>> >>, <<TRUE, TRUE>>),
                     Tx("d", <<>>, <<TRUE>>)>>),
       Block("z4", <<Tx("h", << <<"d", 0>> >>, <<FALSE>>)>>),
       Block("z5", <<Tx("i", << <<"c", 1>>, <<"b", 2>> >>, <<FALSE>>)>>) >>

\* A fork whose second block has one leaf more, whose third has one less, and whose fourth has one.
Fork == << Trunk[1],
           Block("y2", <<Tx("b", <<>>, <<TRUE, TRUE, TRUE>>)>>),
           Block("y3", <<Tx("a", <<>>, <<TRUE>>),
                         Tx("c", << <<"b", 0>> >>, <<TRUE, TRUE>>),
                         Tx("d", << <<"c", 0>> >>, <<FALSE>>)>>),
           Block("y4", <<Tx("f", <<>>, <<TRUE>>)>>) >>

ForkChains == [short |-> SubSeq(Trunk, 1, 2), long |-> Longer, side |-> Side, fork |-> Fork]
Shadowed == 1 :> <<"a", 0>>
=============================================================================
