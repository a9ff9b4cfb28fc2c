--------------------------- MODULE HintsGenerator ---------------------------
(***************************************************************************)
(* The offline tool bridge-hints (bin/bridge-hints.rs, prefixed_hints.rs). *)
(* It scans Core's active chain from height 1, keeps the set of unspent    *)
(* outputs with the place of each among the leaves of its block, and       *)
(* writes, per height, the number of leaves and the places of the unspent  *)
(* ones.  The file is encoded under a temporary name, synced and renamed.  *)
(*                                                                         *)
(* `files` is what a process finds under the two names, `disk` the set of  *)
(* states in which a power loss may leave them.  A kill loses the process  *)
(* and no file.  A temporary file left behind blocks every later run until *)
(* it is removed by hand.                                                  *)
(***************************************************************************)
EXTENDS Transactions, TLC

CONSTANTS Chains,       \* the chains that Core may have: name -> sequence of blocks from height 1
          Bip30,        \* height -> outpoint whose leaf a later transaction of that name shadows
          StopHeights,  \* the values of --stop-height in use
          MaxRuns,      \* bound: runs of the tool
          MaxStops,     \* bound: kills and power losses
          MaxReorgs     \* bound: changes of Core's chain between two tools

ASSUME GeneratorAssumption ==
    /\ \A c \in DOMAIN Chains : \A h \in DOMAIN Chains[c] : {"id", "txs"} \subseteq DOMAIN Chains[c][h]
    /\ StopHeights \subseteq Nat \ {0}
    /\ {MaxRuns, MaxStops, MaxReorgs} \subseteq Nat

VARIABLES
    chain,       \* the kernel's active chain, by name
    files,       \* the destination and the temporary file, as a process reads them
    disk,        \* the states of both that a power loss may leave
    gen,         \* step of the tool
    stop_height,
    force,       \* --force
    height,      \* blocks applied
    utxos,       \* outpoint -> height and index of its leaf
    leaf_counts, \* leaves per height
    budget       \* runs, stops and reorganizations left

generator_vars == <<chain, files, disk, gen, stop_height, force, height, utxos, leaf_counts, budget>>

\* The leaves of every block of every chain, in block order.
LeavesOf == [c \in DOMAIN Chains |-> [h \in DOMAIN Chains[c] |-> eligible_outputs(Chains[c][h])]]
block_at_height(h) == Chains[chain][h]
tip_height == Len(Chains[chain])

Absent == [kind |-> "absent"]
Torn == [kind |-> "torn"]     \* created, and not completely written
Hints(stop, counts, indices) == [kind |-> "hints", stop |-> stop, counts |-> counts, indices |-> indices]

\* The first of two outputs with the same name keeps its leaf, but is never unspent.
bip30_excluded_outpoint(h) == IF h \in DOMAIN Bip30 THEN {Bip30[h]} ELSE {}

\* Core's chains are valid: a block does not create an output twice, and an output that is spent
\* in its own block does not have the name of a leaf that is still unspent (BIP30).
ASSUME ChainsAssumption ==
    \A c \in DOMAIN Chains :
        /\ Len(Chains[c]) \in Nat /\ DOMAIN Chains[c] = 1 .. Len(Chains[c])
        /\ \A h \in DOMAIN Chains[c] :
              /\ Len(LeavesOf[c][h]) \in Nat /\ DOMAIN LeavesOf[c][h] = 1 .. Len(LeavesOf[c][h])
              /\ \A i, j \in DOMAIN LeavesOf[c][h] : LeavesOf[c][h][i] = LeavesOf[c][h][j] => i = j
              /\ \A g \in 1 .. h - 1 :
                    \A o \in (ToSet(LeavesOf[c][g]) \cap same_block_spends(Chains[c][h]))
                               \ bip30_excluded_outpoint(g) :
                       \E k \in g + 1 .. h - 1 : o \in ToSet(Spends(Chains[c][k]))

GeneratorInit ==
    /\ chain \in DOMAIN Chains
    /\ files = [output |-> Absent, temporary |-> Absent]
    /\ disk = {files}
    /\ gen = "idle" /\ stop_height = 0 /\ force = FALSE
    /\ height = 0 /\ utxos = <<>> /\ leaf_counts = <<>>
    /\ budget = [runs |-> MaxRuns, stops |-> MaxStops, reorgs |-> MaxReorgs]

\* The tool starts on a chain that reaches the stop height.
start ==
    /\ gen = "idle" /\ budget.runs > 0
    /\ \E stop \in StopHeights, f \in BOOLEAN :
          /\ stop <= tip_height
          /\ stop_height' = stop /\ force' = f
    /\ gen' = "scanning" /\ height' = 0 /\ utxos' = <<>> /\ leaf_counts' = <<>>
    /\ budget' = [budget EXCEPT !.runs = @ - 1]
    /\ UNCHANGED <<chain, files, disk>>

\* The new unspent outputs of a block with their places.
Inserted(h) ==
    LET leaves == LeavesOf[chain][h] IN
    [o \in ToSet(leaves) \ bip30_excluded_outpoint(h) |->
        [height |-> h, index |-> (CHOOSE i \in DOMAIN leaves : leaves[i] = o) - 1]]

Removed(block) == ToSet(Spends(block)) \ same_block_spends(block)

\* The tool ends; nothing of the scan is kept.
Ends == gen' = "idle" /\ stop_height' = 0 /\ force' = FALSE
        /\ height' = 0 /\ utxos' = <<>> /\ leaf_counts' = <<>>

\* The inputs of the whole block are taken out before its outputs are put in.
apply_block ==
    /\ gen = "scanning" /\ height < stop_height
    /\ LET h == height + 1
           block == block_at_height(h)
           left == [o \in DOMAIN utxos \ Removed(block) |-> utxos[o]]
           new == Inserted(h)
       IN  IF Removed(block) \subseteq DOMAIN utxos /\ DOMAIN left \cap DOMAIN new = {}
           THEN /\ utxos' = [o \in DOMAIN new \cup DOMAIN left |->
                               IF o \in DOMAIN new THEN new[o] ELSE utxos[o]]
                /\ leaf_counts' = Append(leaf_counts, Len(LeavesOf[chain][h]))
                /\ height' = h
                /\ UNCHANGED <<gen, stop_height, force>>
           ELSE Ends
    /\ UNCHANGED <<chain, files, disk, budget>>

\* Numbers in increasing order: the n-th has n - 1 smaller ones.
Increasing(numbers) ==
    [n \in 1 .. Cardinality(numbers) |->
        CHOOSE i \in numbers : Cardinality({j \in numbers : j < i}) = n - 1]

\* The places of the unspent leaves of each height, in increasing order.
collect_unspent_indices ==
    [h \in 1 .. stop_height |->
        Increasing({utxos[o].index : o \in {p \in DOMAIN utxos : utxos[p].height = h}})]

\* The destination exists and may not be replaced, or a temporary file was left behind.
refuse ==
    /\ gen = "scanning" /\ height = stop_height
    /\ \/ files.output # Absent /\ ~force
       \/ files.temporary # Absent
    /\ Ends
    /\ UNCHANGED <<chain, files, disk, budget>>

create_temporary ==
    /\ gen = "scanning" /\ height = stop_height
    /\ files.output = Absent \/ force
    /\ files.temporary = Absent
    /\ gen' = "encode"
    /\ files' = [files EXCEPT !.temporary = Torn]
    /\ disk' = disk \cup {[d EXCEPT !.temporary = Torn] : d \in disk}
    /\ UNCHANGED <<chain, stop_height, force, height, utxos, leaf_counts, budget>>

encode_hints ==
    /\ gen = "encode"
    /\ gen' = "sync"
    /\ LET hints == Hints(stop_height, leaf_counts, collect_unspent_indices) IN
       /\ files' = [files EXCEPT !.temporary = hints]
       /\ disk' = disk \cup {[d EXCEPT !.temporary = hints] : d \in disk}
    /\ UNCHANGED <<chain, stop_height, force, height, utxos, leaf_counts, budget>>

\* Mutant: the temporary file is renamed as it is.
sync_temporary_skipped ==
    /\ gen = "sync" /\ gen' = "rename"
    /\ UNCHANGED <<chain, files, disk, stop_height, force, height, utxos, leaf_counts, budget>>

\* The content is on the medium wherever the name is.
sync_temporary ==
    /\ gen = "sync"
    /\ gen' = "rename"
    /\ disk' = {d \in disk : d.temporary \in {Absent, files.temporary}}
    /\ UNCHANGED <<chain, files, stop_height, force, height, utxos, leaf_counts, budget>>

Renamed(d) == IF d.temporary = Absent THEN d ELSE [output |-> d.temporary, temporary |-> Absent]

\* The directory is not synced: a power loss may take the rename back.
rename ==
    /\ gen = "rename"
    /\ files' = Renamed(files)
    /\ disk' = disk \cup {Renamed(d) : d \in disk}
    /\ Ends
    /\ UNCHANGED <<chain, budget>>

\* A write, the sync or the rename fails, and the temporary file is removed.
write_failure ==
    /\ gen \in {"encode", "sync", "rename"}
    /\ files' = [files EXCEPT !.temporary = Absent]
    /\ disk' = disk \cup {[d EXCEPT !.temporary = Absent] : d \in disk}
    /\ Ends
    /\ UNCHANGED <<chain, budget>>

kill_generator ==
    /\ gen # "idle" /\ budget.stops > 0
    /\ Ends
    /\ budget' = [budget EXCEPT !.stops = @ - 1]
    /\ UNCHANGED <<chain, files, disk>>

power_loss_generator ==
    /\ budget.stops > 0 /\ disk # {files}
    /\ \E d \in disk : files' = d /\ disk' = {d}
    /\ Ends
    /\ budget' = [budget EXCEPT !.stops = @ - 1]
    /\ UNCHANGED chain

\* The operator removes the temporary file that the tool complained about.
remove_temporary ==
    /\ gen = "idle" /\ files.temporary # Absent
    /\ files' = [files EXCEPT !.temporary = Absent]
    /\ disk' = disk \cup {[d EXCEPT !.temporary = Absent] : d \in disk}
    /\ UNCHANGED <<chain, gen, stop_height, force, height, utxos, leaf_counts, budget>>

GeneratorNext ==
    \/ start \/ apply_block \/ refuse \/ create_temporary \/ encode_hints \/ sync_temporary
    \/ rename \/ write_failure \/ kill_generator \/ power_loss_generator \/ remove_temporary
=============================================================================
