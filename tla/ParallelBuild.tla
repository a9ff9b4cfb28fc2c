---------------------------- MODULE ParallelBuild ----------------------------
(***************************************************************************)
(* The parallel bootstrap of the forest (--build-forest, parallel_forest.rs*)
(* and header_index.rs).  Leaf workers claim chunks of heights, read their *)
(* blocks and write one leaf node per eligible output, at an offset known  *)
(* from the counts in the hints file; chasers compute the parents, row by  *)
(* row, as soon as both children are there.  A chaser that finds a child   *)
(* missing sleeps on a condition variable; publishers wake all sleepers,   *)
(* and so does an abort.  The main thread joins the leaf workers in order, *)
(* then the chasers, and validates.                                        *)
(*                                                                         *)
(* Nothing ties the file to the chain it was made from: Core may have      *)
(* changed its chain between the two tools, and then a block has more or   *)
(* fewer leaves than the file says.  A node is its hash and its spent      *)
(* flag; a hash is the leaf or the pair of hashes it was computed from.    *)
(* The position of a node has one writer if the counts are right, and a    *)
(* compare-and-exchange that fails if they are not.                        *)
(***************************************************************************)
EXTENDS HintsGenerator, ForestPositions

CONSTANTS LeafWorkers,    \* leaf_workers, as a set 0 .. n - 1
          ChaserWorkers,  \* chaser_workers, as a set 0 .. n - 1
          HeightChunk,    \* HEIGHT_CHUNK_SIZE
          PublishNodes,   \* nodes_per_two_pages
          ParentBatch,    \* parents_per_two_child_pages
          LeafCapacity,   \* minimum_leaf_capacity, 0 if it is not given
          MaxFaults       \* bound: block reads that fail and leaf workers that panic

ASSUME BuildAssumption ==
    /\ {HeightChunk, PublishNodes, ParentBatch} \subseteq Nat \ {0}
    /\ {LeafCapacity, MaxFaults, Cardinality(LeafWorkers), Cardinality(ChaserWorkers)} \subseteq Nat
    /\ LeafWorkers = 0 .. Cardinality(LeafWorkers) - 1
    /\ ChaserWorkers = 0 .. Cardinality(ChaserWorkers) - 1

VARIABLES
    phase,       \* step of the main thread
    hints,       \* BridgeHints
    layout,      \* leaf_offsets, leaves and forest_rows
    next_chunk,  \* HeightRangeAllocator
    nodes,       \* the forest file: position -> node
    leaf_map,    \* outpoint -> position
    headers,     \* height -> block, in the header file and the hash index
    aborted,     \* Availability.aborted
    leaf,        \* leaf worker -> where it is
    chaser,      \* chaser -> where it is
    joined,      \* leaf workers joined
    faults       \* faults left

input_vars == <<hints, layout>>
index_vars == <<leaf_map, headers>>
build_vars == <<phase, input_vars, next_chunk, nodes, index_vars, aborted, leaf, chaser, joined, faults>>
bootstrap_vars == <<generator_vars, build_vars>>

Unset == [flags |-> 0]
Empty == [zero |-> 32]    \* the hash of a node whose two children are spent
LeafNode(h, outpoint, spent) ==
    [hash |-> [block |-> block_at_height(h).id, outpoint |-> outpoint], spent |-> spent]

---------------------------------------------------------------------------
\* Layout.

leaf_count_at_height(h) == hints.counts[h]
count_hinted_leaves == FoldLeft(LAMBDA a, s : a + Len(s), 0, hints.indices)

LeavesBefore(counts) ==
    LET before[h \in 1 .. Len(counts) + 1] == IF h = 1 THEN 0 ELSE before[h - 1] + counts[h - 1]
    IN  before

\* The leaves before each height, then their total and the rows for the capacity asked for.
Layout(counts) ==
    LET offsets == LeavesBefore(counts)
        total == offsets[Len(counts) + 1]
        capacity == IF LeafCapacity = 0 THEN total ELSE LeafCapacity
    IN  [offsets |-> offsets, leaves |-> total, capacity |-> capacity, rows |-> tree_rows(capacity)]

leaf_offset(h) == layout.offsets[h]
leaves == layout.leaves
forest_rows == layout.rows

\* The chunks of a row: whole batches, with the rest in the last one.
parent_count(row) == (leaves \div Pow2[row]) \div 2
deterministic_chunk_count(total) == IF total \div ParentBatch > 1 THEN total \div ParentBatch ELSE 1

deterministic_chunk(total, chunk) ==
    [first |-> chunk * ParentBatch,
     end |-> IF chunk + 1 = deterministic_chunk_count(total) THEN total ELSE (chunk + 1) * ParentBatch]

\* A node whose sibling is spent takes its parent's place.
combine_children(left, right) ==
    CASE left.spent /\ right.spent   -> [hash |-> Empty, spent |-> TRUE]
      [] left.spent /\ ~right.spent  -> right
      [] ~left.spent /\ right.spent  -> left
      [] ~left.spent /\ ~right.spent ->
            [hash |-> [left |-> left.hash, right |-> right.hash], spent |-> FALSE]

---------------------------------------------------------------------------
IdleLeaf == [pc |-> "acquire", height |-> 0, end |-> 0, local |-> 0, hint |-> 0, unpublished |-> 0,
             entries |-> {}]
IdleChaser == [pc |-> "run", row |-> 0, chunk |-> 0, parent |-> 0, child |-> "last", parked |-> FALSE]

BuildInit ==
    /\ phase = "idle" /\ hints = Absent /\ layout = <<>>
    /\ next_chunk = 0 /\ nodes = <<>> /\ leaf_map = <<>> /\ headers = <<>> /\ aborted = FALSE
    /\ leaf = [w \in LeafWorkers |-> IdleLeaf]
    /\ chaser = [c \in ChaserWorkers |-> IdleChaser]
    /\ joined = 0 /\ faults = MaxFaults

BootstrapInit == GeneratorInit /\ BuildInit

\* Core reorganizes while neither tool runs.
reorganize ==
    /\ gen = "idle" /\ phase = "idle" /\ budget.reorgs > 0
    /\ chain' \in DOMAIN Chains \ {chain}
    /\ budget' = [budget EXCEPT !.reorgs = @ - 1]
    /\ UNCHANGED <<files, disk, gen, stop_height, force, height, utxos, leaf_counts, build_vars>>

\* The file is read completely before anything is created; the generator is not run again, and
\* what is left of its budget and of unsynced directory entries plays no further part.
from_reader ==
    /\ phase = "idle" /\ gen = "idle"
    /\ files.output.kind = "hints"
    /\ hints' = files.output /\ layout' = Layout(files.output.counts)
    /\ phase' = "check"
    /\ disk' = {files} /\ budget' = [runs |-> 0, stops |-> 0, reorgs |-> 0]
    /\ UNCHANGED <<chain, files, gen, stop_height, force, height, utxos, leaf_counts,
                   next_chunk, nodes, index_vars, aborted, leaf, chaser, joined, faults>>

\* Before anything is created; the size of the forest file is a 64-bit number.
Buildable ==
    /\ hints.stop <= tip_height /\ leaves > 0 /\ layout.capacity >= leaves
    /\ 2 * layout.capacity <= Pow2[MaxShift]

build_refused ==
    /\ phase = "check" /\ ~Buildable
    /\ phase' = "failed"
    /\ UNCHANGED <<generator_vars, input_vars, next_chunk, nodes, index_vars, aborted, leaf, chaser,
                   joined, faults>>

\* The first task of a chaser at or above a row.
Seek(c, row) ==
    LET rows == {r \in row .. forest_rows - 1 :
                    /\ parent_count(r) > 0
                    /\ c < deterministic_chunk_count(parent_count(r))}
    IN  IF rows = {} THEN [IdleChaser EXCEPT !.pc = "ended"]
        ELSE LET r == CHOOSE q \in rows : \A o \in rows : q <= o IN
             [IdleChaser EXCEPT !.row = r, !.chunk = c,
                                !.parent = deterministic_chunk(parent_count(r), c).first]

\* Leaf map, header index with the genesis header, forest file, and all threads.
build_with_source ==
    /\ phase = "check" /\ Buildable
    /\ phase' = "building"
    /\ nodes' = [p \in 0 .. forest_capacity(forest_rows) - 1 |-> Unset]
    /\ headers' = (0 :> "genesis")
    /\ chaser' = [c \in ChaserWorkers |-> Seek(c, 0)]
    /\ UNCHANGED <<generator_vars, input_vars, next_chunk, leaf_map, aborted, leaf, joined, faults>>

---------------------------------------------------------------------------
\* Publications and aborts wake every sleeping chaser.

Woken == [c \in ChaserWorkers |-> [chaser[c] EXCEPT !.parked = FALSE]]
publish == chaser' = Woken /\ UNCHANGED aborted

abort == aborted' = TRUE /\ chaser' = Woken

---------------------------------------------------------------------------
\* Leaf workers.

Stop == hints.stop

\* Mutant: a chunk also covers the first height of the next one.
chunk_end_overlapping(chunk) ==
    IF (chunk + 1) * HeightChunk < Stop THEN (chunk + 1) * HeightChunk + 1 ELSE Stop

chunk_end(chunk) == IF (chunk + 1) * HeightChunk < Stop THEN (chunk + 1) * HeightChunk ELSE Stop

acquire(w) ==
    /\ phase = "building" /\ leaf[w].pc = "acquire"
    /\ IF next_chunk * HeightChunk < Stop
       THEN /\ leaf' = [leaf EXCEPT ![w] = [IdleLeaf EXCEPT !.pc = "fill",
                                               !.height = next_chunk * HeightChunk + 1,
                                               !.end = chunk_end(next_chunk)]]
            /\ next_chunk' = next_chunk + 1
       ELSE /\ leaf' = [leaf EXCEPT ![w].pc = "ended"]
            /\ UNCHANGED next_chunk
    /\ UNCHANGED <<generator_vars, phase, input_vars, nodes, index_vars, aborted, chaser, joined, faults>>

\* Mutant: outputs that are spent in their own block are visited too.
visit_kernel_leaf_outputs_all(h) ==
    LeavesOf[chain][h] \o SetToSeq(same_block_spends(block_at_height(h)))

\* kernel_same_block_spends is the generator's same_block_spends over again.
visit_kernel_leaf_outputs(h) == LeavesOf[chain][h]

BottomPosition(w) == leaf_offset(leaf[w].height) + leaf[w].local
MoreLeaves(w) == leaf[w].local < Len(visit_kernel_leaf_outputs(leaf[w].height))
Free(p) == p \in DOMAIN nodes /\ nodes[p] = Unset

\* The worker ends with an error and aborts the build.
LeafError(w) ==
    /\ leaf' = [leaf EXCEPT ![w] = [IdleLeaf EXCEPT !.pc = "failed"]]
    /\ abort

Outpoint(w) == visit_kernel_leaf_outputs(leaf[w].height)[leaf[w].local + 1]
Hinted(w) == LET indices == hints.indices[leaf[w].height] IN
             leaf[w].hint < Len(indices) /\ indices[leaf[w].hint + 1] = leaf[w].local
Unindexed(w) == Outpoint(w) \in bip30_excluded_outpoint(leaf[w].height)

\* The position is in the file and free, and no hint names the leaf of a shadowed output.
Writable(w) == Free(BottomPosition(w)) /\ ~(Unindexed(w) /\ Hinted(w))

\* Mutant: the count is compared before it is increased.
PublishDue_late(w) == leaf[w].unpublished >= PublishNodes

PublishDue(w) == leaf[w].unpublished + 1 >= PublishNodes

\* One output: its node, its entry for the leaf map, and a publication when two pages are full.
write_leaf(w) ==
    /\ leaf[w].pc = "fill" /\ MoreLeaves(w) /\ Writable(w)
    /\ leaf' = [leaf EXCEPT
           ![w].local = @ + 1,
           ![w].hint = IF Hinted(w) THEN @ + 1 ELSE @,
           ![w].entries = IF Hinted(w) THEN @ \cup {<<Outpoint(w), BottomPosition(w)>>} ELSE @,
           ![w].unpublished = IF PublishDue(w) THEN 0 ELSE @ + 1]
    /\ IF PublishDue(w) THEN publish ELSE UNCHANGED <<chaser, aborted>>
    /\ nodes' = [nodes EXCEPT ![BottomPosition(w)] =
                    LeafNode(leaf[w].height, Outpoint(w), ~Unindexed(w) /\ ~Hinted(w))]
    /\ UNCHANGED <<generator_vars, phase, input_vars, next_chunk, index_vars, joined, faults>>

\* The position is outside the file or another block's leaf is already there.
write_refused(w) ==
    /\ leaf[w].pc = "fill" /\ MoreLeaves(w) /\ ~Writable(w)
    /\ LeafError(w)
    /\ UNCHANGED <<generator_vars, phase, input_vars, next_chunk, nodes, index_vars, joined, faults>>

\* Mutant: the number of leaves that the block really had is not looked at.
CountsAgree_unchecked(w) == TRUE

\* The block had the leaves that the file declares, and every hint was one of them.
CountsAgree(w) ==
    /\ leaf[w].local = leaf_count_at_height(leaf[w].height)
    /\ leaf[w].hint = Len(hints.indices[leaf[w].height])

Indexed(entries) == [o \in {e[1] : e \in entries} |-> (CHOOSE e \in entries : e[1] = o)[2]]

\* After the last output of a block: its entries, a publication, and after the range its headers.
end_block(w) ==
    /\ leaf[w].pc = "fill" /\ ~MoreLeaves(w) /\ CountsAgree(w)
    /\ leaf_map' = Indexed(leaf[w].entries) @@ leaf_map
    /\ leaf' = [leaf EXCEPT ![w] =
                   IF leaf[w].height = leaf[w].end THEN [@ EXCEPT !.pc = "headers"]
                   ELSE [IdleLeaf EXCEPT !.pc = "fill", !.height = leaf[w].height + 1, !.end = leaf[w].end]]
    /\ publish
    /\ UNCHANGED <<generator_vars, phase, input_vars, next_chunk, nodes, headers, joined, faults>>

count_changed(w) ==
    /\ leaf[w].pc = "fill" /\ ~MoreLeaves(w) /\ ~CountsAgree(w)
    /\ LeafError(w)
    /\ UNCHANGED <<generator_vars, phase, input_vars, next_chunk, nodes, index_vars, joined, faults>>

\* Mutant: the chunk's first height is left out.
RangeStart_late(end) == ((end - 1) \div HeightChunk) * HeightChunk + 2

RangeStart(end) == ((end - 1) \div HeightChunk) * HeightChunk + 1

put_batch(w) ==
    /\ leaf[w].pc = "headers"
    /\ headers' = [h \in RangeStart(leaf[w].end) .. leaf[w].end |-> block_at_height(h).id] @@ headers
    /\ leaf' = [leaf EXCEPT ![w] = IdleLeaf]
    /\ UNCHANGED <<generator_vars, phase, input_vars, next_chunk, nodes, leaf_map, aborted, chaser, joined, faults>>

\* Reading a block or writing an index fails.
leaf_failure(w) ==
    /\ leaf[w].pc \in {"fill", "headers"} /\ faults > 0
    /\ faults' = faults - 1
    /\ LeafError(w)
    /\ UNCHANGED <<generator_vars, phase, input_vars, next_chunk, nodes, index_vars, joined>>

\* A thread that panics tells nobody; only the join finds out.
leaf_panic(w) ==
    /\ leaf[w].pc \in {"fill", "headers"} /\ faults > 0
    /\ faults' = faults - 1
    /\ leaf' = [leaf EXCEPT ![w] = [IdleLeaf EXCEPT !.pc = "panicked"]]
    /\ UNCHANGED <<generator_vars, phase, input_vars, next_chunk, nodes, index_vars, aborted, chaser, joined>>

---------------------------------------------------------------------------
\* Chasers.

\* The child that a chaser looks for: first the last one of its chunk, then the two of each parent.
Wanted(c) ==
    LET k == chaser[c]
        first == start_position_at_row(k.row, forest_rows)
    IN  CASE k.child = "last"  -> first + 2 * deterministic_chunk(parent_count(k.row), k.chunk).end - 1
          [] k.child = "left"  -> first + 2 * k.parent
          [] k.child = "right" -> first + 2 * k.parent + 1

ParentPosition(c) == start_position_at_row(chaser[c].row + 1, forest_rows) + chaser[c].parent

Looking(c) == phase \in {"building", "joining"} /\ chaser[c].pc = "run" /\ ~chaser[c].parked
Found(c) == nodes[Wanted(c)] # Unset

read_ready(c) ==
    /\ Looking(c) /\ Found(c) /\ chaser[c].child # "right"
    /\ chaser' = [chaser EXCEPT ![c].child = IF @ = "last" THEN "left" ELSE "right"]
    /\ UNCHANGED <<generator_vars, phase, input_vars, next_chunk, nodes, index_vars, aborted, leaf, joined, faults>>

\* The task after a parent: the next parent of the chunk, the chaser's next chunk, or a higher row.
After(c) ==
    LET k == chaser[c]
        count == parent_count(k.row)
        next == k.chunk + Cardinality(ChaserWorkers)
    IN  IF k.parent + 1 < deterministic_chunk(count, k.chunk).end
        THEN [k EXCEPT !.parent = @ + 1, !.child = "left"]
        ELSE IF next < deterministic_chunk_count(count)
        THEN [k EXCEPT !.chunk = next, !.parent = deterministic_chunk(count, next).first, !.child = "last"]
        ELSE Seek(c, k.row + 1)

ChunkEnds(c) == chaser[c].parent + 1 = deterministic_chunk(parent_count(chaser[c].row), chaser[c].chunk).end

\* Both children are there: the parent, and after the last one of a chunk a publication.
write_parent(c) ==
    /\ Looking(c) /\ Found(c) /\ chaser[c].child = "right"
    /\ Free(ParentPosition(c))
    /\ nodes' = [nodes EXCEPT ![ParentPosition(c)] = combine_children(nodes[Wanted(c) - 1], nodes[Wanted(c)])]
    /\ chaser' = [(IF ChunkEnds(c) THEN Woken ELSE chaser) EXCEPT ![c] = After(c)]
    /\ UNCHANGED <<generator_vars, phase, input_vars, next_chunk, index_vars, aborted, leaf, joined, faults>>

\* A leaf of a block with more leaves than declared is where the parent belongs.
parent_refused(c) ==
    /\ Looking(c) /\ Found(c) /\ chaser[c].child = "right"
    /\ ~Free(ParentPosition(c))
    /\ chaser' = [Woken EXCEPT ![c] = [IdleChaser EXCEPT !.pc = "failed"]]
    /\ aborted' = TRUE
    /\ UNCHANGED <<generator_vars, phase, input_vars, next_chunk, nodes, index_vars, leaf, joined, faults>>

\* The child is missing: under the lock, the chaser goes to sleep unless the build is aborted.
wait_child(c) ==
    /\ Looking(c) /\ ~Found(c) /\ ~aborted
    /\ chaser' = [chaser EXCEPT ![c].parked = TRUE]
    /\ UNCHANGED <<generator_vars, phase, input_vars, next_chunk, nodes, index_vars, aborted, leaf, joined, faults>>

chaser_aborted(c) ==
    /\ Looking(c) /\ ~Found(c) /\ aborted
    /\ chaser' = [Woken EXCEPT ![c] = [IdleChaser EXCEPT !.pc = "failed"]]
    /\ UNCHANGED <<generator_vars, phase, input_vars, next_chunk, nodes, index_vars, aborted, leaf, joined, faults>>

---------------------------------------------------------------------------
\* The main thread.

Over(w) == leaf[w].pc \in {"ended", "failed", "panicked"}

\* Mutant: a panic is only noted.
join_leaf_unaborted ==
    /\ phase = "building" /\ joined < Cardinality(LeafWorkers) /\ Over(joined)
    /\ joined' = joined + 1
    /\ phase' = IF joined' = Cardinality(LeafWorkers) THEN "joining" ELSE "building"
    /\ IF leaf[joined].pc = "failed" THEN abort ELSE UNCHANGED <<chaser, aborted>>
    /\ UNCHANGED <<generator_vars, input_vars, next_chunk, nodes, index_vars, leaf, faults>>

join_leaf ==
    /\ phase = "building" /\ joined < Cardinality(LeafWorkers) /\ Over(joined)
    /\ joined' = joined + 1
    /\ phase' = IF joined' = Cardinality(LeafWorkers) THEN "joining" ELSE "building"
    /\ IF leaf[joined].pc # "ended" THEN abort ELSE UNCHANGED <<chaser, aborted>>
    /\ UNCHANGED <<generator_vars, input_vars, next_chunk, nodes, index_vars, leaf, faults>>

AllInitialized ==
    \A row \in 0 .. forest_rows : \A offset \in 0 .. (leaves \div Pow2[row]) - 1 :
        nodes[start_position_at_row(row, forest_rows) + offset] # Unset

\* No thread failed, every node of every tree is there, and as many leaves are indexed as hinted.
Complete ==
    /\ \A w \in LeafWorkers : leaf[w].pc = "ended"
    /\ \A c \in ChaserWorkers : chaser[c].pc = "ended"
    /\ AllInitialized
    /\ Cardinality(DOMAIN leaf_map) = count_hinted_leaves

validate_forest ==
    /\ phase = "joining"
    /\ \A c \in ChaserWorkers : chaser[c].pc # "run"
    /\ phase' = IF Complete THEN "built" ELSE "failed"
    /\ UNCHANGED <<generator_vars, input_vars, next_chunk, nodes, index_vars, aborted, leaf, chaser, joined, faults>>

LeafStep(w) ==
    \/ acquire(w) \/ write_leaf(w) \/ write_refused(w) \/ end_block(w) \/ count_changed(w) \/ put_batch(w)
ChaserStep(c) == read_ready(c) \/ write_parent(c) \/ parent_refused(c) \/ wait_child(c) \/ chaser_aborted(c)
MainStep == build_refused \/ build_with_source \/ join_leaf \/ validate_forest

BuildNext ==
    \/ from_reader \/ MainStep
    \/ \E w \in LeafWorkers : LeafStep(w) \/ leaf_failure(w) \/ leaf_panic(w)
    \/ \E c \in ChaserWorkers : ChaserStep(c)

\* The tool and the builder are run one after the other.
BootstrapNext ==
    \/ phase = "idle" /\ GeneratorNext /\ UNCHANGED build_vars
    \/ reorganize
    \/ BuildNext

\* Every thread of the builder is scheduled.
BootstrapFairness ==
    /\ WF_bootstrap_vars(MainStep)
    /\ \A w \in LeafWorkers : WF_bootstrap_vars(LeafStep(w))
    /\ \A c \in ChaserWorkers : WF_bootstrap_vars(ChaserStep(c))

---------------------------------------------------------------------------
(* Properties *)

\* The hints of the first `stop` blocks of a chain, from the definition of an unspent output.
HintsOf(c, stop) ==
    LET spent(h, o) == \/ o \in bip30_excluded_outpoint(h)
                       \/ \E g \in h + 1 .. stop : o \in ToSet(Spends(Chains[c][g]))
        places(h) == {i \in DOMAIN LeavesOf[c][h] : ~spent(h, LeavesOf[c][h][i])}
    IN  Hints(stop, [h \in 1 .. stop |-> Len(LeavesOf[c][h])],
              [h \in 1 .. stop |-> Increasing({i - 1 : i \in places(h)})])

AllHints == UNION {{HintsOf(c, stop) : stop \in StopHeights \cap DOMAIN Chains[c]} : c \in DOMAIN Chains}

\* Types of the files, of the forest and of the builder's threads.
BootstrapTypes ==
    /\ chain \in DOMAIN Chains
    /\ files \in disk
    /\ \A d \in disk : {d.output.kind, d.temporary.kind} \subseteq {"absent", "torn", "hints"}
    /\ gen \in {"idle", "scanning", "encode", "sync", "rename"}
    /\ height \in 0 .. stop_height /\ Len(leaf_counts) = height
    /\ next_chunk \in 0 .. tip_height
    /\ \A p \in DOMAIN nodes : nodes[p] = Unset \/ nodes[p].spent \in BOOLEAN
    /\ \A w \in LeafWorkers :
          /\ leaf[w].pc \in {"acquire", "fill", "headers", "ended", "failed", "panicked"}
          /\ leaf[w].unpublished < PublishNodes
    /\ \A c \in ChaserWorkers : chaser[c].pc \in {"run", "ended", "failed"}
    /\ joined \in 0 .. Cardinality(LeafWorkers)

\* The hints file is never seen in part under its name, whatever a kill, a failed write or a power
\* loss left of it, and it names exactly the unspent leaves of a chain at its stop height, with
\* outputs spent in their own block, unspendable outputs and the outputs shadowed under BIP30 left
\* out (write_hints_file, apply_block).
HintsAreUtxos ==
    \A d \in disk \cup {files} : d.output = Absent \/ d.output \in AllHints

\* The counts of the file are those of the chain that is read.
SameCounts == \A h \in 1 .. hints.stop : hints.counts[h] = Len(LeavesOf[chain][h])

Pending(w) == leaf[w].pc = "fill" /\ MoreLeaves(w)

\* Each position has exactly one writer, as long as the file's counts are those of the chain: a
\* thread never meets a node that is already there, nor one that another thread is about to write
\* (FlatForest::write).
OneWriter ==
    phase = "building" /\ SameCounts =>
        /\ \A w \in LeafWorkers : Pending(w) => Free(BottomPosition(w))
        /\ \A w, v \in LeafWorkers : Pending(w) /\ Pending(v) /\ w # v => BottomPosition(w) # BottomPosition(v)
        /\ \A c \in ChaserWorkers : chaser[c].pc = "run" => Free(ParentPosition(c))
        /\ \A c, d \in ChaserWorkers :
              chaser[c].pc = "run" /\ chaser[d].pc = "run" /\ c # d => ParentPosition(c) # ParentPosition(d)

\* A file that the tool made from the chain that is read is never refused: unless a read or a store
\* fails or a thread panics, nothing aborts the build, no hint names the leaf of a shadowed output,
\* and when all threads have ended the validation finds the forest and the leaf map complete
\* (fill_leaf_range, validate_forest, against write_hints_file).
OwnFileAccepted ==
    phase \in {"building", "joining"} /\ faults = MaxFaults /\ hints = HintsOf(chain, hints.stop) =>
        /\ ~aborted
        /\ phase = "joining" /\ (\A c \in ChaserWorkers : chaser[c].pc # "run") => Complete

\* The i-th leaf of a block: spent unless it is hinted, or shadowed.
ReferenceLeaf(h, i) ==
    LET o == LeavesOf[chain][h][i] IN
    LeafNode(h, o, /\ o \notin bip30_excluded_outpoint(h)
                   /\ \A n \in DOMAIN hints.indices[h] : hints.indices[h][n] # i - 1)

\* The leaves that the file and the chain describe, in chain order.
ReferenceLeaves ==
    LET before == LeavesBefore([h \in 1 .. hints.stop |-> Len(LeavesOf[chain][h])])
        block(p) == CHOOSE h \in 1 .. hints.stop : before[h] < p /\ p <= before[h + 1]
    IN  [p \in 1 .. before[hints.stop + 1] |-> ReferenceLeaf(block(p), p - before[block(p)])]

\* Row and offset to node, over a list of leaves.
ReferenceTree(list) ==
    LET node[at \in (0 .. MaxShift) \X Nat] ==
            IF at[1] = 0 THEN list[at[2] + 1]
            ELSE combine_children(node[<<at[1] - 1, 2 * at[2]>>], node[<<at[1] - 1, 2 * at[2] + 1>>])
    IN  node

\* A build that ends well has read a chain with the counts of the file and has every node of every
\* tree at its position, computed from the leaves in chain order, whatever the order of the threads;
\* wrong counts, a failed or panicked thread never end well (build_with_source, validate_forest).
BuiltForest ==
    phase = "built" =>
        /\ SameCounts
        /\ \A row \in 0 .. forest_rows : \A offset \in 0 .. (leaves \div Pow2[row]) - 1 :
              nodes[start_position_at_row(row, forest_rows) + offset]
                  = ReferenceTree(ReferenceLeaves)[<<row, offset>>]

\* And it indexes exactly the hinted leaves, each at its position, and has the header of every block
\* up to the stop height (fill_leaf_range, HeaderBuildWriter::put_batch).
BuiltIndex ==
    phase = "built" =>
        /\ \A o \in DOMAIN leaf_map : ReferenceLeaves[leaf_map[o] + 1].hash.outpoint = o
        /\ {leaf_map[o] : o \in DOMAIN leaf_map} =
              UNION {{leaf_offset(h) + hints.indices[h][n] : n \in DOMAIN hints.indices[h]} : h \in 1 .. hints.stop}
        /\ headers = [h \in 0 .. hints.stop |-> IF h = 0 THEN "genesis" ELSE block_at_height(h).id]

\* Every build ends: no chaser sleeps forever on a child that a failed or panicked leaf worker
\* never writes, or whose publication it missed (Availability, run_builders).
BuildEnds == phase = "check" ~> phase \in {"built", "failed"}
=============================================================================
