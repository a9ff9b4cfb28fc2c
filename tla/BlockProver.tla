---------------------------- MODULE BlockProver ----------------------------
(***************************************************************************)
(* What the steady-state bridge does with a block (process_block in        *)
(* prover.rs, SteadyStateForest, ForestOverlay and ForestView in           *)
(* parallel_forest.rs), from the forest that the builder left.  The        *)
(* producer finds the position of every output that the block spends, in   *)
(* its cache, in the overlay of blocks that are not yet in the forest, in  *)
(* the leaf map, or by looking for the leaf's hash; it plans the block as  *)
(* a journal entry with the state of every touched node before and after;  *)
(* a worker publishes windows of entries and applies them to the forest.   *)
(*                                                                         *)
(* The order of the worker's stores and the barriers are Persistence's,    *)
(* and the journal is ForestJournal's: here a published entry is durable,  *)
(* and of the forest and the leaf map the pages survive a crash that       *)
(* happen to be on the medium.  The Pollard, a library's, holds the roots  *)
(* of the producer's tip; the positions that it caches are those of        *)
(* leaf_data.                                                              *)
(***************************************************************************)
EXTENDS ParallelBuild

CONSTANTS PublicationBlocks,  \* PUBLICATION_BLOCKS
          LeafCacheBlocks,    \* LEAF_CACHE_BLOCKS
          PageNodes,          \* nodes of a page of the forest file
          MaxChanges,         \* bound: changes of Core's chain in steady state
          MaxCrashes,         \* bound: crashes of the bridge
          MaxDamages          \* bound: leaf map entries lost or wrong

ASSUME ProverAssumption ==
    /\ {PublicationBlocks, LeafCacheBlocks, PageNodes} \subseteq Nat \ {0}
    /\ {MaxChanges, MaxCrashes, MaxDamages} \subseteq Nat

VARIABLES
    tip,               \* height, hash and leaves of the producer
    window,            \* publication_window: entries appended to the journal only
    submitted,         \* entries of the window that the worker has
    worker,            \* what the worker has done with it
    overlay,           \* ForestOverlay: position -> node and height, outpoint -> position and height
    leaf_data,         \* outpoint -> creating block, its height, position
    block_hash_cache,  \* height -> block
    journal,           \* published records
    synced,            \* the forest and the leaf map on the medium
    spare              \* changes, crashes and damages left

producer_vars == <<tip, window, overlay, leaf_data, block_hash_cache>>
worker_vars == <<submitted, worker, journal, headers>>
store_vars == <<nodes, leaf_map, synced>>
steady_vars == <<producer_vars, submitted, worker, journal, synced, spare>>
vars == <<bootstrap_vars, steady_vars>>

\* What the builder and the tool leave behind plays no further part.
finished_vars == <<files, disk, gen, stop_height, force, height, utxos, leaf_counts, budget,
                   hints, layout, next_chunk, aborted, leaf, chaser, joined, faults>>

NoOverlay == [nodes |-> <<>>, positions |-> <<>>]
NoTip == [height |-> 0, block |-> "none", leaves |-> 0]

SteadyInit ==
    /\ tip = NoTip /\ window = <<>> /\ submitted = <<>> /\ worker = "idle"
    /\ overlay = NoOverlay /\ leaf_data = <<>> /\ block_hash_cache = <<>>
    /\ journal = <<>> /\ synced = <<>>
    /\ spare = [changes |-> MaxChanges, crashes |-> MaxCrashes, damages |-> MaxDamages]

Medium == [nodes |-> nodes, leaf_map |-> leaf_map]

\* forest_rows_from_node_count.
rows == CHOOSE r \in 0 .. 63 : forest_capacity(r) = Cardinality(DOMAIN nodes)

---------------------------------------------------------------------------
\* The forest as the producer sees it.

read_with_overlay(p) == IF p \in DOMAIN overlay.nodes THEN overlay.nodes[p].state ELSE nodes[p]

LivePosition(p) == read_with_overlay(p) # Unset /\ ~read_with_overlay(p).spent

\* The entries of an outpoint: of a pending block, else of the leaf map; beyond the leaves is none.
MapPosition(o) ==
    LET found == IF o \in DOMAIN overlay.positions THEN {overlay.positions[o].position}
                 ELSE IF o \in DOMAIN leaf_map THEN {leaf_map[o]} ELSE {}
    IN  found \cap (0 .. tip.leaves - 1)

\* The position whose node has the hash; neighbours of the same block are tried before the scan.
recover_leaf_position_from_block(hash) ==
    {p \in 0 .. tip.leaves - 1 : LivePosition(p) /\ read_with_overlay(p).hash = hash}

\* From the headers of the bridge's own chain.
creating_block_hash(h) == IF h \in DOMAIN block_hash_cache THEN block_hash_cache[h] ELSE headers[h]

\* Core's getblock names the height of every output spent.
PrevoutHeight(o) ==
    CHOOSE h \in 1 .. tip.height :
        /\ o \in ToSet(LeavesOf[chain][h])
        /\ \A g \in h + 1 .. tip.height : o \notin ToSet(LeavesOf[chain][g])

LeafHash(o) ==
    [block |-> IF o \in DOMAIN leaf_data THEN leaf_data[o].block ELSE creating_block_hash(PrevoutHeight(o)),
     outpoint |-> o]

\* Where a spent output is looked up, and what is found there.
Resolve(o) ==
    LET recovered == recover_leaf_position_from_block(LeafHash(o))
        at(kind, positions) == IF positions = {} THEN [kind |-> "error"]
                               ELSE [kind |-> kind, position |-> CHOOSE p \in positions : TRUE]
    IN  IF o \in DOMAIN leaf_data THEN at("found", {leaf_data[o].position})
        ELSE IF MapPosition(o) = {} THEN at("found", recovered)
        ELSE LET p == CHOOSE q \in MapPosition(o) : TRUE IN
             IF ~LivePosition(p) THEN [kind |-> "error"]
             ELSE IF read_with_overlay(p).hash = LeafHash(o) THEN [kind |-> "found", position |-> p]
             ELSE at("mismatch", recovered)

---------------------------------------------------------------------------
\* Planning: staged nodes over pending ones over the forest.

staged_read(staged, p) == IF p \in DOMAIN staged THEN staged[p] ELSE read_with_overlay(p)

Parents(positions) ==
    {parent(p, rows) : p \in {q \in positions : ~is_root_position(q, tip.leaves, rows)}}

\* One row up: the parents of what changed, recomputed from their children.
PlanRow(plan, row) ==
    LET above == Parents(plan.positions)
        child(q) == left_child(q, rows)
    IN  [staged |-> [q \in above |-> combine_children(staged_read(plan.staged, child(q)),
                                                      staged_read(plan.staged, child(q) + 1))]
                    @@ plan.staged,
         positions |-> above]

PlanDeletions(deletions) ==
    LET positions == {deletions[o] : o \in DOMAIN deletions}
        spent == [p \in positions |-> [read_with_overlay(p) EXCEPT !.spent = TRUE]]
    IN  FoldLeft(PlanRow, [staged |-> spent, positions |-> positions], [r \in 1 .. rows |-> r]).staged

\* A new leaf merges with the root of every row that is complete.
PlanAddition(plan, outpoint) ==
    LET first == plan.leaves
        complete == CHOOSE k \in 0 .. rows + 1 :
                       ~HasRoot(first, k) /\ \A r \in 0 .. k - 1 : HasRoot(first, r)
        merge(p, row) ==
            LET left == staged_read(p.staged, root_position(first, row - 1, rows))
                q == parent(p.position, rows)
            IN  [staged |-> q :> combine_children(left, p.staged[p.position]) @@ p.staged, position |-> q]
        node == [hash |-> [block |-> plan.block, outpoint |-> outpoint], spent |-> FALSE]
    IN  [plan EXCEPT !.leaves = first + 1,
                     !.staged = FoldLeft(merge, [staged |-> first :> node @@ plan.staged, position |-> first],
                                         [r \in 1 .. complete |-> r]).staged]

\* The journal entry of a block: every touched node before and after, and the outpoints.
plan_update(block, additions, deletions) ==
    LET plan == FoldLeft(PlanAddition,
                         [staged |-> PlanDeletions(deletions), leaves |-> tip.leaves, block |-> block.id],
                         additions)
    IN  [height |-> tip.height + 1, block |-> block.id, previous |-> tip.block,
         rows |-> rows, leaves |-> plan.leaves, base |-> tip.leaves,
         forest |-> [p \in DOMAIN plan.staged |-> [before |-> read_with_overlay(p), after |-> plan.staged[p]]],
         removed |-> deletions,
         added |-> [o \in ToSet(additions) |->
                       tip.leaves + (CHOOSE i \in DOMAIN additions : additions[i] = o) - 1]]

roots_after(entry) ==
    LET read(p) == IF p \in DOMAIN entry.forest THEN entry.forest[p].after ELSE read_with_overlay(p)
    IN  [row \in {r \in 0 .. rows : HasRoot(entry.leaves, r)} |-> read(root_position(entry.leaves, row, rows))]

---------------------------------------------------------------------------
\* Proof positions: in the forest from which the spent leaves are gone.

\* The way up, with the branchings that are left, bottom first.
proof_position_from_spent(bottom, spent) ==
    LET step(s, row) ==
            IF is_root_position(s.position, tip.leaves, rows) THEN s
            ELSE [position |-> parent(s.position, rows),
                  directions |-> IF spent[Sibling(s.position)] THEN s.directions
                                 ELSE Append(s.directions, s.position % 2)]
        up == FoldLeft(step, [position |-> bottom, directions |-> <<>>], [r \in 1 .. rows |-> r])
        logical == tree_rows(tip.leaves)
        down(p, direction) == left_child(p, logical) + direction
    IN  FoldRight(LAMBDA d, p : down(p, d), up.directions,
                  root_position(tip.leaves, detect_row(up.position, rows), logical))

\* All targets at once; of two siblings that are both above targets neither is read.
translate_proof_positions(targets) ==
    LET row_up(s, row) ==
            LET climbing == {p \in s.frontier : ~is_root_position(p, tip.leaves, rows)}
                twins == {p \in climbing : Sibling(p) \in climbing}
            IN  [frontier |-> {parent(p, rows) : p \in climbing},
                 spent |-> [p \in twins |-> FALSE]
                           @@ [q \in {Sibling(p) : p \in climbing \ twins} |-> read_with_overlay(q).spent]
                           @@ s.spent]
        spent == FoldLeft(row_up, [frontier |-> targets, spent |-> <<>>], [r \in 1 .. rows |-> r]).spent
    IN  [p \in targets |-> proof_position_from_spent(p, spent)]

\* The hash at a canonical position: down from its root, past every node with a spent sibling.
containing_root(position) ==
    LET up(p, row) == IF is_root_position(p, tip.leaves, rows) THEN p ELSE parent(p, rows)
    IN  FoldLeft(up, position, [r \in 1 .. rows |-> r])

\* Mutant: the directions are followed from the bottom.
Turn_reversed(position, depth, level) == (position \div Pow2[level - 1]) % 2

\* The direction of each branching below the root, the highest first.
Turn(position, depth, level) == (position \div Pow2[depth - level]) % 2

compressed_hash(canonical) ==
    LET position == translate_position(canonical, tree_rows(tip.leaves), rows)
        root == containing_root(position)
        depth == detect_row(root, rows) - detect_row(position, rows)
        left(p) == left_child(p, rows)
        \* One row down; a branching uses up one direction.
        descend(s, row) ==
            IF s.done THEN s
            ELSE IF s.level > depth THEN [s EXCEPT !.done = TRUE]
            ELSE LET l == read_with_overlay(left(s.position))
                     r == read_with_overlay(left(s.position) + 1)
                 IN  CASE l.spent /\ ~r.spent  -> [s EXCEPT !.position = left(@) + 1]
                       [] ~l.spent /\ r.spent  -> [s EXCEPT !.position = left(@)]
                       [] ~l.spent /\ ~r.spent -> [s EXCEPT !.position = left(@) + Turn(position, depth, s.level),
                                                            !.level = @ + 1]
                       [] l.spent /\ r.spent   -> [s EXCEPT !.done = TRUE]
        end == FoldLeft(descend, [position |-> root, level |-> 1, done |-> FALSE],
                        [r \in 1 .. detect_row(root, rows) |-> r])
    IN  read_with_overlay(end.position).hash

---------------------------------------------------------------------------
\* The accumulator from its definition: the leaves of a chain in order, with the spent ones
\* marked, and the tree above them.  Stump, a library's, keeps the roots of it.

LeavesAt ==
    [c \in DOMAIN Chains |-> [h \in DOMAIN Chains[c] |->
        LET spent(g, o) == /\ o \notin bip30_excluded_outpoint(g)
                           /\ \E k \in g + 1 .. h : o \in ToSet(Spends(Chains[c][k]))
        IN  FlattenSeq([g \in 1 .. h |-> [i \in DOMAIN LeavesOf[c][g] |->
                [hash |-> [block |-> Chains[c][g].id, outpoint |-> LeavesOf[c][g][i]],
                 spent |-> spent(g, LeavesOf[c][g][i])]]])]]

\* The chain that the producer follows: any that has its tip.
Followed == CHOOSE c \in DOMAIN Chains : tip.height \in DOMAIN Chains[c] /\ Chains[c][tip.height].id = tip.block

AccNode(list, row, offset) ==
    LET node[at \in (0 .. row) \X Nat] ==
            IF at[1] = 0 THEN list[at[2] + 1]
            ELSE combine_children(node[<<at[1] - 1, 2 * at[2]>>], node[<<at[1] - 1, 2 * at[2] + 1>>])
    IN  node[<<row, offset>>]

\* Stump::modify: the roots after the block.
modify(c, h) ==
    LET list == LeavesAt[c][h]
    IN  [row \in {r \in 0 .. rows : HasRoot(Len(list), r)} |-> AccNode(list, row, 2 * (Len(list) \div Pow2[row + 1]))]

---------------------------------------------------------------------------
\* The producer.

Up == phase = "steady"
Active == tip.height <= tip_height /\ block_at_height(tip.height).id = tip.block
NextBlock == block_at_height(tip.height + 1)
Additions == LeavesOf[chain][tip.height + 1]
External == Removed(NextBlock)

HasNext == Up /\ Active /\ tip.height < tip_height
Fits == tip.leaves + Len(Additions) <= Pow2[rows]
Kinds == {Resolve(o).kind : o \in External}

\* SteadyStateForest::open and FlatFileProver::new on what the builder left.
open_built ==
    /\ phase = "built"
    /\ phase' = "steady"
    /\ tip' = [height |-> hints.stop, block |-> headers[hints.stop], leaves |-> leaves]
    /\ block_hash_cache' = hints.stop :> headers[hints.stop]
    /\ synced' = Medium
    /\ leaf' = [w \in LeafWorkers |-> IdleLeaf] /\ chaser' = [c \in ChaserWorkers |-> IdleChaser]
    /\ files' = [output |-> Absent, temporary |-> Absent] /\ disk' = {files'}
    /\ faults' = 0
    /\ UNCHANGED <<chain, gen, stop_height, force, height, utxos, leaf_counts, budget, hints, layout,
                   next_chunk, nodes, leaf_map, headers, aborted, joined,
                   window, submitted, worker, overlay, leaf_data, journal, spare>>

\* Core's chain changes at any time.
change_chain ==
    /\ phase \in {"steady", "stopped", "replaying"} /\ spare.changes > 0
    /\ chain' \in DOMAIN Chains \ {chain}
    /\ spare' = [spare EXCEPT !.changes = @ - 1]
    /\ UNCHANGED <<finished_vars, phase, store_vars, producer_vars, worker_vars>>

Spent == -1

\* ForestOverlay::push.
push(entry) ==
    [nodes |-> [p \in DOMAIN entry.forest |-> [state |-> entry.forest[p].after, height |-> entry.height]]
               @@ overlay.nodes,
     positions |-> [o \in DOMAIN entry.added |-> [position |-> entry.added[o], height |-> entry.height]]
                   @@ [o \in DOMAIN entry.removed |-> [position |-> Spent, height |-> entry.height]]
                   @@ overlay.positions]

\* Mutant: what a block wrote leaves the overlay, even if a later pending block wrote it again.
retire_rewritten(entry, view) ==
    [nodes |-> [p \in DOMAIN view.nodes \ DOMAIN entry.forest |-> view.nodes[p]],
     positions |-> [o \in DOMAIN view.positions \ (DOMAIN entry.removed \cup DOMAIN entry.added) |->
                       view.positions[o]]]

\* ForestOverlay::retire: only what no later pending block wrote again.
retire(entry, view) ==
    [nodes |-> [p \in {q \in DOMAIN view.nodes : q \notin DOMAIN entry.forest
                                                 \/ view.nodes[q].height # entry.height} |-> view.nodes[p]],
     positions |-> [o \in {q \in DOMAIN view.positions : q \notin DOMAIN entry.removed \cup DOMAIN entry.added
                                                         \/ view.positions[q].height # entry.height} |->
                       view.positions[o]]]

\* The proof holds against the roots, and the plan leads to the roots that the library computes.
Verified(entry) ==
    LET targets == translate_proof_positions({entry.removed[o] : o \in DOMAIN entry.removed}) IN
    /\ \A o \in DOMAIN entry.removed : compressed_hash(targets[entry.removed[o]]) = LeafHash(o)
    /\ entry.leaves = Len(LeavesAt[chain][entry.height])
    /\ roots_after(entry) = modify(chain, entry.height)

CachedLeaves(entry) ==
    LET kept == {o \in DOMAIN leaf_data \ DOMAIN entry.removed :
                    leaf_data[o].height > entry.height - LeafCacheBlocks}
    IN  [o \in DOMAIN entry.added |-> [block |-> entry.block, height |-> entry.height, position |-> entry.added[o]]]
        @@ [o \in kept |-> leaf_data[o]]

\* All spent outputs are found, and the window has room.
CanProcess == HasNext /\ Fits /\ Kinds \subseteq {"found"} /\ Len(window) < PublicationBlocks

\* An update that does not verify is an error.
process_block ==
    /\ CanProcess
    /\ LET entry == plan_update(NextBlock, Additions, [o \in External |-> Resolve(o).position]) IN
       IF Verified(entry)
       THEN /\ tip' = [height |-> entry.height, block |-> entry.block, leaves |-> entry.leaves]
            /\ window' = Append(window, entry)
            /\ overlay' = push(entry)
            /\ leaf_data' = CachedLeaves(entry)
            /\ block_hash_cache' = entry.height :> entry.block @@ block_hash_cache
            /\ UNCHANGED phase
       ELSE phase' = "diverged" /\ UNCHANGED producer_vars
    /\ UNCHANGED <<chain, finished_vars, store_vars, worker_vars, spare>>

Drained == submitted = <<>>
Flushed == Drained /\ window = <<>>

\* The heights at which a range of blocks ends.
RangeEnds == {Len(Chains[c]) : c \in DOMAIN Chains}

\* A full window is submitted, and any window before a resize, a repair or at the end of the range.
CanPublish ==
    /\ Up /\ Drained /\ window # <<>>
    /\ \/ Len(window) = PublicationBlocks
       \/ tip.height \in RangeEnds
       \/ HasNext /\ (~Fits \/ "mismatch" \in Kinds)

publish_pending ==
    /\ CanPublish
    /\ submitted' = window /\ window' = <<>>
    /\ UNCHANGED <<chain, finished_vars, phase, store_vars, tip, overlay, leaf_data, block_hash_cache,
                   worker, journal, headers, spare>>

retire_apply ==
    /\ Up /\ worker = "done"
    /\ overlay' = FoldLeft(LAMBDA view, entry : retire(entry, view), overlay, submitted)
    /\ submitted' = <<>> /\ worker' = "idle"
    /\ UNCHANGED <<chain, finished_vars, phase, store_vars, tip, window, leaf_data, block_hash_cache,
                   journal, headers, spare>>

\* ensure_forest_capacity: every node moves to its place in the larger file (ForestResize).
Resized(to_rows) ==
    [p \in 0 .. forest_capacity(to_rows) - 1 |->
        LET row == detect_row(p, to_rows) IN
        IF row <= rows /\ p - start_position_at_row(row, to_rows) < Pow2[rows - row]
        THEN nodes[translate_position(p, to_rows, rows)] ELSE Unset]

CanResize == HasNext /\ ~Fits /\ Flushed

ensure_forest_capacity ==
    /\ CanResize
    /\ nodes' = Resized(tree_rows(tip.leaves + Len(Additions)))
    /\ synced' = [Medium EXCEPT !.nodes = nodes']
    /\ UNCHANGED <<chain, finished_vars, phase, leaf_map, producer_vars, worker_vars, spare>>

\* The error that ends the process; what was published stays, the rest is lost.
end_process ==
    /\ phase' = "stopped"
    /\ tip' = NoTip /\ window' = <<>> /\ submitted' = <<>> /\ worker' = "idle"
    /\ overlay' = NoOverlay /\ leaf_data' = <<>> /\ block_hash_cache' = <<>>

CanRepair == HasNext /\ Fits /\ "mismatch" \in Kinds /\ Flushed

\* Mutant: the process ends before the entry is stored.
repair_leaf_position_unsaved ==
    /\ CanRepair
    /\ end_process
    /\ UNCHANGED <<chain, finished_vars, store_vars, journal, headers, spare>>

\* An entry of the leaf map names another unspent leaf: it is replaced, and the block retried.
repair_leaf_position ==
    /\ CanRepair
    /\ \E o \in External :
          /\ Resolve(o).kind = "mismatch"
          /\ leaf_map' = [leaf_map EXCEPT ![o] = Resolve(o).position]
    /\ synced' = [Medium EXCEPT !.leaf_map = leaf_map']
    /\ end_process
    /\ UNCHANGED <<chain, finished_vars, nodes, journal, headers, spare>>

\* A spent output is not found, or its entry names a spent leaf.
resolve_error ==
    /\ HasNext /\ Fits /\ "error" \in Kinds
    /\ end_process
    /\ UNCHANGED <<chain, finished_vars, store_vars, journal, headers, spare>>

---------------------------------------------------------------------------
\* The worker.

\* ForestJournal::publish.
publish_window ==
    /\ Up /\ worker = "idle" /\ submitted # <<>>
    /\ journal' = journal \o [i \in DOMAIN submitted |-> [entry |-> submitted[i], status |-> "forward"]]
    /\ worker' = "published"
    /\ UNCHANGED <<chain, finished_vars, phase, store_vars, producer_vars, submitted, headers, spare>>

\* Each touched node once, the last block wins.
merged_forest_writes(entries) ==
    FoldLeft(LAMBDA merged, e : [p \in DOMAIN e.forest |-> e.forest[p].after] @@ merged, <<>>, entries)

\* Both sides are deleted before the insertions.
apply_leaf_map_delta(map, removed, inserted) ==
    inserted @@ [o \in DOMAIN map \ DOMAIN removed |-> map[o]]

apply_forward_batch ==
    /\ Up /\ worker = "published"
    /\ nodes' = LET merged == merged_forest_writes(submitted) IN
                [p \in DOMAIN nodes |-> IF p \in DOMAIN merged THEN merged[p] ELSE nodes[p]]
    /\ leaf_map' = FoldLeft(LAMBDA map, e : apply_leaf_map_delta(map, e.removed, e.added), leaf_map, submitted)
    /\ worker' = "applied"
    /\ UNCHANGED <<chain, finished_vars, phase, synced, producer_vars, submitted, journal, headers, spare>>

\* The syncs and the other stores.
finish_window ==
    /\ Up /\ worker = "applied"
    /\ synced' = Medium
    /\ headers' = [h \in {submitted[i].height : i \in DOMAIN submitted} |->
                      submitted[CHOOSE i \in DOMAIN submitted : submitted[i].height = h].block] @@ headers
    /\ worker' = "done"
    /\ UNCHANGED <<chain, finished_vars, phase, nodes, leaf_map, producer_vars, submitted,
                   journal, spare>>

---------------------------------------------------------------------------
\* Reorganizations.

Forward == {i \in DOMAIN journal : journal[i].status = "forward"}
latest_forward == CHOOSE i \in Forward : \A j \in Forward : j <= i

\* The tip that the durable forest is at.
DurableTip ==
    IF Forward # {}
    THEN LET e == journal[latest_forward].entry IN [height |-> e.height, block |-> e.block, leaves |-> e.leaves]
    ELSE [height |-> hints.stop, block |-> headers[hints.stop], leaves |-> leaves]

Restart(t) ==
    /\ tip' = t /\ overlay' = NoOverlay /\ leaf_data' = <<>>
    /\ block_hash_cache' = [h \in {k \in DOMAIN block_hash_cache : k <= t.height} |-> block_hash_cache[h]]

CanDiscard == Up /\ ~Active /\ Drained /\ window # <<>>
CanRollBack == Up /\ ~Active /\ Flushed /\ Forward # {}

\* reconcile_chain: pending blocks that nobody published are forgotten all at once.
discard_unpublished ==
    /\ CanDiscard
    /\ window' = <<>>
    /\ Restart(DurableTip)
    /\ UNCHANGED <<chain, finished_vars, phase, store_vars, worker_vars, spare>>

\* Positions of an older layout are translated.
journal_position(entry, p) == translate_position(p, entry.rows, rows)
Placed(entry) == [q \in {journal_position(entry, p) : p \in DOMAIN entry.forest} |->
                     entry.forest[CHOOSE p \in DOMAIN entry.forest : journal_position(entry, p) = q]]

\* Mutant: the outpoints that the block had spent are not put back.
apply_backward_unspent(store, entry) ==
    LET placed == Placed(entry) IN
    [nodes |-> [p \in DOMAIN store.nodes |-> IF p \in DOMAIN placed THEN placed[p].before ELSE store.nodes[p]],
     leaf_map |-> apply_leaf_map_delta(store.leaf_map, entry.added, <<>>)]

apply_backward(store, entry) ==
    LET placed == Placed(entry) IN
    [nodes |-> [p \in DOMAIN store.nodes |-> IF p \in DOMAIN placed THEN placed[p].before ELSE store.nodes[p]],
     leaf_map |-> apply_leaf_map_delta(store.leaf_map, entry.added, entry.removed)]

apply_forward(store, entry) ==
    LET placed == Placed(entry) IN
    [nodes |-> [p \in DOMAIN store.nodes |-> IF p \in DOMAIN placed THEN placed[p].after ELSE store.nodes[p]],
     leaf_map |-> apply_leaf_map_delta(store.leaf_map, entry.removed, entry.added)]

\* The durable tip is undone; the forest is on the medium before the next one.
rollback ==
    /\ CanRollBack
    /\ LET e == journal[latest_forward].entry
           undone == apply_backward(Medium, e)
       IN  /\ journal' = [journal EXCEPT ![latest_forward].status = "rolled_back"]
           /\ nodes' = undone.nodes /\ leaf_map' = undone.leaf_map /\ synced' = undone
           /\ headers' = [h \in DOMAIN headers \ {e.height} |-> headers[h]]
           /\ Restart([height |-> e.height - 1, block |-> e.previous, leaves |-> e.base])
    /\ UNCHANGED <<chain, finished_vars, phase, window, submitted, worker, spare>>

\* The reorganization goes below what the journal retains.
reorg_too_deep ==
    /\ Up /\ ~Active /\ Flushed /\ Forward = {}
    /\ end_process
    /\ UNCHANGED <<chain, finished_vars, store_vars, journal, headers, spare>>

---------------------------------------------------------------------------
\* Crashes and recovery.

\* Of the pages that were not synced, any may be on the medium; of the leaf map, a log, the old
\* or the new state of every block's delta.
Survivors(new) ==
    LET pages == {p \div PageNodes : p \in {q \in DOMAIN new.nodes : new.nodes[q] # synced.nodes[q]}}
        mixed(kept, map) ==
            [nodes |-> [p \in DOMAIN new.nodes |-> IF p \div PageNodes \in kept THEN new.nodes[p] ELSE synced.nodes[p]],
             leaf_map |-> map]
    IN  {mixed(kept, map) : kept \in SUBSET pages, map \in {new.leaf_map, synced.leaf_map}}

crash ==
    /\ phase \in {"steady", "replaying"} /\ spare.crashes > 0
    /\ spare' = [spare EXCEPT !.crashes = @ - 1]
    /\ \E left \in Survivors(Medium) :
          nodes' = left.nodes /\ leaf_map' = left.leaf_map /\ synced' = left
    /\ end_process
    /\ UNCHANGED <<chain, finished_vars, journal, headers>>

\* An entry of the leaf map is lost, or is off by one: another leaf's position, or none's.
damage ==
    /\ phase = "stopped" /\ spare.damages > 0
    /\ spare' = [spare EXCEPT !.damages = @ - 1]
    /\ \E o \in DOMAIN leaf_map :
          \/ leaf_map' = [q \in DOMAIN leaf_map \ {o} |-> leaf_map[q]]
          \/ leaf_map' = [leaf_map EXCEPT ![o] = @ + 1]
          \/ leaf_map[o] > 0 /\ leaf_map' = [leaf_map EXCEPT ![o] = @ - 1]
    /\ synced' = [synced EXCEPT !.leaf_map = leaf_map']
    /\ UNCHANGED <<chain, finished_vars, phase, nodes, producer_vars, worker_vars>>

\* replay_journal: every retained record backward, the newest first.
replay_backward ==
    /\ phase = "stopped"
    /\ phase' = "replaying"
    /\ LET undone == FoldRight(LAMBDA r, store : apply_backward(store, r.entry), journal, Medium) IN
       nodes' = undone.nodes /\ leaf_map' = undone.leaf_map
    /\ UNCHANGED <<chain, finished_vars, synced, producer_vars, worker_vars, spare>>

\* Then the forward ones again, and the producer starts at the last of them.
replay_forward ==
    /\ phase = "replaying"
    /\ phase' = "steady"
    /\ LET done == FoldLeft(LAMBDA store, r : IF r.status = "forward" THEN apply_forward(store, r.entry) ELSE store,
                            Medium, journal)
       IN  nodes' = done.nodes /\ leaf_map' = done.leaf_map /\ synced' = done
    /\ headers' = [h \in {journal[i].entry.height : i \in Forward} |->
                      journal[CHOOSE i \in Forward : journal[i].entry.height = h].entry.block] @@ headers
    /\ tip' = DurableTip
    /\ block_hash_cache' = DurableTip.height :> DurableTip.block
    /\ UNCHANGED <<chain, finished_vars, window, submitted, worker, overlay, leaf_data, journal, spare>>

ProducerStep ==
    \/ process_block \/ publish_pending \/ retire_apply \/ ensure_forest_capacity
    \/ repair_leaf_position \/ discard_unpublished \/ rollback
WorkerStep == publish_window \/ apply_forward_batch \/ finish_window
Recovery == replay_backward \/ replay_forward

SteadyNext ==
    \/ open_built \/ ProducerStep \/ WorkerStep \/ Recovery \/ resolve_error \/ reorg_too_deep
    \/ change_chain \/ crash \/ damage

Init == BootstrapInit /\ SteadyInit

Next ==
    \/ BootstrapNext /\ UNCHANGED steady_vars
    \/ SteadyNext

Spec == Init /\ [][Next]_vars

\* When the three threads can take a step: WF of their steps, with ENABLED written out.
ProducerReady ==
    \/ Up /\ worker = "done"
    \/ CanProcess \/ CanPublish \/ CanResize \/ CanRepair \/ CanDiscard \/ CanRollBack
WorkerReady == Up /\ submitted # <<>> /\ worker # "done"
RecoveryReady == phase \in {"stopped", "replaying"}

\* Every thread is scheduled and the bridge is started again after an error.
FairSpec ==
    /\ Spec /\ BootstrapFairness
    /\ WF_vars(open_built)
    /\ ([]<>~ProducerReady) \/ ([]<><<ProducerStep>>_vars)
    /\ ([]<>~WorkerReady) \/ ([]<><<WorkerStep>>_vars)
    /\ ([]<>~RecoveryReady) \/ ([]<><<Recovery>>_vars)

---------------------------------------------------------------------------
(* Properties *)

\* Types of the bootstrap's and of the bridge's state.
TypeOK ==
    /\ BootstrapTypes
    /\ phase \in {"idle", "check", "building", "joining", "built", "failed",
                  "steady", "stopped", "replaying", "diverged"}
    /\ worker \in {"idle", "published", "applied", "done"}
    /\ Len(window) <= PublicationBlocks /\ Len(submitted) <= PublicationBlocks
    /\ worker # "idle" => submitted # <<>>
    /\ \A i \in DOMAIN journal : journal[i].status \in {"forward", "rolled_back"}
    /\ {spare.changes, spare.crashes, spare.damages} \subseteq Nat

Reference == LeavesAt[Followed][tip.height]

\* Through every block, window, resize, roll back, crash and replay, the forest under the overlay
\* has at every position the node that building the whole forest again for the producer's tip
\* would put there; so no plan ever differs from the accumulator's update (plan_update,
\* ForestOverlay, apply_forward_batch, apply_backward, replay_journal).
ViewIsReference ==
    /\ phase # "diverged"
    /\ Up => /\ tip.leaves = Len(Reference)
             /\ \A row \in 0 .. rows : \A offset \in 0 .. (tip.leaves \div Pow2[row]) - 1 :
                   read_with_overlay(start_position_at_row(row, rows) + offset) = AccNode(Reference, row, offset)

\* The unspent leaves that have an entry.
Unspent ==
    {i \in DOMAIN Reference :
        /\ ~Reference[i].spent
        /\ \A h \in DOMAIN Bip30 :
              <<Chains[Followed][h].id, Bip30[h]>> # <<Reference[i].hash.block, Reference[i].hash.outpoint>>}

\* The cache, which is believed without looking at the leaf, and the overlay never have a stale
\* position or an outpoint that is spent, and without damage the leaf map completes them
\* (leaf_data, ForestOverlay::positions, apply_leaf_map_delta).
PositionsAreCurrent ==
    Up => /\ \A i \in Unspent :
                LET o == Reference[i].hash.outpoint IN
                /\ o \in DOMAIN leaf_data => /\ leaf_data[o].position = i - 1
                                             /\ leaf_data[o].block = Reference[i].hash.block
                /\ o \in DOMAIN overlay.positions => overlay.positions[o].position = i - 1
                /\ spare.damages = MaxDamages => MapPosition(o) = {i - 1}
          /\ \A o \in DOMAIN leaf_data : \E i \in Unspent : Reference[i].hash.outpoint = o

\* Whatever leaves a block spends, the canonical positions that the batch translation gives are
\* the ones at which the descent past spent subtrees finds their hashes again
\* (translate_proof_positions, compressed_hash).
ProofsReachLeaves ==
    Up => \A i, j \in {k \in DOMAIN Reference : ~Reference[k].spent} :
             i <= j => LET targets == translate_proof_positions({i - 1, j - 1}) IN
             /\ compressed_hash(targets[i - 1]) = Reference[i].hash
             /\ i # j => targets[i - 1] # targets[j - 1]

AtTip == Up /\ Active /\ tip.height = tip_height /\ Flushed

\* A reorganization below the bootstrap, or an entry damaged into the position of a spent leaf:
\* the bridge stops at the same block every time.
Unrepairable ==
    /\ phase \in {"steady", "stopped", "replaying"}
    /\ \/ hints.stop > tip_height \/ block_at_height(hints.stop).id # headers[hints.stop]
       \/ HasNext /\ "error" \in Kinds

\* The bridge comes to Core's tip with everything durable, through crashes, reorganizations and
\* repairs of the leaf map: a repaired entry is not undone by the replay of the next start.
ProverCatchesUp == Up ~> AtTip \/ Unrepairable
=============================================================================
