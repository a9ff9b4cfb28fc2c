---------------------------- MODULE Persistence ----------------------------
(***************************************************************************)
(* The steady state of the bridge (prover.rs): a producer thread that      *)
(* follows Bitcoin Core and proves one block after another, a persistence  *)
(* worker that turns windows of proved blocks into durable state in five   *)
(* stores (journal, proof file, headers, proof index, forest), and the     *)
(* recovery that makes the stores agree again after the process stopped at *)
(* any of their steps.                                                     *)
(*                                                                         *)
(* A block stands for its hash, header, proof and journal entry.  The      *)
(* journal is the log that PublishedLog specifies and ForestJournal        *)
(* implements: publication is one step.  Root is the block at the          *)
(* bootstrap height, below which there are neither proofs nor records.     *)
(***************************************************************************)
EXTENDS Naturals, Sequences, FiniteSets

CONSTANTS Blocks, Root, Parent,  \* the block tree that Core may ever show
          NoBlock,
          PublicationBlocks,     \* PUBLICATION_BLOCKS: blocks of a full window
          Keep,                  \* forward records that pruning keeps (144)
          MaxReorgs,             \* bound: changes of Core's tip
          MaxStops,              \* bound: crashes, failures and shutdowns
          MaxDisturbances,       \* bound: both and losses together
          MaxLosses,             \* bound: stored proofs or entries lost or corrupted
          PeerRequests           \* bound: requests of peers for headers to be stored or for proofs

ASSUME TreeAssumption ==
    /\ Root \in Blocks /\ NoBlock \notin Blocks
    /\ Parent \in [Blocks \ {Root} -> Blocks]
\* Every block descends from the root.
ASSUME DescentAssumption ==
    \A S \in SUBSET Blocks :
        /\ Root \in S
        /\ \A b \in Blocks \ {Root} : Parent[b] \in S => b \in S
        => S = Blocks
ASSUME SizeAssumption ==
    /\ PublicationBlocks \in Nat \ {0} /\ Keep \in Nat \ {0}
    /\ MaxReorgs \in Nat /\ MaxStops \in Nat /\ MaxDisturbances \in Nat
    /\ MaxLosses \in Nat /\ PeerRequests \in Nat

MaxPending == 2 * PublicationBlocks

VARIABLES
    active,                  \* the tip of Core's active chain
    log, floor, tail,        \* journal: published records, first retained one, unpublished tail
    forest_tip, touched,     \* forest and leaf map: last block applied; blocks whose
                             \* writes may be on the medium in part
    headers, headers_disk,   \* HeaderIndex: cached and on the medium
    proofs, proofs_synced,   \* ProofFile: proofs in file order, and how many are synced
    index, index_disk,       \* BlocksIndex: block -> place in the proof file, 0 if none
    committed,               \* BlocksIndex height
    clean, needs_replay,     \* clean-shutdown file; what open made of it
    pc, after,               \* step of the producer (or of recovery); what follows the call
    tip, goal,               \* FlatFileProver.tip_hash; end of the range being proved
    window, pending, submitted,
    shutdown,                \* shutdown_flag
    command, wpc,            \* the channel to the worker, and the step of its command
    dtip,                    \* PersistenceState.tip_hash
    indexes,                 \* proof places not yet in the index
    completed, reply,        \* completion of a window (its size), reply of a barrier
    fault,                   \* an internal check that failed
    peer,                    \* a header that a P2P thread has fetched and not stored yet
    asked,                   \* a proof request that has read its entry and not the file yet
    heights_open,            \* the header index has its hash database
    reorgs, stops, losses, requests  \* counts for the bounds

core_vars == <<active, reorgs, losses>>
journal_vars == <<log, floor, tail>>
forest_vars == <<forest_tip, touched>>
header_vars == <<headers, headers_disk>>
proof_vars == <<proofs, proofs_synced>>
index_vars == <<index, index_disk>>
clean_vars == <<clean, needs_replay>>
producer_vars == <<pc, after, tip, goal, window, pending, submitted>>
worker_vars == <<command, wpc, dtip, indexes, completed, reply>>
store_vars == <<journal_vars, forest_vars, header_vars, proof_vars, index_vars, committed>>
service_vars == <<peer, asked, heights_open>>
env_vars == <<core_vars, shutdown, service_vars, stops, requests>>
vars == <<core_vars, store_vars, clean_vars, producer_vars, worker_vars, fault,
          shutdown, service_vars, stops, requests>>

Undisturbed == reorgs + stops + losses < MaxDisturbances
MayStop == stops < MaxStops /\ Undisturbed

-----------------------------------------------------------------------------
(* Chains *)

Height[b \in Blocks] == IF b = Root THEN 0 ELSE Height[Parent[b]] + 1
Branch[b \in Blocks] == IF b = Root THEN {Root} ELSE Branch[Parent[b]] \cup {b}

Heights == {Height[b] : b \in Blocks \ {Root}}

\* Blockchain::get_block_hash, answered by Core for its active chain.
get_block_hash(h) == CHOOSE b \in Branch[active] : Height[b] = h

SetOf(s) == {s[i] : i \in 1 .. Len(s)}

-----------------------------------------------------------------------------
(* The journal as the prover uses it *)

Forward == "forward"
RolledBack == "rolled_back"

ForwardRecord(b) == [block |-> b, status |-> Forward]

Retained == floor .. Len(log)
RetainedBlocks == {log[i].block : i \in Retained}
ForwardRecords == {i \in Retained : log[i].status = Forward}
ForwardBlocks == {log[i].block : i \in ForwardRecords}

latest_forward == CHOOSE i \in ForwardRecords : \A j \in ForwardRecords : j <= i

\* The state before the first retained record.
Base == Parent[log[floor].block]

\* The tip that recovery takes from the journal.
JournalTip ==
    IF ForwardRecords # {} THEN log[latest_forward].block
    ELSE IF Retained # {} THEN Base
    ELSE get_block_hash(committed)

\* The proof of b can be read through the entry n of the index.
Readable(n, b) == n \in 1 .. Len(proofs) /\ proofs[n] = b

-----------------------------------------------------------------------------
NoCommand == [kind |-> "none", blocks |-> << >>]
Garbage == NoBlock
NoIndexes == [b \in Blocks |-> 0]
NoRequest == [block |-> NoBlock, place |-> 0]

Init ==
    /\ active \in Blocks
    /\ log = << >> /\ floor = 1 /\ tail = << >>
    /\ forest_tip = Root /\ touched = {}
    /\ headers = [h \in Heights |-> NoBlock] /\ headers_disk = headers
    /\ proofs = << >> /\ proofs_synced = 0
    /\ index = NoIndexes /\ index_disk = NoIndexes
    /\ committed = 0
    /\ clean = FALSE /\ needs_replay = TRUE
    /\ pc = "down" /\ after = "range"
    /\ tip = Root /\ goal = 0
    /\ window = << >> /\ pending = << >> /\ submitted = 0
    /\ shutdown = FALSE
    /\ command = NoCommand /\ wpc = "idle" /\ dtip = Root /\ indexes = NoIndexes
    /\ completed = 0 /\ reply = FALSE
    /\ fault = "none"
    /\ peer = NoBlock /\ asked = NoRequest /\ heights_open = TRUE
    /\ reorgs = 0 /\ stops = 0 /\ losses = 0 /\ requests = 0

\* The process ends: both threads and their channels are gone.
process_ends ==
    /\ pc' = "down" /\ after' = "range"
    /\ tip' = Root /\ goal' = 0
    /\ window' = << >> /\ pending' = << >> /\ submitted' = 0
    /\ shutdown' = FALSE
    /\ command' = NoCommand /\ wpc' = "idle" /\ dtip' = Root /\ indexes' = NoIndexes
    /\ completed' = 0 /\ reply' = FALSE
    /\ needs_replay' = TRUE
    /\ peer' = NoBlock /\ asked' = NoRequest /\ heights_open' = TRUE

\* anyhow::bail! on an internal check.
bail(why) == fault' = why

-----------------------------------------------------------------------------
(* The producer: FlatFileProver *)

WorkerAlive == wpc # "failed"

\* Mutant: one block too many leaves the overlay.
retired_pending_early ==
    IF completed = 0 THEN pending ELSE SubSeq(pending, completed + 2, Len(pending))

\* retire_apply, on the completion that is waiting, if any.
retired_pending == SubSeq(pending, completed + 1, Len(pending))

retire_apply ==
    /\ pending' = retired_pending
    /\ submitted' = submitted - completed
    /\ completed' = 0

keep_up ==
    /\ pc = "idle"
    /\ IF shutdown THEN pc' = "publish" /\ after' = "shutdown"
                   ELSE pc' = "reconcile" /\ after' = "range"
    /\ UNCHANGED <<store_vars, clean_vars, tip, goal, window, pending, submitted,
                   worker_vars, fault, env_vars>>

\* reconcile_chain: is our tip still on Core's active chain?
reconcile_chain ==
    /\ pc = "reconcile"
    /\ WorkerAlive
    /\ retire_apply
    /\ pc' = IF tip \notin Branch[active] THEN "reconcile_drain"
             ELSE IF after = "bail" THEN "exiting" ELSE "range"
    /\ UNCHANGED <<store_vars, clean_vars, after, tip, goal, window, command, wpc, dtip,
                   indexes, reply, fault, env_vars>>

\* A failed lookup of our own height counts as "not active".
lookup_error ==
    /\ MayStop
    /\ stops' = stops + 1
    /\ pc = "reconcile"
    /\ WorkerAlive
    /\ retire_apply
    /\ pc' = "reconcile_drain"
    /\ UNCHANGED <<store_vars, clean_vars, after, tip, goal, window, command, wpc, dtip,
                   indexes, reply, fault, core_vars, shutdown, service_vars, requests>>

\* wait_for_apply inside drain_pending_apply.
wait_for_apply ==
    /\ pc \in {"reconcile_drain", "publish", "drain"}
    /\ WorkerAlive
    /\ completed # 0
    /\ retire_apply
    /\ UNCHANGED <<store_vars, clean_vars, pc, after, tip, goal, window, command, wpc, dtip,
                   indexes, reply, fault, env_vars>>

send(kind, blocks) == command' = [kind |-> kind, blocks |-> blocks]

\* With nothing submitted, the unpublished tail goes first, then one published
\* block at a time.
reconcile_barrier ==
    /\ pc = "reconcile_drain"
    /\ WorkerAlive
    /\ submitted = 0
    /\ IF window # << >> THEN send("discard", << >>) ELSE send("rollback", <<tip>>)
    /\ pc' = "reconciling"
    /\ UNCHANGED <<store_vars, clean_vars, after, tip, goal, window, pending, submitted, wpc,
                   dtip, indexes, completed, reply, fault, env_vars>>

\* Mutant: the producer stays where it was.
RestoredTip_stale == tip

\* DurableTip.hash of the barrier's reply.
RestoredTip == dtip

\* The producer restarts from the worker's tip.
reconciled ==
    /\ pc = "reconciling"
    /\ reply
    /\ window' = << >> /\ pending' = << >>
    /\ tip' = RestoredTip
    /\ pc' = "reconcile"
    /\ reply' = FALSE
    /\ UNCHANGED <<store_vars, clean_vars, after, goal, submitted, command, wpc, dtip,
                   indexes, completed, fault, env_vars>>

\* sync_to_tip: the range is fixed by a second look at Core.
sync_to_tip ==
    /\ pc = "range"
    /\ goal' = Height[active]
    /\ pc' = IF Height[tip] + 1 > goal' THEN "idle" ELSE "reserve"
    /\ UNCHANGED <<store_vars, clean_vars, after, tip, window, pending, submitted,
                   worker_vars, fault, env_vars>>

\* The loop head of prove_range_inner and reserve_persistence.  The wait for
\* room has no step: a producer that ever needed it would be stuck here.
reserve_persistence ==
    /\ pc = "reserve"
    /\ WorkerAlive \/ Height[tip] >= goal
    /\ IF Height[tip] >= goal
       THEN /\ pc' = "publish" /\ after' = "sync"
            /\ UNCHANGED <<pending, submitted, completed>>
       ELSE /\ retire_apply
            /\ Len(retired_pending) < MaxPending
            /\ pc' = "fetch"
            /\ UNCHANGED after
    /\ UNCHANGED <<store_vars, clean_vars, tip, goal, window, command, wpc, dtip, indexes,
                   reply, fault, env_vars>>

\* shutdown_flag between two blocks: the rest of the range is skipped.
stop_range ==
    /\ pc = "fetch"
    /\ shutdown
    /\ pc' = "publish" /\ after' = "sync"
    /\ UNCHANGED <<store_vars, clean_vars, tip, goal, window, pending, submitted,
                   worker_vars, fault, env_vars>>

\* The block at the next height does not extend our tip, or there is none.
reorg_in_range ==
    LET h == Height[tip] + 1 IN
    /\ pc = "fetch"
    /\ ~shutdown
    /\ \/ h > Height[active] /\ pc' = "exiting" /\ UNCHANGED after
       \/ /\ h <= Height[active]
          /\ Parent[get_block_hash(h)] # tip
          /\ pc' = "reconcile" /\ after' = "bail"
    /\ UNCHANGED <<store_vars, clean_vars, tip, goal, window, pending, submitted,
                   worker_vars, fault, env_vars>>

\* process_block, append_block and the bookkeeping after them.
prove_block ==
    LET h == Height[tip] + 1
        b == get_block_hash(h)
    IN
    /\ pc = "fetch"
    /\ ~shutdown
    /\ h <= Height[active]
    /\ Parent[b] = tip
    /\ tail' = Append(tail, b)
    /\ window' = Append(window, b)
    /\ pending' = Append(pending, b)
    /\ tip' = b
    /\ IF Len(window') = PublicationBlocks THEN pc' = "publish" /\ after' = "range"
                                           ELSE pc' = "reserve" /\ UNCHANGED after
    /\ UNCHANGED <<log, floor, forest_vars, header_vars, proof_vars, index_vars, committed,
                   clean_vars, goal, submitted, worker_vars, fault, env_vars>>

\* Mutant: the next window does not wait for the one before it.
Drained_always == TRUE

\* drain_pending_apply has nothing left to wait for.
Drained == submitted = 0

\* publish_pending: at most one window is submitted at a time.
publish_pending ==
    /\ pc = "publish"
    /\ IF window = << >>
       THEN UNCHANGED <<window, submitted, command>>
       ELSE /\ WorkerAlive
            /\ Drained
            /\ send("publish", window)
            /\ submitted' = Len(window)
            /\ window' = << >>
    /\ pc' = IF after = "range" THEN "reserve" ELSE "drain"
    /\ UNCHANGED <<store_vars, clean_vars, after, tip, goal, pending, wpc, dtip, indexes,
                   completed, reply, fault, env_vars>>

\* sync and sync_for_shutdown.
sync ==
    /\ pc = "drain"
    /\ WorkerAlive
    /\ submitted = 0
    /\ send(after, << >>)
    /\ pc' = "syncing"
    /\ UNCHANGED <<store_vars, clean_vars, after, tip, goal, window, pending, submitted, wpc,
                   dtip, indexes, completed, reply, fault, env_vars>>

verify_durable_tip ==
    /\ pc = "syncing"
    /\ reply
    /\ IF dtip = tip /\ forest_tip = tip THEN UNCHANGED fault ELSE bail("diverged")
    /\ reply' = FALSE
    /\ pc' = IF after = "shutdown" THEN "exiting" ELSE "idle"
    /\ UNCHANGED <<store_vars, clean_vars, after, tip, goal, window, pending, submitted,
                   command, wpc, dtip, indexes, completed, env_vars>>

\* A failed worker is noticed at every call that touches it.
worker_failed ==
    /\ wpc = "failed"
    /\ \/ pc \in {"reconcile", "reconcile_drain", "reconciling", "drain", "syncing"}
       \/ pc = "reserve" /\ Height[tip] < goal
       \/ pc = "publish" /\ window # << >>
    /\ pc' = "exiting"
    /\ UNCHANGED <<store_vars, clean_vars, after, tip, goal, window, pending, submitted,
                   worker_vars, fault, env_vars>>

\* Core does not answer.
rpc_error ==
    /\ MayStop
    /\ pc \in {"reconcile", "range", "fetch"}
    /\ stops' = stops + 1
    /\ pc' = "exiting"
    /\ UNCHANGED <<store_vars, clean_vars, after, tip, goal, window, pending, submitted,
                   worker_vars, fault, core_vars, shutdown, service_vars, requests>>

\* Dropping the prover closes the channel and joins the worker, which first
\* finishes the command it has.
exit ==
    /\ pc = "exiting"
    /\ wpc \in {"idle", "failed"}
    /\ command = NoCommand \/ wpc = "failed"
    /\ process_ends
    /\ UNCHANGED <<store_vars, clean, fault, core_vars, stops, requests>>

-----------------------------------------------------------------------------
(* The worker: PersistenceState::persist *)

Running(kind, step) == command.kind = kind /\ wpc = step

\* Everything but the stores stays as it is in a worker step.
worker_step(next) ==
    /\ wpc' = next
    /\ UNCHANGED <<clean_vars, producer_vars, env_vars>>

\* The window must extend the durable tip block by block.
persist ==
    /\ Running("publish", "idle")
    /\ LET blocks == <<dtip>> \o command.blocks IN
       IF \A i \in 1 .. Len(blocks) - 1 : Parent[blocks[i + 1]] = blocks[i]
       THEN UNCHANGED fault ELSE bail("window")
    /\ worker_step("publish")
    /\ UNCHANGED <<store_vars, command, dtip, indexes, completed, reply>>

\* JournalPublisher::publish of the captured boundary: that many records of
\* the tail, whatever was appended since.
publish ==
    LET n == Len(command.blocks) IN
    /\ Running("publish", "publish")
    /\ log' = log \o [i \in 1 .. n |-> ForwardRecord(tail[i])]
    /\ tail' = SubSeq(tail, n + 1, Len(tail))
    /\ worker_step("append")
    /\ UNCHANGED <<floor, forest_vars, header_vars, proof_vars, index_vars, committed, fault,
                   command, dtip, indexes, completed, reply>>

\* Appends the proofs of the blocks and remembers their places.
append_proofs(blocks) ==
    /\ proofs' = proofs \o blocks
    /\ indexes' = [b \in Blocks |->
                     IF \E i \in 1 .. Len(blocks) : blocks[i] = b
                     THEN Len(proofs) + (CHOOSE i \in 1 .. Len(blocks) : blocks[i] = b)
                     ELSE 0]

append ==
    /\ Running("publish", "append")
    /\ append_proofs(command.blocks)
    /\ worker_step("proof_sync")
    /\ UNCHANGED <<journal_vars, forest_vars, header_vars, proofs_synced, index_vars, committed,
                   fault, command, dtip, completed, reply>>

proof_sync ==
    /\ Running("publish", "proof_sync")
    /\ proofs_synced' = Len(proofs)
    /\ worker_step("put_headers")
    /\ UNCHANGED <<journal_vars, forest_vars, header_vars, proofs, index_vars, committed, fault,
                   command, dtip, indexes, completed, reply>>

\* HeaderIndex::put for every block of a set, one per height.
put_headers(blocks) ==
    headers' = [h \in Heights |-> IF \E b \in blocks : Height[b] = h
                                  THEN CHOOSE b \in blocks : Height[b] = h
                                  ELSE headers[h]]

put ==
    /\ Running("publish", "put_headers") /\ heights_open
    /\ put_headers(SetOf(command.blocks))
    /\ worker_step("header_sync")
    /\ UNCHANGED <<journal_vars, forest_vars, headers_disk, proof_vars, index_vars, committed,
                   fault, command, dtip, indexes, completed, reply>>

\* What the medium holds after HeaderIndex::sync.
SyncedHeaders == headers

header_sync ==
    /\ Running("publish", "header_sync") /\ heights_open
    /\ headers_disk' = SyncedHeaders
    /\ worker_step("append_batch")
    /\ UNCHANGED <<journal_vars, forest_vars, headers, proof_vars, index_vars, committed, fault,
                   command, dtip, indexes, completed, reply>>

\* BlocksIndex::append_batch: sets, then one flush.
append_batch ==
    index' = [b \in Blocks |-> IF indexes[b] # 0 THEN indexes[b] ELSE index[b]]

index_set ==
    /\ Running("publish", "append_batch")
    /\ append_batch
    /\ worker_step("index_flush")
    /\ UNCHANGED <<journal_vars, forest_vars, header_vars, proof_vars, index_disk, committed,
                   fault, command, dtip, indexes, completed, reply>>

index_flush ==
    /\ Running("publish", "index_flush")
    /\ index_disk' = index
    /\ indexes' = NoIndexes
    /\ worker_step("apply")
    /\ UNCHANGED <<journal_vars, forest_vars, header_vars, proof_vars, index, committed, fault,
                   command, dtip, completed, reply>>

LastBlock(blocks) == blocks[Len(blocks)]

apply_forward_batch ==
    /\ Running("publish", "apply")
    /\ forest_tip' = LastBlock(command.blocks)
    /\ touched' = touched \cup SetOf(command.blocks)
    /\ worker_step("forest_sync")
    /\ UNCHANGED <<journal_vars, header_vars, proof_vars, index_vars, committed, fault, command,
                   dtip, indexes, completed, reply>>

\* Mutant: the forest is left to the kernel.
SyncedForest_skipped == touched

\* The blocks that the forest may hold in part after SteadyStateForest::sync.
SyncedForest == {}

forest_sync ==
    /\ Running("publish", "forest_sync")
    /\ touched' = SyncedForest
    /\ worker_step("update_height")
    /\ UNCHANGED <<journal_vars, forest_tip, header_vars, proof_vars, index_vars, committed,
                   fault, command, dtip, indexes, completed, reply>>

update_height ==
    /\ Running("publish", "update_height")
    /\ dtip' = LastBlock(command.blocks)
    /\ committed' = Height[dtip']
    /\ worker_step("prune")
    /\ UNCHANGED <<journal_vars, forest_vars, header_vars, proof_vars, index_vars, fault,
                   command, indexes, completed, reply>>

\* prepare_prune(Keep): the cut is at the Keep-th forward record from the end.
PruneCuts ==
    {i \in ForwardRecords : Cardinality({j \in ForwardRecords : j >= i}) = Keep}

\* Mutant: the completion is lost.
Completion_lost == 0

\* ApplyTimings.blocks, sent to the producer.
Completion == Len(command.blocks)

\* Pruning, which may fail with no more than a warning, notifications, and
\* the completion that the producer is waiting for.
complete ==
    /\ Running("publish", "prune")
    /\ \/ UNCHANGED floor
       \/ floor' \in PruneCuts
    /\ completed' = Completion
    /\ command' = NoCommand
    /\ worker_step("idle")
    /\ UNCHANGED <<log, tail, forest_vars, header_vars, proof_vars, index_vars, committed, fault,
                   dtip, indexes, reply>>

-----------------------------------------------------------------------------
(* The worker: PersistenceState::barrier *)

answer ==
    /\ command' = NoCommand
    /\ reply' = TRUE
    /\ worker_step("idle")

discard_unpublished ==
    /\ Running("discard", "idle")
    /\ tail' = << >>
    /\ answer
    /\ UNCHANGED <<log, floor, forest_vars, header_vars, proof_vars, index_vars, committed, fault,
                   dtip, indexes, completed>>

\* Sync { clean_shutdown }: all stores, then the clean marker if it was asked for.
sync_barrier ==
    /\ heights_open
    /\ \/ Running("sync", "idle") /\ UNCHANGED clean
       \/ Running("shutdown", "idle") /\ clean' = TRUE
    /\ touched' = {}
    /\ proofs_synced' = Len(proofs)
    /\ headers_disk' = headers
    /\ committed' = Height[dtip]
    /\ command' = NoCommand /\ reply' = TRUE
    /\ UNCHANGED <<journal_vars, forest_tip, headers, proofs, index_vars, needs_replay,
                   producer_vars, wpc, dtip, indexes, completed, fault, env_vars>>

Orphan == command.blocks[1]

\* Rollback: the record is marked durably before any store is touched.
mark_rolled_back ==
    /\ Running("rollback", "idle")
    /\ ForwardRecords # {}
    /\ IF dtip = Orphan /\ log[latest_forward].block = Orphan
       THEN /\ log' = [log EXCEPT ![latest_forward].status = RolledBack]
            /\ UNCHANGED fault
       ELSE bail("rollback") /\ UNCHANGED log
    /\ worker_step("apply_backward")
    /\ UNCHANGED <<floor, tail, forest_vars, header_vars, proof_vars, index_vars, committed,
                   command, dtip, indexes, completed, reply>>

\* No forward record is retained: the bridge needs a newer bootstrap.  It stops,
\* and does so again after every restart until Core's chain is ours again.
reorg_too_deep ==
    /\ Running("rollback", "idle")
    /\ ForwardRecords = {}
    /\ worker_step("failed")
    /\ UNCHANGED <<store_vars, command, dtip, indexes, completed, reply, fault>>

apply_backward ==
    /\ Running("rollback", "apply_backward")
    /\ forest_tip' = Parent[Orphan]
    /\ touched' = touched \cup {Orphan}
    /\ worker_step("backward_sync")
    /\ UNCHANGED <<journal_vars, header_vars, proof_vars, index_vars, committed, fault, command,
                   dtip, indexes, completed, reply>>

backward_sync ==
    /\ Running("rollback", "backward_sync")
    /\ touched' = {}
    /\ worker_step("remove_header")
    /\ UNCHANGED <<journal_vars, forest_tip, header_vars, proof_vars, index_vars, committed,
                   fault, command, dtip, indexes, completed, reply>>

\* HeaderIndex::remove never erases another block's header.
remove_headers(blocks) ==
    headers' = [h \in Heights |-> IF headers[h] \in blocks THEN NoBlock ELSE headers[h]]

remove_header ==
    /\ Running("rollback", "remove_header") /\ heights_open
    /\ remove_headers({Orphan})
    /\ worker_step("remove_header_sync")
    /\ UNCHANGED <<journal_vars, forest_vars, headers_disk, proof_vars, index_vars, committed,
                   fault, command, dtip, indexes, completed, reply>>

remove_header_sync ==
    /\ Running("rollback", "remove_header_sync") /\ heights_open
    /\ headers_disk' = headers
    /\ worker_step("remove_index")
    /\ UNCHANGED <<journal_vars, forest_vars, headers, proof_vars, index_vars, committed, fault,
                   command, dtip, indexes, completed, reply>>

\* BlocksIndex::remove flushes every removal.
remove_indexes(blocks) ==
    /\ index' = [b \in Blocks |-> IF b \in blocks THEN 0 ELSE index[b]]
    /\ index_disk' = [b \in Blocks |-> IF b \in blocks THEN 0 ELSE index_disk[b]]

remove_index ==
    /\ Running("rollback", "remove_index")
    /\ remove_indexes({Orphan})
    /\ worker_step("truncate")
    /\ UNCHANGED <<journal_vars, forest_vars, header_vars, proof_vars, committed, fault, command,
                   dtip, indexes, completed, reply>>

\* Mutant: the proof of b itself is cut off.
truncate_after_itself(b) ==
    LET end == IF b = Root THEN 0 ELSE index[b] IN
    IF b # Root /\ ~(index[b] \in 1 .. Len(proofs))
    THEN bail("truncate") /\ UNCHANGED proof_vars
    ELSE /\ proofs' = SubSeq(proofs, 1, end - 1)
         /\ proofs_synced' = Len(proofs')
         /\ UNCHANGED fault

\* ProofFile::truncate_after the proof of b, which must be indexed and stored.
truncate_after(b) ==
    LET end == IF b = Root THEN 0 ELSE index[b] IN
    IF b # Root /\ ~(index[b] \in 1 .. Len(proofs))
    THEN bail("truncate") /\ UNCHANGED proof_vars
    ELSE /\ proofs' = SubSeq(proofs, 1, end)
         /\ proofs_synced' = end
         /\ UNCHANGED fault

truncate ==
    /\ Running("rollback", "truncate")
    /\ truncate_after(Parent[Orphan])
    /\ worker_step("rollback_height")
    /\ UNCHANGED <<journal_vars, forest_vars, header_vars, index_vars, committed, command, dtip,
                   indexes, completed, reply>>

rollback_height ==
    /\ Running("rollback", "rollback_height")
    /\ dtip' = Parent[Orphan]
    /\ committed' = Height[dtip']
    /\ answer
    /\ UNCHANGED <<journal_vars, forest_vars, header_vars, proof_vars, index_vars, fault, indexes,
                   completed>>

\* A step of the command fails (finish_failed): the worker tries to flush the
\* forest and the headers, reports the error and ends.  What the step had
\* begun in the forest stays in part.
worker_fail ==
    /\ MayStop
    /\ stops' = stops + 1
    /\ command # NoCommand /\ wpc # "failed"
    /\ wpc' = "failed"
    /\ touched' = IF wpc \in {"apply", "apply_backward"}
                  THEN touched \cup SetOf(command.blocks) ELSE touched
    /\ headers_disk' \in {headers, headers_disk}
    /\ UNCHANGED <<journal_vars, forest_tip, headers, proof_vars, index_vars, committed,
                   clean_vars, producer_vars, command, dtip, indexes, completed, reply, fault,
                   core_vars, shutdown, service_vars, requests>>

\* The worker needs the header index after a P2P thread lost its database.
header_unavailable ==
    /\ ~heights_open
    /\ \/ command.kind \in {"sync", "shutdown"} /\ wpc = "idle"
       \/ wpc \in {"put_headers", "header_sync", "remove_header", "remove_header_sync"}
    /\ worker_step("failed")
    /\ UNCHANGED <<store_vars, command, dtip, indexes, completed, reply, fault>>

-----------------------------------------------------------------------------
(* Recovery: FlatFileProver::new and recoverable_journal_height *)

\* ForestJournal::open: the clean marker is consumed, the tail is cut.
recovery_step(next) ==
    /\ pc' = next
    /\ UNCHANGED <<after, goal, window, pending, submitted, command, wpc, completed, reply,
                   env_vars>>

open ==
    /\ pc = "down"
    /\ needs_replay' = ~clean
    /\ clean' = FALSE
    /\ tail' = << >>
    /\ recovery_step("repair")
    /\ UNCHANGED <<log, floor, forest_vars, header_vars, proof_vars, index_vars, committed, tip,
                   dtip, indexes, fault>>

InvalidProofs == {i \in ForwardRecords : ~Readable(index[log[i].block], log[i].block)}

\* Mutant: only the invalid proofs are appended again.
Repairs_only_invalid == InvalidProofs

\* From the first invalid proof on every proof is appended again, so that the
\* places in the file keep the order of the chain.
Repairs == {i \in ForwardRecords : \E j \in InvalidProofs : j <= i}

InOrder(records) ==
    [n \in 1 .. Cardinality(records) |->
       log[CHOOSE i \in records : Cardinality({j \in records : j <= i}) = n].block]

repair ==
    /\ pc = "repair"
    /\ put_headers(ForwardBlocks)
    /\ append_proofs(InOrder(Repairs))
    /\ recovery_step("repair_sync")
    /\ UNCHANGED <<journal_vars, forest_vars, headers_disk, proofs_synced, index_vars, committed,
                   clean_vars, tip, dtip, fault>>

repair_sync ==
    /\ pc = "repair_sync"
    /\ proofs_synced' = Len(proofs)
    /\ headers_disk' = headers
    /\ recovery_step("repair_index")
    /\ UNCHANGED <<journal_vars, forest_vars, headers, proofs, index_vars, committed, clean_vars,
                   tip, dtip, indexes, fault>>

repair_index ==
    /\ pc = "repair_index"
    /\ append_batch
    /\ recovery_step("repair_flush")
    /\ UNCHANGED <<journal_vars, forest_vars, header_vars, proof_vars, index_disk, committed,
                   clean_vars, tip, dtip, indexes, fault>>

\* No height up to the candidate tip is without a header, an indexed proof
\* inside the file and, where a record is retained, that record's proof.
NoGap ==
    \A h \in Heights : h <= Height[JournalTip] =>
        /\ headers[h] # NoBlock
        /\ index[headers[h]] \in 1 .. Len(proofs)
        /\ \A b \in ForwardBlocks : Height[b] = h =>
              headers[h] = b /\ proofs[index[b]] # Garbage

\* A gap at a retained height cannot be left after the repair, so the roll
\* back of legacy records has no step here.
check_gaps ==
    /\ pc = "repair_flush"
    /\ index_disk' = index
    /\ indexes' = NoIndexes
    /\ IF NoGap THEN UNCHANGED fault ELSE bail("gap")
    /\ recovery_step("replay")
    /\ UNCHANGED <<journal_vars, forest_vars, header_vars, proof_vars, index, committed,
                   clean_vars, tip, dtip>>

\* Undoing every retained record and redoing the forward ones yields the
\* journal's tip if all the blocks that the forest may hold in part, have in
\* excess or lack, relative to the state before the first retained record,
\* are retained.
Replayable ==
    /\ touched \subseteq RetainedBlocks
    /\ IF Retained = {} THEN forest_tip = JournalTip
       ELSE /\ Branch[forest_tip] \ Branch[Base] \subseteq RetainedBlocks
            /\ Branch[Base] \subseteq Branch[forest_tip]

replay_journal ==
    /\ pc = "replay"
    /\ IF needs_replay
       THEN /\ IF Replayable THEN UNCHANGED fault ELSE bail("replay")
            /\ forest_tip' = JournalTip
            /\ touched' = touched \cup RetainedBlocks
            /\ recovery_step("replay_sync")
       ELSE /\ recovery_step("cleanup")
            /\ UNCHANGED <<forest_vars, fault>>
    /\ UNCHANGED <<journal_vars, header_vars, proof_vars, index_vars, committed, clean_vars, tip,
                   dtip, indexes>>

replay_sync ==
    /\ pc = "replay_sync"
    /\ touched' = {}
    /\ recovery_step("cleanup")
    /\ UNCHANGED <<journal_vars, forest_tip, header_vars, proof_vars, index_vars, committed,
                   clean_vars, tip, dtip, indexes, fault>>

\* Mutant: an old roll back erases a block that is active again.
OrphanedBlocks_reactivated == {log[i].block : i \in Retained \ ForwardRecords}

\* Mutant: recovery leaves what a roll back did not get to remove.
OrphanedBlocks_kept == {}

\* Blocks of rolled back records with no later publication.
OrphanedBlocks == {log[i].block : i \in Retained \ ForwardRecords} \ ForwardBlocks

cleanup ==
    /\ pc = "cleanup"
    /\ remove_headers(OrphanedBlocks)
    /\ remove_indexes(OrphanedBlocks)
    /\ recovery_step("cleanup_sync")
    /\ UNCHANGED <<journal_vars, forest_vars, headers_disk, proof_vars, committed, clean_vars,
                   tip, dtip, indexes, fault>>

cleanup_sync ==
    /\ pc = "cleanup_sync"
    /\ headers_disk' = headers
    /\ recovery_step("recover_tip")
    /\ UNCHANGED <<journal_vars, forest_vars, headers, proof_vars, index_vars, committed,
                   clean_vars, tip, dtip, indexes, fault>>

\* The forest must be at the journal's tip and the tip's proof readable; the
\* proof file ends with it.
recover_tip ==
    /\ pc = "recover_tip"
    /\ tip' = JournalTip /\ dtip' = JournalTip
    /\ IF /\ forest_tip = JournalTip
          /\ JournalTip # Root => Readable(index[JournalTip], JournalTip)
       THEN truncate_after(JournalTip)
       ELSE bail("recovered tip") /\ UNCHANGED proof_vars
    /\ recovery_step("recover_height")
    /\ UNCHANGED <<journal_vars, forest_vars, header_vars, index_vars, committed, clean_vars,
                   indexes>>

recover_height ==
    /\ pc = "recover_height"
    /\ committed' = Height[tip]
    /\ recovery_step("idle")
    /\ UNCHANGED <<journal_vars, forest_vars, header_vars, proof_vars, index_vars, clean_vars,
                   tip, dtip, indexes, fault>>

RecoverySteps == {"down", "repair", "repair_sync", "repair_index", "repair_flush", "replay",
                  "replay_sync", "cleanup", "cleanup_sync", "recover_tip", "recover_height"}

-----------------------------------------------------------------------------
(* The environment *)

\* Core moves to another tip, by a new block or a reorganization.
reorganize(t) ==
    /\ reorgs < MaxReorgs /\ Undisturbed
    /\ t # active
    /\ active' = t
    /\ reorgs' = reorgs + 1
    /\ UNCHANGED <<losses, store_vars, clean_vars, producer_vars, worker_vars, fault, shutdown,
                   service_vars, stops, requests>>

\* The signal handler.
set_shutdown ==
    /\ MayStop
    /\ pc \notin RecoverySteps
    /\ ~shutdown
    /\ shutdown' = TRUE
    /\ stops' = stops + 1
    /\ UNCHANGED <<store_vars, clean_vars, producer_vars, worker_vars, fault, core_vars, service_vars,
                   requests>>

\* A P2P thread answers getheaders (active_locator_height): a locator hash that
\* the index does not have, of an active block at a committed height, is looked
\* up in Core and put into the index.
peer_fetch(b) ==
    /\ requests < PeerRequests
    /\ pc \notin RecoverySteps /\ heights_open
    /\ peer = NoBlock
    /\ b \in Branch[active] \ {Root}
    /\ Height[b] <= committed
    /\ headers[Height[b]] # b
    /\ peer' = b
    /\ requests' = requests + 1
    /\ UNCHANGED <<store_vars, clean_vars, producer_vars, worker_vars, fault, core_vars,
                   shutdown, asked, heights_open, stops>>

peer_put ==
    /\ peer # NoBlock
    /\ put_headers({peer})
    /\ peer' = NoBlock
    /\ UNCHANGED <<journal_vars, forest_vars, headers_disk, proof_vars, index_vars, committed,
                   clean_vars, producer_vars, worker_vars, fault, core_vars, shutdown, asked,
                   heights_open, stops, requests>>

\* The hash database is full: it is closed to be grown, and cannot be opened again.  The header
\* slot is not written, and from now on every use of the index is an error.
grow_heights ==
    /\ MayStop
    /\ peer # NoBlock
    /\ peer' = NoBlock
    /\ heights_open' = FALSE
    /\ stops' = stops + 1
    /\ UNCHANGED <<store_vars, clean_vars, producer_vars, worker_vars, fault, core_vars,
                   shutdown, asked, requests>>

\* A P2P thread answers getuproof (handle_get_utreexo_proof): the place of the proof, then the
\* file, and nothing keeps the worker from rolling the block back in between.
get_index(b) ==
    /\ requests < PeerRequests
    /\ pc \notin RecoverySteps
    /\ asked = NoRequest
    /\ index[b] # 0
    /\ asked' = [block |-> b, place |-> index[b]]
    /\ requests' = requests + 1
    /\ UNCHANGED <<store_vars, clean_vars, producer_vars, worker_vars, fault, core_vars,
                   shutdown, peer, heights_open, stops>>

get_proof ==
    /\ asked # NoRequest
    /\ asked' = NoRequest
    /\ UNCHANGED <<store_vars, clean_vars, producer_vars, worker_vars, fault, core_vars,
                   shutdown, peer, heights_open, stops, requests>>

\* Of a batch that was not flushed, the index database, which is a log, keeps
\* the first entries; batches are in height order.
index_survives ==
    /\ \E last \in Heights \cup {0} :
         index' = [b \in Blocks |-> IF Height[b] <= last THEN index[b] ELSE index_disk[b]]
    /\ index_disk' = index'

\* While the bridge is down, the entries of a block are lost or its proof is
\* corrupted; only retained records can restore them.
lose(b) ==
    /\ losses < MaxLosses /\ Undisturbed
    /\ pc = "down"
    /\ b \in ForwardBlocks
    /\ \/ /\ index' = [index EXCEPT ![b] = 0]
          /\ index_disk' = [index_disk EXCEPT ![b] = 0]
          /\ headers' = [headers EXCEPT ![Height[b]] = NoBlock]
          /\ headers_disk' = [headers_disk EXCEPT ![Height[b]] = NoBlock]
          /\ UNCHANGED proofs
       \/ /\ index[b] \in 1 .. Len(proofs)
          /\ proofs' = [proofs EXCEPT ![index[b]] = Garbage]
          /\ UNCHANGED <<header_vars, index_vars>>
    /\ losses' = losses + 1
    /\ UNCHANGED <<active, reorgs, journal_vars, forest_vars, proofs_synced, committed,
                   clean_vars, producer_vars, worker_vars, fault, shutdown, service_vars, stops,
                   requests>>

\* The process is killed: the page cache survives.
kill ==
    /\ MayStop
    /\ pc # "down"
    /\ stops' = stops + 1
    /\ index_survives
    /\ process_ends
    /\ UNCHANGED <<journal_vars, forest_vars, header_vars, proof_vars, committed, clean, fault,
                   core_vars, requests>>

\* Unsynced headers are old or new, unsynced proofs cut or partly written.
power_loss ==
    /\ MayStop
    /\ stops' = stops + 1
    /\ \E kept \in SUBSET {h \in Heights : headers[h] # headers_disk[h]} :
         headers' = [h \in Heights |-> IF h \in kept THEN headers[h] ELSE headers_disk[h]]
    /\ headers_disk' = headers'
    /\ \E n \in proofs_synced .. Len(proofs) :
         \E torn \in SUBSET (proofs_synced + 1 .. n) :
           proofs' = [i \in 1 .. n |-> IF i \in torn THEN Garbage ELSE proofs[i]]
    /\ proofs_synced' = Len(proofs')
    /\ index_survives
    /\ process_ends
    /\ UNCHANGED <<journal_vars, forest_vars, committed, clean, fault, core_vars, requests>>

-----------------------------------------------------------------------------

Producer ==
    \/ keep_up \/ reconcile_chain \/ wait_for_apply \/ reconcile_barrier \/ reconciled
    \/ sync_to_tip \/ reserve_persistence \/ stop_range \/ reorg_in_range \/ prove_block
    \/ publish_pending \/ sync \/ verify_durable_tip \/ worker_failed \/ exit

Worker ==
    \/ persist \/ publish \/ append \/ proof_sync \/ put \/ header_sync \/ index_set
    \/ index_flush \/ apply_forward_batch \/ forest_sync \/ update_height \/ complete
    \/ discard_unpublished \/ sync_barrier
    \/ mark_rolled_back \/ reorg_too_deep \/ apply_backward \/ backward_sync
    \/ remove_header
    \/ remove_header_sync \/ remove_index \/ truncate \/ rollback_height \/ header_unavailable

Recovery ==
    \/ open \/ repair \/ repair_sync \/ repair_index \/ check_gaps \/ replay_journal
    \/ replay_sync \/ cleanup \/ cleanup_sync \/ recover_tip \/ recover_height

Environment ==
    \/ \E t \in Blocks : reorganize(t)
    \/ set_shutdown \/ rpc_error \/ lookup_error \/ worker_fail \/ kill \/ power_loss
    \/ \E b \in Blocks : lose(b) \/ peer_fetch(b) \/ get_index(b)
    \/ peer_put \/ grow_heights \/ get_proof

Next == Producer \/ Worker \/ Recovery \/ Environment

Spec == Init /\ [][Next]_vars

\* The threads are scheduled and a stopped bridge is started again; nothing is
\* assumed of Core, of failures or of peers.
FairSpec ==
    /\ Spec
    /\ WF_vars(Producer) /\ WF_vars(Worker) /\ WF_vars(Recovery)

-----------------------------------------------------------------------------
(* Properties *)

Commands == {"none", "publish", "discard", "rollback", "sync", "shutdown"}

TypeOK ==
    /\ active \in Blocks
    /\ log \in Seq([block : Blocks, status : {Forward, RolledBack}])
    /\ floor \in 1 .. Len(log) + 1
    /\ tail \in Seq(Blocks)
    /\ forest_tip \in Blocks /\ touched \subseteq Blocks
    /\ headers \in [Heights -> Blocks \cup {NoBlock}]
    /\ headers_disk \in [Heights -> Blocks \cup {NoBlock}]
    /\ proofs \in Seq(Blocks \cup {Garbage})
    /\ proofs_synced \in 0 .. Len(proofs)
    /\ index \in [Blocks -> Nat] /\ index_disk \in [Blocks -> Nat]
    /\ committed \in Heights \cup {0}
    /\ clean \in BOOLEAN /\ needs_replay \in BOOLEAN
    /\ tip \in Blocks /\ dtip \in Blocks /\ goal \in Heights \cup {0}
    /\ window \in Seq(Blocks) /\ pending \in Seq(Blocks)
    /\ submitted \in 0 .. PublicationBlocks
    /\ command.kind \in Commands /\ command.blocks \in Seq(Blocks)
    /\ completed \in 0 .. PublicationBlocks
    /\ reply \in BOOLEAN /\ shutdown \in BOOLEAN
    /\ peer \in Blocks \cup {NoBlock} /\ heights_open \in BOOLEAN
    /\ asked.block \in Blocks \cup {NoBlock} /\ asked.place \in Nat

\* Whatever step the bridge was stopped at, recovery finds the stores in a
\* state that it can repair: it never meets a gap below the retained records,
\* a forest that replay cannot restore or a missing proof of its tip.
RecoverySucceeds == fault \notin {"gap", "replay", "recovered tip"}

\* The producer's and the worker's idea of the tip never drift apart: a window
\* always extends the durable tip, a roll back names it, its destination has a
\* proof, and a sync finds both threads and the forest at the same block.
ThreadsAgree == fault \notin {"window", "rollback", "truncate", "diverged"}

ServedFrom(b, h, n) == h = b /\ n \in 1 .. proofs_synced /\ proofs[n] = b

\* Every block of the published chain up to the committed height, which is
\* what the version message and getheaders advertise, has its own header at
\* its height and a readable proof, in the running bridge and in whatever a
\* crash would leave, at every step of publication, roll back and recovery.
CommittedIsServed ==
    \A b \in Branch[JournalTip] \ {Root} : Height[b] <= committed =>
        \A h \in {headers[Height[b]], headers_disk[Height[b]]},
           n \in {index[b], index_disk[b]} : ServedFrom(b, h, n)

\* The same of a bridge that has recovered, even if entries or proofs of
\* retained blocks were missing or corrupt when it started: none of the
\* repaired proofs is cut off again with the end of the file.  (Headers that
\* peers make the P2P threads store are another matter, see persistence_peer.)
RecoveredIsServed ==
    pc \notin RecoverySteps =>
        \A b \in Branch[JournalTip] \ {Root} : Height[b] <= committed =>
            \A n \in {index[b], index_disk[b]} :
                /\ n \in 1 .. proofs_synced /\ proofs[n] = b
                /\ requests = 0 => ServedFrom(b, headers[Height[b]], n) /\ headers_disk[Height[b]] = b

\* A request for the proof of a committed block is never answered with
\* another block's proof, nor with none, although its place was looked up
\* before roll backs, truncations and new proofs: a block that is published
\* again has the place that it had before (handle_get_utreexo_proof).  That
\* needs a file in which the proof was as far from the start as its block is
\* from the root: where a torn append was left below it, the place differs.
AskedIsServed ==
    /\ asked.block \in Branch[JournalTip]
    /\ Height[asked.block] <= committed
    /\ asked.place = Height[asked.block]
    => Readable(asked.place, asked.block)

\* A bridge with nothing under way holds exactly one chain: forest, journal,
\* height and proof file end at the producer's tip, and neither a header nor
\* an index entry of an orphan is left.
Quiescent == pc = "idle" /\ command = NoCommand /\ submitted = 0 /\ wpc = "idle"

StoresAgree ==
    Quiescent =>
        /\ tip = dtip /\ tip = forest_tip /\ tip = JournalTip /\ touched = {}
        /\ committed = Height[tip]
        /\ Len(proofs) = (IF tip = Root THEN 0 ELSE index[tip])
        /\ \A b \in Blocks \ Branch[tip] : index[b] = 0
        /\ \A h \in Heights : headers[h] # NoBlock => headers[h] \in Branch[tip]

\* The producer reads the shared forest through the overlay of pending blocks:
\* whenever it proves a block, pending is an unbroken run of blocks up to its
\* tip, reaches down to what the worker has applied so far, and is bounded.
OverlayCovers ==
    pc = "fetch" =>
        /\ \A i \in 1 .. Len(pending) :
              pending[i] = (CHOOSE b \in Branch[tip] : Height[b] = Height[tip] + i - Len(pending))
        /\ Branch[forest_tip] \subseteq Branch[tip]
        /\ Branch[tip] \ Branch[forest_tip] \subseteq SetOf(pending)
        /\ Len(pending) = submitted + Len(window)
        /\ Len(pending) < MaxPending

\* Once Core's chain stops moving the bridge ends up with all of it committed,
\* whatever windows, reorganizations, failures and restarts were in the way:
\* no wait for the worker is ever left without an answer.
CatchesUp == <>[](dtip = active /\ committed = Height[active])
=============================================================================
