# Verification of rpc-utreexo-bridge

This directory holds TLA+ models of the bridge, the TLC configurations that
check them on small instances, and proofs that the TLAPS proof system checks
for every value of the parameters. Paths below are relative to the repository
(`src/…` is the crate's source directory).

    tlc -workers 2 -config MCForestJournal_power.cfg MCForestJournal
    tlapm ForestJournalProofs.tla
    tlapm PersistenceStoreProofs.tla

## 1. The system

The bridge follows a Bitcoin Core node, keeps the utreexo forest of all unspent
outputs in flat files, and serves a compact inclusion proof for every block to
light clients. It runs in two phases: an offline bootstrap builds the forest up
to the height of a hints file, then *steady state* proves one block after
another and serves them.

| Component | State | Operations | Interacts with |
|---|---|---|---|
| Forest journal (`forest_journal.rs`) | page-aligned record file, two-slot publication marker, clean-shutdown file; in memory: records, ends, epoch, poison flag | `append_block`, `publish`, `discard_unpublished`, `mark_rolled_back`, `prepare_prune`/`finish`, `mark_clean_shutdown`, `open` | producer appends, worker publishes: two locks, shared atomics |
| Prover (`prover.rs`, producer) | tip, publication window, pending blocks and overlay, Pollard cache | `keep_up`, `reconcile_chain`, `prove_range`, `publish_pending`, `sync` | RPC to Core; a channel of capacity one to the worker |
| Persistence worker (`prover.rs`) | durable tip | `persist`, barriers `Sync`, `Rollback`, `DiscardUnpublished`, `Resize`, `Repair` | writes all five stores, answers on completion channels |
| Recovery (`prover.rs`, `FlatFileProver::new`) | none of its own | repair from the journal, gap check, replay, clean-up, truncation | runs before the threads start |
| Proof file (`blockfile.rs`) | proofs one after another | `append`, `get`, `truncate_after`, `sync` | worker writes, P2P threads read |
| Proof index (`block_index.rs`) | hash → place in the proof file; committed height | `append_batch`, `remove`, `update_height` | worker writes, P2P threads read |
| Header index (`header_index.rs`) | header by height, height by hash; growing mapped database | `put`, `remove`, `sync`, `grow_heights` | worker *and* P2P threads write |
| Steady-state forest (`parallel_forest.rs`) | node file, leaf map, resize sidecar | `apply_forward_batch`, `apply_backward`, `replay_journal`, `ensure_leaf_capacity` | worker writes, producer reads through the overlay |
| Parallel builder (`parallel_forest.rs`) | availability counters, abort flag | leaf workers, chasers | many threads |
| P2P server (`node.rs`) | peer registry, bans, per-peer phase, rate limiters | accept, handshake, `getheaders`, `getuproof`, eviction | reads the stores and Core |
| Chain view (`chainview.rs`) | height/hash caches of the header service | `save_*`, `get_*` | P2P threads |
| Hints generator (`bin/bridge-hints.rs`) | a sequential pass over the chain | `apply_block`, `write_hints_file` | offline |
| Block sources, codecs, CLI | none | | |

What makes each part correct:

* journal: what was acknowledged as published survives every crash, what was
  not is never invented, and open never refuses its own files;
* prover and worker: the stores describe one chain; a block at or below the
  committed height is served with its own header and proof at every moment and
  after every crash; the two threads never disagree about the tip; the bridge
  catches up;
* overlay: whatever the producer reads of the forest is current;
* resize: a crash at any stage leaves the old or the new layout recoverable;
* builder: all leaves and parents are written exactly once, nobody waits for ever;
* P2P: limits hold under concurrent connections, eviction and disconnection;
  headers and proofs served belong to the committed chain.

The hard behaviours are collected, with their lines, under `hazards` in
`PROJECT.json`.

## 2. Modules

| Module | Models |
|---|---|
| `PublishedLog` | abstract: an append-only log whose records may be rolled back once |
| `ForestJournal` | `forest_journal.rs`, down to single writes and flushes; refines `PublishedLog` |
| `ForestJournalProofs` | theorems about `ForestJournal`, and that it implements `PublishedLog` |
| `Persistence` | `prover.rs` and the stores it drives: producer, worker, recovery, Core, crashes |
| `PersistenceThreadProofs` | lemmas about the block tree; the protocol between producer and worker, and the journal |
| `PersistenceForestProofs` | theorems about forest, overlay and types of `Persistence` |
| `PersistenceStoreProofs` | theorems about proof file, proof index and headers of `Persistence` |
| `ForestPositions` | the position arithmetic of `parallel_forest.rs` |
| `ForestPositionProofs` | powers of two, rows and translation of positions |
| `ForestResize` | growth of the forest file: `FlatForest` resize and open, journal replay across layouts |
| `ForestResizeProofs` | theorems about `ForestResize` |
| `PeerServer` | the threads of the P2P server in `node.rs`: acceptor, workers, peer registry, channels |
| `PeerServerProofs` | theorems about `PeerServer` |
| `Transactions` | what the hints generator, the builder and the prover take from a block |
| `HintsGenerator` | the offline tool `bin/bridge-hints.rs` with the file format of `prefixed_hints.rs` |
| `ParallelBuild` | the bootstrap of `parallel_forest.rs`: leaf workers, chasers, availability, joins; extends `HintsGenerator` |
| `BootstrapProofs` | theorems about `HintsGenerator` and `ParallelBuild` |
| `BlockProver` | `process_block` of `prover.rs` with `SteadyStateForest`, `ForestOverlay` and `ForestView`; extends `ParallelBuild` |
| `MCForestJournal`, `MCPersistence`, `MCForestResize`, `MCPeerServer`, `MCBlockProver` | instances for TLC |

Two compositions matter. `Persistence` takes the journal as the abstract log that
`ForestJournal` refines and looks at the *order* in which the stores are written;
a block there is one atom of forest. `BlockProver` looks at the *contents* of the
forest and takes the order of the stores as `Persistence` establishes it. The
bootstrap and the steady state are one specification, so that every forest the
prover starts from is one that the builder made from a hints file that the tool
wrote.

### ForestJournal

Every file exists twice: as the page cache shows it (`wal`, `slots`) and as the
medium holds it (`disk`, `disk_slots`). A write changes the first, a flush
copies it to the second, the kernel may write a page back at any time, and
`power_loss` chooses for every unsynced page and slot the old content, the new
one or a torn one. `kill` only ends the process. Both may happen between any
two steps, and `CrashKinds` selects which.

An action is what happens between two points where another thread, a crash or
a failure can intervene. `append_begin`/`append_end`/`append_fail` are
`write_record`; `mark_rolled_back_*` is the write and the flush of the status
byte; `publish_begin`, `publish_flush`, `publish_write` and `publish_sync` are the
steps of `JournalPublisher::publish`; `prune_begin`, `floor_*`, `fallback_*` and
`punch` those of `JournalPrune::finish`, which hold the marker lock (`mpc`) but
not the journal lock (`jpc`); `publication_fail` is an error of any of their
writes or flushes, which poisons the journal. `open_take_clean` and `open_scan`
are `open`: the clean-shutdown file is removed before anything is read.

Abstractions: a record is one page and its identity stands for height, hash,
checksum and payload; the marker store and the `published_end` store, which the
code makes one after the other under the marker lock, are one step; a failed
flush leaves the medium as it was, because any other outcome is also reached by
write-back followed by the failure. `shown` is a history variable: what
`records()` last showed of every offset. The legacy import is not modelled:
`Init` is its result.

### Persistence

A block stands for its hash, header, proof and journal entry; the tree of
blocks is a parameter (`DescentAssumption`: every block descends from the root),
and `reorganize` moves Core to any tip. The journal is
the abstract log (`log`, the floor, and the unpublished `tail`), which the
refinement above justifies. The other four stores are modelled with what is
cached and what is durable: `headers`/`headers_disk`, `proofs` with
`proofs_synced`, `index`/`index_disk`, and for the forest the last block applied
(`forest_tip`) with the blocks whose writes may be on the medium in part
(`touched`). `committed` is the height in the proof index.

Producer (`pc`): `keep_up`, `reconcile_chain`, `lookup_error`, `wait_for_apply`,
`reconcile_barrier`, `reconciled`, `sync_to_tip`, `reserve_persistence`,
`stop_range`, `reorg_in_range`, `prove_block`, `publish_pending`, `sync`,
`verify_durable_tip`, `worker_failed`, `rpc_error`, `exit`. Worker (`command`,
`wpc`): `persist` to `complete` are the statements of `PersistenceState::persist`
in their order, `mark_rolled_back` to `rollback_height` those of the `Rollback`
barrier; `worker_fail` is an error of any of them with `finish_failed`. Recovery
(`pc` again, as no other thread runs): `open` to `recover_height` are
`FlatFileProver::new` with `recoverable_journal_height`. Internal checks of the
code (`anyhow::bail!`) set `fault`, and the invariants say which of them can
never fire.

Worth knowing when reading it against the code:

* `reserve_persistence` has the code's wait for room as a guard, not as a wait.
  The wait is never needed (at most one window is submitted, and the
  accumulating one is not full), and if it were the producer of the model would
  be stuck and `CatchesUp` would fail.
* A header slot stands for the slot and for the hash key that must agree with
  it; `HeaderIndex` believes a key only if the slot agrees.
* The key-value store behind the proof index is external: of writes not flushed
  it keeps a prefix, and what it recovers is stable.
* The runtime database behind the leaf map and header keys is assumed to reopen;
  the README of the repository (lines 361-366) documents that a hard kill may
  prevent that.
* Failing to prune is only a warning in the code (`complete` may leave the
  floor); a later publication on a poisoned journal is a `worker_fail`.
* `lose` is damage to stored data found at startup, the situation of the test
  `published_journal_repairs_interior_proof_gap_without_truncating_redo`.
* `peer_fetch`/`peer_put` are the only writes that P2P threads make to a store
  (`active_locator_height`; `header_at_height` is of the same shape). In a
  behaviour with such a request a header may be the peer's doing (the finding
  `persistence_peer`), so `RecoveredIsServed` speaks of headers only while there
  was no request, and of proofs and index entries always.
* `get_index`/`get_proof` are the two reads of `handle_get_utreexo_proof`: the
  request holds the place that it read from the index while the worker may roll
  the block back, truncate the proof file and append another proof there. The
  file checks no hash. What saves the request is that proofs are appended in the
  order of their blocks and cut when they are rolled back, so a block that is
  published again has the place that it had before. `AskedIsServed` says so of a
  place that corresponds to the block's height. Where it does not, the guarantee
  is gone: `ProofFile::new` continues at the end of the file, so a torn append
  that a power loss left there stays below the proofs that recovery appends
  again, until the first of their blocks is rolled back and the file is cut. A
  request that spans such a roll back and the publication of the same block finds
  another proof or none at the place that it holds.
* `grow_heights` is the failure of `HeaderIndex::grow_heights` in a P2P thread:
  the database has been closed and is not there any more (`heights_open`). Every
  later use by the worker is an error (`header_unavailable`), which ends the
  process; the next start opens the database again.
* Replay is `Replayable` here: undoing every retained record and redoing the
  forward ones yields the journal's tip if every block that the forest holds in
  part, in excess or not at all is retained.

### ForestPositions and ForestResize

The forest file is an array of nodes, leaves first, row by row, so every node
above the leaves moves when the forest gets more rows. `ForestPositions` has the
functions of the same names. Shifts are looked up in a table (`Pow2`), a function
defined by doubling up to the largest shift `MaxShift` (64 in the code), because
the provers can reason about such a function and know nothing about `2^n`.
`ForestResize` models the file as a function from
positions to node *names* (row and index): what the hashes are does not matter
to where they are, and a node at the wrong position is a name at the wrong
position. `file` is what the mapping shows; `disk` has, for each page, the
contents it had since the last flush, one of which a power loss keeps.

`marker_create` to `remove_sync` are the writes and flushes of
`write_resize_marker`, `grow_mapping`, `copy_internal_rows`,
`update_resize_marker_stage`, `clear_new_bottom_range` and `resume_resize` in
their order; `open` dispatches on the sidecar as `resume_resize_if_needed` does,
`count_leaves` is the binary search of `SteadyStateForest::open`, and
`replay_backward`/`replay_forward` are `replay_journal` with
`journal_position`. `prove_block` stands for `ensure_forest_capacity` with the
`Resize` barrier, or for a block that fits and its published journal record. A
`kill` leaves the first part of the writes of the step under way.

Abstractions: blocks only add leaves (a deletion rewrites nodes at places that
are already in use); all records are retained; each behaviour has kills or power
losses, not both. The last is a real restriction: a process killed between the
write and the flush of the sidecar leaves it in the page cache, the next one
resumes the resize without flushing it, and a power loss may then keep the
longer file and lose the sidecar. It is the hazard of `journal_both` in another
file.

### PeerServer

One acceptor and several workers share the registry (`peers`, `banned`), which
has a lock, and talk over bounded channels (`queue`). No operation of the code
spans the lock: the acceptor reserves a place (`admit`), releases the lock and
only then sends, first `Disconnect` to the worker of the evicted peer
(`send_disconnect`) and then the socket to the new peer's worker
(`send_connection`); a worker closes a socket (`close_socket`) before it takes
the lock (`record_disconnect`). These are separate actions, and between them the
other threads run. `send` blocks while the channel is full and fails when the
worker's thread has ended, in which case the acceptor takes all entries of that
worker out of the registry.

A worker goes round `handle_messages` (`add_peer`, `disconnect_peer`,
`announce_block`), `poll`, `handle_event` for each ready peer and
`expire_handshakes`; peers that a step has decided to remove are `doomed`, and
`remove_peer` takes them one at a time. A worker ends when its poll fails
(`poll_error`) or the acceptor is gone (`channel_closed`).

Abstractions: identifiers are given in order of admission and stand for the time
of connection as well (they do not wrap); an address is already normalized and
its network prefix is a parameter; time passes in `tick`s, which age the
connections and the bans; what a peer sends is known by its outcome (progress, a
finished handshake, a failure, too many messages). The names for the periodic
log (`identify`, `software_summary`) are left out. One consequence worth knowing:
a peer that exceeds its rate limit after it was evicted, and before its worker
handled the `Disconnect`, is not banned, because `ban` finds no entry for it.

### Transactions, HintsGenerator and ParallelBuild

A block is an identity and a sequence of transactions; a transaction is its
identifier, the outpoints it spends and, for each output, whether its script can
be spent. That is all the three readers of blocks distinguish. `Chains` gives
the chains that Core may have, `Bip30` the outputs shadowed under BIP30.
`ChainsAssumption` says what consensus guarantees of them and the tool relies on:
a block does not create an output twice, and an output that is spent in its own
block does not have the name of a leaf that is still unspent, unless that leaf is
one of the shadowed ones.

`HintsGenerator` is one pass: `start`, `apply_block` per height, then `refuse` or
`create_temporary`, `encode_hints`, `sync_temporary` and `rename`; `write_failure`
removes the temporary file. `files` is what a process finds under the two names,
`disk` the set of states a power loss may leave; the directory is never synced,
so an old state stays possible after the rename. The Elias-Fano encoding is left
out: the file is a record with the counts and the places. `apply_block` counts a
shadowed output as a leaf and gives it no hint, which is what all three readers
of the code do (the README of the repository, lines 106-110, has it excluded
before the index is incremented; the builder would then refuse the file).

`ParallelBuild` has the main thread (`phase`), leaf workers (`leaf`) and chasers
(`chaser`). A leaf worker claims a chunk of heights (`acquire`), writes one node
per output (`write_leaf`), then the block's leaf map entries (`end_block`) and,
after the chunk, its headers (`put_batch`). A chaser waits for the last child of
its chunk of parents and then for both children of each (`read_ready`,
`write_parent`); a missing child makes it sleep under the lock (`wait_child`)
until a publication or an abort, both of which wake all sleepers. `write_refused`
and `parent_refused` are the compare-and-exchange of `FlatForest::write` that
fails, `leaf_failure` an error of a block read or an index write, `leaf_panic` a
thread that ends without aborting; `join_leaf` finds out. A hash is the leaf or
the pair of hashes that it was computed from, so equal hashes are equal
subtrees. The spin before the wait is not distinguished from the wait. Nothing
but counts ties a hints file to a chain: `reorganize` between the tools leads to
builds that must fail, and to builds of a fork whose blocks happen to have the
same counts, which succeed with the other chain's hints (`BuiltForest` and
`BuiltIndex`, which say what a completed build has in the forest and in the leaf
map and header index, speak of the file's hints for that reason).

`OneWriter` is about two threads, or one thread twice, at one position: with the
chain's own counts nobody ever meets a node that is already written or that
another thread is about to write. `OwnFileAccepted` is the other half: with the
chain's own file, and without a fault, none of the builder's checks fires, not
those on hints and counts while the threads run and not the validation at the
end. `Buildable` has the bound of `forest_capacity`: the positions of a forest
are 64-bit numbers (`MaxShift`).

### BlockProver

The producer resolves the outputs that a block spends (`Resolve`): in the cache
of recent leaves, whose positions are believed; in the overlay of pending
blocks or the leaf map, where the hash of the leaf is compared; else by a
search. `plan_update` stages the spent leaves, the recomputed parents row by row
and the new leaves with the roots they complete, and yields the journal entry
with every touched node before and after. `process_block` verifies the proof and
the planned roots against the accumulator, which is a library (`modify`, written
from the definition of the accumulator: all leaves of the chain and the tree
above them), and pushes the entry onto the overlay. `publish_pending`, the
worker's `publish_window`, `apply_forward_batch` and `finish_window`, and
`retire_apply` move a window into the forest. `ensure_forest_capacity` and
`repair_leaf_position` are the barriers Resize and Repair, after a flush of all
pending blocks. `discard_unpublished` and `rollback` are `reconcile_chain`;
`crash` keeps any subset of the unsynced pages and the old or new leaf map;
`replay_backward` and `replay_forward` are `replay_journal`, with a crash
possible between them. `damage` loses a leaf map entry or moves it by one.

A canonical position counts rows of the logical forest, a storage position those
of the file, which may be taller; `translate_proof_positions` (batched, without
reading twins) and `compressed_hash` (the descent past spent subtrees) are
translated separately and checked against each other.

Abstractions: the Pollard's cached nodes are the forest's, and the positions it
remembers are those of the leaf cache; the leaf map's key is the outpoint, not
the first sixteen bytes of its hash; an error ends the process, which is started
again; the worker's syncs and other stores are one step (`Persistence` has them
one by one). An entry that is damaged into the position of a *spent* leaf is not
repaired by the code: `process_block` fails at the same block at every retry.
`ProverCatchesUp` makes an exception for it (`Unrepairable`), as for a
reorganization below the bootstrap height.

## 3. Runs

| Run | Instance | Checks |
|---|---|---|
| `journal_power` | 2 records, 2 blocks, power losses | `TypeOK`, `CrashSafe`, `FloorsExcludeHoles`, `CleanMeansApplied`, `VisibleIsDurable`, refinement of `PublishedLog` |
| `journal_kill` | 3 records, 1 block, kills | `ReopenNeverRefused`, refinement |
| `journal_both` | 2 records, both | **violation** of `VisibleIsDurable` |
| `persistence_reorg` | chain of 4 with a fork of 2, up to 3 of: 2 reorganizations, 2 stops | `TypeOK`, `ThreadsAgree`, `CommittedIsServed`, `StoresAgree`, `RecoverySucceeds`, `OverlayCovers` |
| `persistence_relapse` | fork tree, 1 reorganization, 1 loss, 1 stop | **violation** of `RecoveredIsServed` |
| `persistence_peer` | fork tree, 1 reorganization, 1 request | **violation** of `CommittedIsServed` |
| `persistence_live` | fork tree, up to 2 of: 2 reorganizations, 1 stop, 1 loss; 1 request, fairness | `RecoveredIsServed`, `AskedIsServed`, `CatchesUp` |
| `resize_resume` | 1 to 3 rows, 2 records, 2 stops | `TypeOK`, `WellPlaced`, `SourceIntact`, `ResumesUnlessTorn` |
| `resize_torn` | the same with kills | **violation** of `AlwaysResumes` |
| `peer_server` | 2 workers, 3 addresses, 3 connections, 2 places | `TypeOK`, `EntriesAreBacked`, `SocketsAreCounted`, `PrefixesKept` |
| `peer_live` | 1 worker, 2 addresses, 3 connections, fairness | `EvictedAreClosed`, `HandshakesEnd`, `StoppedAreReclaimed` |
| `bootstrap` | 4 chains of 2 to 5 blocks, 2 leaf workers, 2 chasers, fairness | `TypeOK`, `HintsAreUtxos`, `OneWriter`, `OwnFileAccepted`, `BuiltForest`, `BuiltIndex`, `ViewIsReference`, `PositionsAreCurrent`, `ProofsReachLeaves`, `BuildEnds`, `ProverCatchesUp` |

Bounds. Two records are enough for the journal's protocol to go round both
slots twice with a prune in between (each prune takes two generations), and
three let a publication follow a prune and be pruned again. A window of two
blocks (`PublicationBlocks = 2` for 100) has full and partial windows; `Keep = 2`
(for 144) makes pruning happen and makes a reorganization of the whole fork
reach the floor, so that `reorg_too_deep` is exercised. A *stop* is a kill, a
power loss, a worker failure, an RPC error or a shutdown signal; two of them let
the second hit the recovery from the first. `MaxDisturbances` bounds stops and
reorganizations together, so that each of them is reached in every order without
paying for all four in one behaviour. A block of one or three
leaves makes the forest grow by one row, twice by one row, or by two rows at
once, and pages of three nodes straddle the boundaries between rows; `MaxShift = 8`
is more than any layout of the runs needs. For the
server two places, three connections and channels of one message make every
channel fill up and every admission beyond the second meet a full registry; two
workers let an evicted peer and its replacement belong to different threads.
The four chains of `bootstrap` have an output that is shadowed, one that is spent
in its own block, unspendable ones, a block that only spends, a fork at each of
two depths, and a fork whose counts differ from the hints (one leaf more, one
less), so that a wrong file writes into the next block's range and leaves a gap.
They have between three and eight leaves: the forest grows in steady state, and
trees of several heights exist beside each other. Two workers with chunks of two
heights, and two chasers with batches of one parent, let every claim and every
wait be contended; a window of two blocks and a leaf cache of one block make a
later pending block rewrite an earlier one's nodes and let the same output be
found in each of the places. The tool and the bridge have one stop each, Core
changes once before and once during steady state, and one builder thread fails.
Deadlock is not checked there because a refused build is the end.

Addresses of the server's runs are interchangeable (`AddressSymmetry`): the
instance only distinguishes their prefixes, which it gives by the address
itself, and the run with symmetry checks safety only. Deadlock checking is on in
every other run. The states are finite through the bounds alone; no state
constraint is used.

Fairness (`FairSpec`, only in the three liveness runs). `persistence_live`: weak
fairness of the producer, of the worker and of recovery. The first two are
threads that the operating system schedules and whose blocking calls are
modelled as guards; the third is the restart of the container, `restart: always`
in `docker-compose.yml`. Nothing is assumed of Core, of failures or of peers:
that they stop is not needed as they are bounded. `peer_live`: weak fairness of
the acceptor and of each worker, again threads whose blocking calls are guards;
time passes; and blocks keep coming, which `StoppedAreReclaimed` needs because a
full registry gives the acceptor nothing else to send to a worker that has
ended. Nothing is assumed of peers: a silent one never has an event.
`bootstrap`: weak fairness of the builder's main thread and of each of its
workers and chasers, and, in steady state, of the producer, of the worker and of
the restart. The last three are written with explicit conditions
(`ProducerReady`, `WorkerReady`, `RecoveryReady`) in place of ENABLED, because
deciding ENABLED would evaluate the whole plan of a block in every state.
Faults, Core and the hints tool are not fair.

### Disagreements found

Four runs are expected to fail, and `findings` in `PROJECT.json` quotes the text
each contradicts:

1. `journal_both`. A process killed between the write and the flush of a marker
   leaves the marker in the page cache. The next process believes it without
   flushing it, so "published" records can still be lost to a power failure.
   Under power losses alone or kills alone this cannot happen (`journal_power`,
   `journal_kill`, and theorem `VisibleSurvives`).
2. `persistence_relapse`. Recovery repairs a damaged proof by appending it and
   all later ones again; if it is killed while the new index entries are half
   stored, the next recovery truncates the repaired proof.
3. `persistence_peer`. A `getheaders` request during a reorganization makes a
   P2P thread overwrite the header of a committed block.
4. `resize_torn`. The resize sidecar is created first and filled afterwards. A
   process that ends in between leaves an empty sidecar, and every later start
   refuses it although the forest is untouched.

## 4. Proofs

### The journal

`ForestJournalProofs` proves, for any set of blocks, any file size, any number
of epochs and any retention, and for the specification without kills
(`"kill" \notin CrashKinds`; with kills and power losses together the third
run refutes the strongest of them):

| Theorem | States |
|---|---|
| `Inductive` | `Spec => []IInv` |
| `TypeCorrect` | `Spec => []TypeOK` |
| `ReopenSafe` | `Spec => []ReopenNeverRefused` |
| `HolesExcluded` | `Spec => []FloorsExcludeHoles` |
| `PublishedSurvives` | `Spec => []CrashSafe` |
| `VisibleSurvives` | `Spec => []VisibleIsDurable` |
| `CleanIsApplied` | `Spec => []CleanMeansApplied` |

None of these is inductive by itself. `IInv` adds, while the process runs
(`InvUp`), that the marker in memory is intact in its own slot in the cache and
on the medium; that the other slot is older, torn, or a candidate that is
*believed*: its records were flushed before it was written; that records in
memory, cache and medium agree below the published end; what the steps of the
publisher have already established; and, while the process is down (`InvDown`),
that whatever slot open selects is believed. The central argument is that every
combination of slot outcomes of a power loss selects either the acknowledged
marker or a believed candidate, and both describe flushed records. Each action
has its own lemma; the assumptions are only those that `ForestJournal` names
(`BlocksAssumption`, `BoundsAssumption`, `CrashAssumption`).

### The journal implements the log

`ForestJournalProofs` also proves `LogImplemented`: under the same assumption,
`Spec => ImplementsPublishedLog`. A running process changes what it shows by one
publication, one roll back or one prune, each of which is a step of the abstract
log. The hard case is the recovery, which may show the end of a publication or of
a roll back that the crash interrupted, and must never show both, as no single
step of the log does. `RInv` adds to `IInv` that at most one published page is
unsettled (cache, medium and history differ), and that then nothing is waiting to
be published (`InvUnsettled`); while the process is down, that a recovery that
finds a roll back finds nothing else (`InvRecovered`). It holds because a roll
back starts only with nothing unpublished, appends wait for it, and a failed one
poisons the journal.

### The P2P server

`PeerServerProofs`, for any number of workers, addresses, prefixes, places,
connections and channel capacities (`LimitsAssumption`, `PrefixAssumption`):

| Theorem | States |
|---|---|
| `Inductive` | `Spec => []IInv` |
| `TypeCorrect` | `Spec => []TypeOK` |
| `EntriesBacked` | `Spec => []EntriesAreBacked` |
| `SocketsCounted` | `Spec => []SocketsAreCounted` |
| `PrefixesStay` | `Spec => PrefixesKept` |

The acceptor releases the registry before it sends and a worker closes a socket
before it takes the registry, so registry and sockets correspond only up to what
is under way. `IInv` says what that is: an identifier is in one place (in a
channel, in a table, or being closed), and that worker is the one the registry
names (`InvOwners`); a disconnection is behind its connection in the channel
(`InvOrder`); the connection being handed over is nowhere yet, and is registered
unless its worker has ended (`InvIncoming`); the peer being evicted has left the
registry (`InvEvicted`); a worker that ended has nothing (`InvStopped`).
`PrefixesKept` then needs a counting argument: a prefix that loses a peer to an
eviction is one of the most common ones, and keeps another peer.

### Producer, worker, recovery

Three modules, each on top of the one before it, for any block tree, window size,
retention and any number of reorganizations and stops:

1. `PersistenceThreadProofs`. The functions `Height` and `Branch` are defined by
   recursion along `Parent`. That they exist, and everything that follows from
   it, is proved from `DescentAssumption`, which is induction along the tree. A
   branch has one block at each height; a run of blocks each of which is the
   parent of the next is the difference of two branches. `Threads` is the protocol between the two threads
   (the pending blocks are a run up to the producer's tip: the submitted window,
   then the one being filled; one command, completion or reply at a time, for the
   step that expects it; the worker's tip follows from the windows). `InvLog` says
   that the forward records are a chain above the base.
2. `PersistenceForestProofs`. `Safe` adds the types and the forest: whatever the
   forest holds in part or in excess of the base is retained, and where journal,
   forest and height are at each step of worker and recovery.
3. `PersistenceStoreProofs`. `Places` is about proof file and index: every entry,
   stored or on its way, names a readable proof of its own block; the entries of
   the chain, in the cache and on the medium, are those of its first blocks, so
   that a stop between two writes leaves a prefix; places rise with the height,
   so that a cut never takes a proof that stays. `HeadersOK` is the same of
   headers. `InvDescends` orders the records, and shows that what a recovery cleans
   up is never of the chain; `InvBeside` says how far the worker's tip may be from
   the journal's when the worker has failed and its requests go on.

| Theorem | States |
|---|---|
| `Inductive` | `Spec => []Safe` |
| `ChecksPass` | `Spec => []InvChecks`: the checks on window, roll back, barrier and replay never fire |
| `TypeCorrect` | `Spec => []TypeOK` |
| `OverlayCovered` | `Spec => []OverlayCovers` |
| `PlacesHold` | `Spec /\ []Unlost => []Stores` |
| `ThreadsAgreed` | `Spec /\ []Unlost => []ThreadsAgree` |
| `AskedServed` | `Spec /\ []Unlost => []AskedIsServed` |
| `RecoveredServed` | `Spec /\ []Unlost => []RecoveredIsServed` |
| `HeadersHold` | `Spec /\ []Unlost /\ []Unasked => []HeadersOK` |
| `CommittedServed` | `Spec /\ []Unlost /\ []Unasked => []CommittedIsServed` |
| `Recovers` | `Spec /\ []Unlost /\ []Unasked => []RecoverySucceeds` |
| `Agrees` | `Spec /\ []Unlost /\ []Unasked => []StoresAgree` |

The first four hold whatever is lost and whatever peers ask. `Unlost` restricts
the others to behaviours without damage to stored data (`lose`; crashes are not
restricted), `Unasked` to those in which no P2P thread has a header to store. Both
restrictions are needed where they are made: `persistence_relapse` and
`persistence_peer` refute the statements without them. Until the first request
the headers are those of `HeadersOK`, which is why `RecoveredIsServed`, whose part
about headers is limited to that time, needs only the first.

The attempt to prove an earlier form of `AskedIsServed`, which spoke of every
place, failed at a block that is published again above a torn append. TLC found
the behaviour with one power loss and two reorganizations, one disturbance more
than the run has, and the property was restated as described in section 2.

### Positions and growth of the forest file

`ForestPositionProofs` proves what the arithmetic of `parallel_forest.rs` rests
on, from the doubling of powers alone (`ShiftAssumption`): rows follow each other
without gap or overlap, `detect_row` finds the row of every position, `tree_rows`
is the smallest layout that fits, and `Translated`: `translate_position` keeps the
row and the index of every node, for every pair of layouts.

`ForestResizeProofs` proves, for any initial and largest layout, any sizes of
blocks and pages and any number of records and stops (`RowsAssumption`,
`LimitsAssumption`, `CrashAssumption`), when a behaviour has kills or power losses
and not both (`OneKindOfCrash`, the restriction explained in section 2):

| Theorem | States |
|---|---|
| `ResizeInductive` | `Spec => []IInv` |
| `ResizeTypes` | `Spec => []TypeOK` |
| `ResizeWellPlaced` | `Spec => []WellPlaced` |
| `ResizeSourceIntact` | `Spec => []SourceIntact` |
| `ResizeResumes` | `Spec => []ResumesUnlessTorn` |

`IInv` does not follow the contents of the file from step to step. It confines
what the medium may hold at each position to a set of values that the sidecar and
the journal determine: without a sidecar, recorded nodes at their places in the
current layout and all that the bootstrap built (`Settled`); while rows are
copied, the complete old layout and copies of its nodes at their new places
(`HalfCopied`); while the old places are cleared, the complete new layout and
leftovers where it has free leaves (`HalfCleared`). Confinement holds position by
position, so every mix of old and new pages that a power loss keeps, and every
first part of a step's writes that a kill leaves, is confined as well. Two facts
of arithmetic carry the argument. The internal rows of a larger layout begin after
the end of the smaller one, so a copy never overwrites its source and the cleared
range contains only places that were copied. And a record's translated positions
are the places of its nodes in the current layout, so undoing all records leaves
the bootstrap's forest and redoing the forward ones the journal's, whatever part
of them the file had. `Resumable` says this of the sidecar in the cache and, when
there are power losses, of the one on the medium; the flushes between the stages
are what makes both true at once. That the binary search finds the number of
leaves follows from the leaves of a layout being a prefix of it.

### Hints file and parallel build

`BootstrapProofs`, for any chains that satisfy `ChainsAssumption`, any stop
heights, any number of workers and chasers, any sizes of chunks and batches and
any forest capacity (`GeneratorAssumption`, `BuildAssumption`, `ShiftAssumption`),
and for the whole specification, steady state included:

| Theorem | States |
|---|---|
| `BootstrapInductive` | `Spec => []BootstrapInv` |
| `HintsExact` | `Spec => []HintsAreUtxos` |
| `BuildHasOneWriter` | `Spec => []OneWriter` |
| `BuiltIsReference` | `Spec => []BuiltForest` |

`GeneratorInv` follows the scan: after n blocks, `utxos` has an entry for exactly
those leaves of the first n blocks that no later one of them spends and that are
not shadowed, with the height and index of each (`Scanned`). The step that needs
`ChainsAssumption` is an output that is created again: the tool removes by name,
so an output spent in its own block must not share the name of an older leaf. At
the last block this is the definition of the file, and the temporary file holds
all of it before the rename can be reached, in the cache and in all that a power
loss may leave.

`BuildInv` does not say what has been written, which depends on the order of the
threads, but what is left: the positions of heights that no worker has claimed, of
the rest of each worker's range (`LeavesLeft`), and of all tasks that each chaser
has before it (`ParentsLeft`) are unset. A chaser's tasks are the parents of the
chunks that are dealt to it, chunk number modulo the number of chasers, in the
order of rows and then parents (`Task`, `Above`); two chasers share none, because
chunks of a row are disjoint and their residues differ. That two tasks are at two
positions is the arithmetic of `ForestPositionProofs`; that two leaves are, is that
`leaf_offset` adds up the counts of the blocks below. Every step takes one position
away from the work that is left, and writes only there.

`ValueInv` does say what has been written, and is independent of `BuildInv`: the
compare-and-exchange of `FlatForest::write` alone keeps a node from being replaced.
With the chain's own counts, every node that is there is the reference's
(`Values`): a leaf because the next hint of its worker is the first that is not
below the leaf (`NextHint`, from the hints being in increasing order), a parent
because both children were found and nodes never change. `Claims` is why a build
that is declared complete has the chain's counts at all: a claimed height whose
count differs is still in some worker's range, or a worker has failed, and workers
end only when no height is left. The reference tree is a recursive function of row
and offset; that it has a solution is an induction over rows (`TreeExists`).

### Only model-checked

* Liveness (`CatchesUp`, `BuildEnds`, `ProverCatchesUp`, `EvictedAreClosed`,
  `HandshakesEnd`, `StoppedAreReclaimed`), which is out of the proof system's reach.
* `Persistence` after a loss of stored data, or after a P2P thread has stored a
  header, beyond the first four theorems. What remains true after one loss
  (`RecoveredIsServed` in `persistence_live`) depends on when the next stop comes.
* The journal under kills (`journal_kill`): the proofs are about power losses,
  where what a process finds is what the medium holds.
* `ForestResize` with kills and power losses in one behaviour is neither checked
  nor proved: section 2 says how it fails there.
* `BuiltIndex` and `OwnFileAccepted` of `ParallelBuild`, and the invariants of
  `BlockProver` with its types. They say that what many steps have written is what
  folds and recursive functions over the data of the blocks compute. Induction is
  possible over numbers (every nonempty set of them has a least element) and along
  the block tree, and the proofs use both, but not for the operators that take an
  operator as a parameter, of which planning, `compressed_hash` and the reference
  accumulator are made.

## 5. Plan

1. `Persistence` after a loss: which of its theorems survive a loss that is
   followed by an undisturbed recovery.
2. `OwnFileAccepted`: the invariant of section 4 extended by what each thread has
   already written, published and indexed.

## 6. Not modelled

* The peer protocol (handshake phases and size budgets, rate limiter,
  edge-triggered readiness, partial writes) and the message codec. Their outcomes
  appear in `PeerServer`, their accesses to the stores in `Persistence`.
* Which headers a `getheaders` answer contains, and the chain view cache behind
  it: they change no store. A stale entry of the cache is listed as a hazard.
* The memory limit of the Pollard cache: what is evicted is read from the forest
  again.
* Compaction and hashed keys of the leaf map, and the runtime database behind it,
  a library; collisions of sixteen-byte prefixes are neglected.
* Crash recovery of the builder: there is none in the code, a stopped build is
  removed and started again.
* The one-time import of legacy journals and the gap roll back of their records.
* Byte encodings (`udata.rs`, journal entries, Elias-Fano hints), RPC clients, the
  command line, logging and timers: pure or sequential code with round-trip
  tests.
