--------------------------- MODULE ForestJournal ---------------------------
(***************************************************************************)
(* The write-ahead log of the bridge (forest_journal.rs): page-aligned     *)
(* records in one file, and a two-slot publication marker in another that  *)
(* says how far the log may be believed after a restart.                   *)
(*                                                                         *)
(* Each file exists twice: as the running system reads it (wal, slots, the *)
(* page cache) and as the medium holds it (disk, disk_slots).  A write     *)
(* changes the first, sync_data copies the first over the second, and a    *)
(* power loss keeps, of every write not yet synced, the old bytes, the new *)
(* ones or a mixture.  A killed process loses only its memory.             *)
(*                                                                         *)
(* Every record spans one page, and page 0 is the superblock, so a record  *)
(* is named by its offset p and ends at p + 1.                             *)
(***************************************************************************)
EXTENDS Naturals, FiniteSets

CONSTANTS Blocks,      \* block identities: hash, height and payload of a record
          NoBlock,     \* the identity in an empty boundary and in a non-record
          MaxRecords,  \* bound: records ever appended to the file
          MaxEpoch,    \* bound: discards of one process
          Keep,        \* forward records that pruning keeps
          CrashKinds   \* what may stop the process: "power", "kill"

ASSUME BlocksAssumption == NoBlock \notin Blocks
ASSUME BoundsAssumption ==
    /\ MaxRecords \in Nat \ {0}
    /\ MaxEpoch \in Nat
    /\ Keep \in Nat
ASSUME CrashAssumption == CrashKinds \subseteq {"power", "kill"}

VARIABLES
    wal, disk,          \* the record file: cached pages, and pages on the medium
    slots, disk_slots,  \* the two publication slots, cached and on the medium
    clean,              \* the clean-shutdown file exists (rename and directory sync)
    mode,               \* "down", "opening", "up", "refused" (open returned an error)
    records,            \* ForestJournal.records: offset -> in-memory record
    marker,             \* PublicationState.marker
    appended_end, published_end, epoch, poisoned,
    needs_replay,
    jpc, jarg,          \* the step of the journal lock's holder; the record it rolls back
    mpc, next,          \* the step of the marker lock's holder; the marker it installs
    submitted,          \* a boundary handed to the publisher
    pruning,            \* a detached JournalPrune
    shown               \* history: what records() last showed of every offset

file_vars == <<wal, disk, slots, disk_slots, clean>>
journal_vars == <<records, appended_end, epoch, needs_replay, jpc, jarg>>
publication_vars == <<marker, published_end, mpc, next, submitted, pruning>>
vars == <<wal, disk, slots, disk_slots, clean, mode, records, marker,
          appended_end, published_end, epoch, poisoned, needs_replay,
          jpc, jarg, mpc, next, submitted, pruning, shown>>

-----------------------------------------------------------------------------
(* Records, boundaries and markers *)

PageSize == 1
Pos == PageSize .. MaxRecords
End == PageSize .. MaxRecords + 1
Slot == {0, 1}

Forward == "forward"
RolledBack == "rolled_back"

\* A page holds a complete record, or is past the end of the file, partly
\* written (fails its checksum), or deallocated.
JournalRecord == [block : Blocks, status : {Forward, RolledBack}]
Absent == [block |-> NoBlock, status |-> "absent"]
Torn == [block |-> NoBlock, status |-> "torn"]
Hole == [block |-> NoBlock, status |-> "hole"]
Page == JournalRecord \cup {Absent, Torn, Hole}

IsRecord(page) == page.status \in {Forward, RolledBack}

\* A boundary names the end of a complete record and, by its block, the
\* height, hash and checksum of that record; the record starts at end - 1.
\* The journal identity is fixed, and the epoch is never stored on disk.
JournalBoundary == [epoch : 0 .. MaxEpoch, end : End, block : Blocks \cup {NoBlock}]
NoBoundary == [epoch |-> 0, end |-> 0, block |-> NoBlock]

PublicationMarker ==
    [generation : Nat, replay_start : End, end : End, block : Blocks \cup {NoBlock}]
\* A slot whose checksum does not match.
TornSlot == [generation |-> 0, replay_start |-> 0, end |-> 0, block |-> NoBlock]
NoPrune == [old_start |-> 0, replay_start |-> 0]

offset(b) == b.end - 1

\* File::set_len to a smaller length.
set_len(file, end) == [p \in Pos |-> IF p < end THEN file[p] ELSE Absent]

NoRecords == [p \in Pos |-> Absent]

\* ForestJournal::records: only published records are visible.
Visible == {p \in Pos : IsRecord(records[p]) /\ p + 1 <= published_end}

empty_boundary(e) == [epoch |-> e, end |-> PageSize, block |-> NoBlock]

record_boundary(p, e) == [epoch |-> e, end |-> p + 1, block |-> records[p].block]

\* ForestJournal::boundary: the last record in memory.
IsBoundary(b) ==
    LET held == {p \in Pos : IsRecord(records[p])} IN
    \/ held = {} /\ b = empty_boundary(epoch)
    \/ \E p \in held : /\ \A q \in held : q <= p
                       /\ b = record_boundary(p, epoch)

-----------------------------------------------------------------------------
(* Initial state: initialize_journal has installed an empty journal *)

FirstMarker(g) ==
    [generation |-> g, replay_start |-> PageSize, end |-> PageSize, block |-> NoBlock]

Init ==
    /\ wal = NoRecords
    /\ disk = NoRecords
    /\ slots = [i \in Slot |-> FirstMarker(i)]
    /\ disk_slots = [i \in Slot |-> FirstMarker(i)]
    /\ clean = FALSE
    /\ mode = "down"
    /\ records = NoRecords
    /\ marker = TornSlot
    /\ appended_end = PageSize /\ published_end = PageSize
    /\ epoch = 0
    /\ poisoned = FALSE
    /\ needs_replay = TRUE
    /\ jpc = "idle" /\ jarg = PageSize
    /\ mpc = "idle" /\ next = TornSlot
    /\ submitted = NoBoundary
    /\ pruning = NoPrune
    /\ shown = NoRecords

\* The process ends and its memory is gone.
process_ends ==
    /\ mode' = "down"
    /\ records' = NoRecords
    /\ marker' = TornSlot
    /\ appended_end' = PageSize /\ published_end' = PageSize
    /\ epoch' = 0
    /\ poisoned' = FALSE
    /\ needs_replay' = TRUE
    /\ jpc' = "idle" /\ jarg' = PageSize
    /\ mpc' = "idle" /\ next' = TornSlot
    /\ submitted' = NoBoundary
    /\ pruning' = NoPrune

-----------------------------------------------------------------------------
(* Opening *)

\* The structural checks on a slot whose checksum matches.
ValidBoundary(m, i) ==
    /\ m.generation % 2 = i
    /\ m.replay_start >= PageSize
    /\ m.end >= m.replay_start
    /\ m.end > PageSize => offset(m) >= m.replay_start

Checksummed(s) == {i \in Slot : s[i] # TornSlot}

MonotonicSlots(older, newer) ==
    /\ newer.end >= older.end
    /\ newer.replay_start >= older.replay_start
    /\ newer.end = older.end => newer.block = older.block

\* The slot that read_publication_marker selects: the newer of the two.
NewerSlot(s) ==
    IF s[0] = TornSlot THEN 1
    ELSE IF s[1] = TornSlot THEN 0
    ELSE IF s[0].generation < s[1].generation THEN 1 ELSE 0

SlotsReadable(s) ==
    /\ Checksummed(s) # {}
    /\ \A i \in Checksummed(s) : ValidBoundary(s[i], i)
    /\ Checksummed(s) = Slot => MonotonicSlots(s[1 - NewerSlot(s)], s[NewerSlot(s)])

\* Mutant: of two good slots the older one is returned.
read_publication_marker_older(s) ==
    IF Checksummed(s) = Slot THEN s[1 - NewerSlot(s)] ELSE s[NewerSlot(s)]

read_publication_marker(s) == s[NewerSlot(s)]

\* scan_published: every page from the floor to the end is a complete record,
\* and the last one is the record that the marker names.  A file shorter than
\* the marker's end shows up as an absent page.
PrefixValid(file, m) ==
    /\ \A p \in Pos : m.replay_start <= p /\ p < m.end => IsRecord(file[p])
    /\ IF m.replay_start < m.end
       THEN file[offset(m)].block = m.block
       ELSE m.end = PageSize /\ m.block = NoBlock

\* take_clean_shutdown_marker: the file is removed before anything is read.
open_take_clean ==
    /\ mode = "down"
    /\ mode' = "opening"
    /\ needs_replay' = ~clean
    /\ clean' = FALSE
    /\ UNCHANGED <<wal, disk, slots, disk_slots, records, appended_end, epoch,
                   poisoned, jpc, jarg, publication_vars, shown>>

\* The prefix is validated before the file is cut, and an invalid one is
\* refused with the file untouched.
open_scan ==
    LET m == read_publication_marker(slots) IN
    /\ mode = "opening"
    /\ IF SlotsReadable(slots) /\ PrefixValid(wal, m)
       THEN /\ mode' = "up"
            /\ wal' = set_len(wal, m.end)
            /\ records' = [p \in Pos |->
                             IF m.replay_start <= p /\ p < m.end THEN wal[p] ELSE Absent]
            /\ marker' = m
            /\ appended_end' = m.end
            /\ published_end' = m.end
            /\ shown' = [p \in Pos |->
                           IF p < m.replay_start THEN shown[p] ELSE records'[p]]
       ELSE /\ mode' = "refused"
            /\ UNCHANGED <<wal, records, marker, appended_end, published_end, shown>>
    /\ UNCHANGED <<disk, slots, disk_slots, clean, epoch, poisoned, needs_replay,
                   jpc, jarg, mpc, next, submitted, pruning>>

-----------------------------------------------------------------------------
(* Operations under the journal lock *)

JournalFree == mode = "up" /\ jpc = "idle"

\* write_record starts by extending the file, so a partly written record is
\* in the file until its last write.
append_begin ==
    /\ JournalFree
    /\ ~poisoned
    /\ appended_end <= MaxRecords
    /\ wal' = [wal EXCEPT ![appended_end] = Torn]
    /\ jpc' = "append"
    /\ UNCHANGED <<disk, slots, disk_slots, clean, mode, records, appended_end,
                   epoch, poisoned, needs_replay, jarg, publication_vars, shown>>

append_end(b) ==
    LET record == [block |-> b, status |-> Forward] IN
    /\ mode = "up" /\ jpc = "append"
    /\ wal' = [wal EXCEPT ![appended_end] = record]
    /\ records' = [records EXCEPT ![appended_end] = record]
    /\ appended_end' = appended_end + 1
    /\ needs_replay' = TRUE
    /\ jpc' = "idle"
    /\ UNCHANGED <<disk, slots, disk_slots, clean, mode, epoch, poisoned, jarg,
                   publication_vars, shown>>

\* A failed write is removed by set_len; if that fails too the journal is
\* poisoned and the partial record stays.
append_fail ==
    /\ mode = "up" /\ jpc = "append"
    /\ \/ wal' = set_len(wal, appended_end) /\ UNCHANGED poisoned
       \/ poisoned' = TRUE /\ UNCHANGED wal
    /\ jpc' = "idle"
    /\ UNCHANGED <<disk, slots, disk_slots, clean, mode, records, appended_end,
                   epoch, needs_replay, jarg, publication_vars, shown>>

\* flush: data only; nothing is published.
flush ==
    /\ JournalFree
    /\ disk' = wal
    /\ UNCHANGED <<wal, slots, disk_slots, clean, mode, journal_vars, poisoned,
                   publication_vars, shown>>

MarkerFree == mode = "up" /\ mpc \in {"idle", "punch"}

\* Mutant: a failed publication does not stop a discard.
discard_unpublished_poisoned ==
    /\ JournalFree /\ MarkerFree
    /\ epoch < MaxEpoch
    /\ wal' = set_len(wal, marker.end)
    /\ records' = set_len(records, marker.end)
    /\ appended_end' = marker.end
    /\ epoch' = epoch + 1
    /\ UNCHANGED <<disk, slots, disk_slots, clean, mode, poisoned, needs_replay,
                   jpc, jarg, publication_vars, shown>>

discard_unpublished ==
    /\ JournalFree /\ MarkerFree
    /\ ~poisoned
    /\ epoch < MaxEpoch
    /\ wal' = set_len(wal, marker.end)
    /\ records' = set_len(records, marker.end)
    /\ appended_end' = marker.end
    /\ epoch' = epoch + 1
    /\ UNCHANGED <<disk, slots, disk_slots, clean, mode, poisoned, needs_replay,
                   jpc, jarg, publication_vars, shown>>

\* The status byte is written, then flushed.
mark_rolled_back_begin(p) ==
    /\ JournalFree
    /\ ~poisoned
    /\ appended_end = published_end
    /\ p \in Visible
    /\ wal' = [wal EXCEPT ![p].status = RolledBack]
    /\ jpc' = "roll_back" /\ jarg' = p
    /\ UNCHANGED <<disk, slots, disk_slots, clean, mode, records, appended_end,
                   epoch, poisoned, needs_replay, publication_vars, shown>>

\* Mutant: the status byte is not flushed.
mark_rolled_back_end_unsynced ==
    /\ mode = "up" /\ jpc = "roll_back"
    /\ records' = [records EXCEPT ![jarg].status = RolledBack]
    /\ shown' = [shown EXCEPT ![jarg].status = RolledBack]
    /\ needs_replay' = TRUE
    /\ jpc' = "idle" /\ jarg' = PageSize
    /\ UNCHANGED <<file_vars, mode, appended_end, epoch, poisoned, publication_vars>>

mark_rolled_back_end ==
    /\ mode = "up" /\ jpc = "roll_back"
    /\ disk' = wal
    /\ records' = [records EXCEPT ![jarg].status = RolledBack]
    /\ shown' = [shown EXCEPT ![jarg].status = RolledBack]
    /\ needs_replay' = TRUE
    /\ jpc' = "idle" /\ jarg' = PageSize
    /\ UNCHANGED <<wal, slots, disk_slots, clean, mode, appended_end, epoch,
                   poisoned, publication_vars>>

mark_rolled_back_fail ==
    /\ mode = "up" /\ jpc = "roll_back"
    /\ poisoned' = TRUE
    /\ jpc' = "idle" /\ jarg' = PageSize
    /\ UNCHANGED <<file_vars, mode, records, appended_end, epoch, needs_replay,
                   publication_vars, shown>>

\* prepare_prune: keep the last Keep forward records and all that follow
\* them; the records before that are dropped from memory.
prepare_prune ==
    LET forward == {p \in Visible : records[p].status = Forward}
        kept == IF Keep = 0 THEN 1 ELSE Keep
    IN
    /\ JournalFree
    /\ mpc = "idle" /\ pruning = NoPrune
    /\ ~poisoned
    /\ \E cut \in forward :
         /\ Cardinality({q \in forward : q >= cut}) = kept
         /\ \E p \in Visible : p < cut
         /\ pruning' = [old_start |-> 0, replay_start |-> cut]
         /\ records' = [p \in Pos |-> IF p < cut THEN Absent ELSE records[p]]
    /\ UNCHANGED <<file_vars, mode, marker, appended_end, published_end, epoch,
                   poisoned, needs_replay, jpc, jarg, mpc, next, submitted, shown>>

\* Mutant: a failed publication may be certified clean.
mark_clean_shutdown_poisoned ==
    /\ JournalFree /\ mpc = "idle"
    /\ appended_end = published_end
    /\ clean' = TRUE
    /\ process_ends
    /\ UNCHANGED <<wal, disk, slots, disk_slots, shown>>

\* mark_clean_shutdown; the persistence worker exits after it.
mark_clean_shutdown ==
    /\ JournalFree /\ mpc = "idle"
    /\ ~poisoned
    /\ appended_end = published_end
    /\ clean' = TRUE
    /\ process_ends
    /\ UNCHANGED <<wal, disk, slots, disk_slots, shown>>

-----------------------------------------------------------------------------
(* JournalPublisher::publish *)

submit(b) ==
    /\ JournalFree
    /\ submitted = NoBoundary
    /\ IsBoundary(b)
    /\ submitted' = b
    /\ UNCHANGED <<file_vars, mode, journal_vars, marker, published_end, poisoned,
                   mpc, next, pruning, shown>>

StaleBoundary(b) ==
    \/ b.epoch # epoch
    \/ b.end < marker.end
    \/ b.end > appended_end

\* validate_boundary: the captured end is the end of that very record.
BoundaryRecorded(b) ==
    /\ offset(b) \in Pos
    /\ IsRecord(wal[offset(b)])
    /\ wal[offset(b)].block = b.block

\* The calls that change nothing: refused, or already published.
publish_return ==
    /\ mode = "up" /\ mpc = "idle"
    /\ submitted # NoBoundary
    /\ \/ poisoned
       \/ StaleBoundary(submitted)
       \/ submitted.end = marker.end
       \/ ~BoundaryRecorded(submitted)
    /\ submitted' = NoBoundary
    /\ UNCHANGED <<file_vars, mode, journal_vars, marker, published_end, poisoned,
                   mpc, next, pruning, shown>>

publish_begin ==
    /\ mode = "up" /\ mpc = "idle"
    /\ submitted # NoBoundary
    /\ ~poisoned
    /\ ~StaleBoundary(submitted)
    /\ submitted.end # marker.end
    /\ BoundaryRecorded(submitted)
    /\ next' = [generation |-> marker.generation + 1,
                replay_start |-> marker.replay_start,
                end |-> submitted.end,
                block |-> submitted.block]
    /\ mpc' = "publish_flush"
    /\ submitted' = NoBoundary
    /\ UNCHANGED <<file_vars, mode, journal_vars, marker, published_end, poisoned,
                   pruning, shown>>

\* Mutant: the marker is written without flushing the records first.
FlushedData_unsynced == disk

\* What the medium holds of the record file after sync_data.
FlushedData == wal

publish_flush ==
    /\ mode = "up" /\ mpc = "publish_flush"
    /\ disk' = FlushedData
    /\ mpc' = "publish_write"
    /\ UNCHANGED <<wal, slots, disk_slots, clean, mode, journal_vars, marker,
                   published_end, poisoned, next, submitted, pruning, shown>>

\* Mutant: one slot only.
slot_of_single(m) == 0

\* encode_publication_marker and the write into the slot of its generation.
slot_of(m) == m.generation % 2

write_publication_marker(from, to) ==
    /\ mode = "up" /\ mpc = from
    /\ slots' = [slots EXCEPT ![slot_of(next)] = next]
    /\ mpc' = to
    /\ UNCHANGED <<wal, disk, disk_slots, clean, mode, journal_vars, marker,
                   published_end, poisoned, next, submitted, pruning, shown>>

publish_write == write_publication_marker("publish_write", "publish_sync")

\* Mutant: the published end is taken one record too far.
publish_sync_off_by_one ==
    /\ mode = "up" /\ mpc = "publish_sync"
    /\ disk_slots' = slots
    /\ marker' = next
    /\ published_end' = next.end + 1
    /\ shown' = [p \in Pos |-> IF published_end <= p /\ p < next.end
                               THEN records[p] ELSE shown[p]]
    /\ mpc' = "idle" /\ next' = TornSlot
    /\ UNCHANGED <<wal, disk, slots, clean, mode, journal_vars, poisoned,
                   submitted, pruning>>

\* Mutant: the boundary is announced before the slot is flushed.
publish_sync_unflushed ==
    /\ mode = "up" /\ mpc = "publish_sync"
    /\ marker' = next
    /\ published_end' = next.end
    /\ shown' = [p \in Pos |-> IF published_end <= p /\ p < next.end
                               THEN records[p] ELSE shown[p]]
    /\ mpc' = "idle" /\ next' = TornSlot
    /\ UNCHANGED <<file_vars, mode, journal_vars, poisoned, submitted, pruning>>

publish_sync ==
    /\ mode = "up" /\ mpc = "publish_sync"
    /\ disk_slots' = slots
    /\ marker' = next
    /\ published_end' = next.end
    /\ shown' = [p \in Pos |-> IF published_end <= p /\ p < next.end
                               THEN records[p] ELSE shown[p]]
    /\ mpc' = "idle" /\ next' = TornSlot
    /\ UNCHANGED <<wal, disk, slots, clean, mode, journal_vars, poisoned,
                   submitted, pruning>>

-----------------------------------------------------------------------------
(* JournalPrune::finish *)

prune_return ==
    /\ mode = "up" /\ mpc = "idle"
    /\ pruning # NoPrune
    /\ \/ poisoned
       \/ pruning.replay_start <= marker.replay_start
       \/ pruning.replay_start > offset(marker)
    /\ pruning' = NoPrune
    /\ UNCHANGED <<file_vars, mode, journal_vars, marker, published_end, poisoned,
                   mpc, next, submitted, shown>>

prune_begin ==
    /\ mode = "up" /\ mpc = "idle"
    /\ pruning # NoPrune
    /\ ~poisoned
    /\ pruning.replay_start > marker.replay_start
    /\ pruning.replay_start <= offset(marker)
    /\ next' = [marker EXCEPT !.generation = @ + 1,
                              !.replay_start = pruning.replay_start]
    /\ pruning' = [pruning EXCEPT !.old_start = marker.replay_start]
    /\ mpc' = "floor_write"
    /\ UNCHANGED <<file_vars, mode, journal_vars, marker, published_end, poisoned,
                   submitted, shown>>

floor_write == write_publication_marker("floor_write", "floor_sync")

\* Mutant: the prefix is reclaimed with the old floor still in one slot.
floor_sync_punches ==
    /\ mode = "up" /\ mpc = "floor_sync"
    /\ disk_slots' = slots
    /\ marker' = next
    /\ mpc' = "punch" /\ next' = TornSlot
    /\ UNCHANGED <<wal, disk, slots, clean, mode, journal_vars, published_end,
                   poisoned, submitted, pruning, shown>>

\* The first slot has the new floor; the second one, which a reader falls back
\* to, is rewritten before the prefix may go.
floor_sync ==
    /\ mode = "up" /\ mpc = "floor_sync"
    /\ disk_slots' = slots
    /\ marker' = next
    /\ next' = [next EXCEPT !.generation = @ + 1]
    /\ mpc' = "fallback_write"
    /\ UNCHANGED <<wal, disk, slots, clean, mode, journal_vars, published_end,
                   poisoned, submitted, pruning, shown>>

fallback_write == write_publication_marker("fallback_write", "fallback_sync")

fallback_sync ==
    /\ mode = "up" /\ mpc = "fallback_sync"
    /\ disk_slots' = slots
    /\ marker' = next
    /\ mpc' = "punch" /\ next' = TornSlot
    /\ UNCHANGED <<wal, disk, slots, clean, mode, journal_vars, published_end,
                   poisoned, submitted, pruning, shown>>

\* fallocate(PUNCH_HOLE); a file system without it keeps the pages.
punch ==
    /\ mode = "up" /\ mpc = "punch"
    /\ \/ wal' = [p \in Pos |-> IF pruning.old_start <= p /\ p < pruning.replay_start
                                THEN Hole ELSE wal[p]]
       \/ UNCHANGED wal
    /\ mpc' = "idle" /\ pruning' = NoPrune
    /\ UNCHANGED <<disk, slots, disk_slots, clean, mode, journal_vars, marker,
                   published_end, poisoned, next, submitted, shown>>

\* Any write or sync of publish or finish may fail: the slot may be partly
\* written, nobody knows what reached the medium, and the journal is poisoned until it is reopened.
publication_fail ==
    /\ mode = "up"
    /\ mpc \notin {"idle", "punch"}
    /\ \/ UNCHANGED slots
       \/ /\ mpc \in {"publish_write", "floor_write", "fallback_write"}
          /\ slots' = [slots EXCEPT ![slot_of(next)] = TornSlot]
    /\ poisoned' = TRUE
    /\ mpc' = "idle" /\ next' = TornSlot /\ pruning' = NoPrune
    /\ UNCHANGED <<wal, disk, disk_slots, clean, mode, journal_vars, marker,
                   published_end, submitted, shown>>

-----------------------------------------------------------------------------
(* The environment: write-back, crashes *)

\* What a power loss leaves of a write that was not synced.  A status byte is
\* a single byte and cannot be torn.
Outcomes == {"old", "new", "torn"}

PageAfter(old, new, outcome) ==
    IF outcome = "old" THEN old
    ELSE IF outcome = "new" \/ old = new THEN new
    ELSE IF IsRecord(old) /\ IsRecord(new) /\ old.block = new.block THEN old
    ELSE Torn

SlotAfter(old, new, outcome) ==
    IF outcome = "old" THEN old
    ELSE IF outcome = "new" \/ old = new THEN new
    ELSE TornSlot

DirtyPages == {p \in Pos : disk[p] # wal[p]}
DirtySlots == {i \in Slot : disk_slots[i] # slots[i]}

\* The kernel writes a dirty page back whenever it likes.
write_back(p) ==
    /\ "power" \in CrashKinds
    /\ p \in DirtyPages
    /\ disk' = [disk EXCEPT ![p] = wal[p]]
    /\ UNCHANGED <<wal, slots, disk_slots, clean, mode, journal_vars,
                   publication_vars, poisoned, shown>>

power_loss ==
    /\ "power" \in CrashKinds
    /\ mode # "refused"
    /\ \E kept \in [DirtyPages -> Outcomes] :
         wal' = [p \in Pos |-> IF p \in DirtyPages
                               THEN PageAfter(disk[p], wal[p], kept[p]) ELSE wal[p]]
    /\ \E kept \in [DirtySlots -> Outcomes] :
         slots' = [i \in Slot |-> IF i \in DirtySlots
                                  THEN SlotAfter(disk_slots[i], slots[i], kept[i])
                                  ELSE slots[i]]
    /\ disk' = wal'
    /\ disk_slots' = slots'
    /\ process_ends
    /\ UNCHANGED <<clean, shown>>

kill ==
    /\ "kill" \in CrashKinds
    /\ mode \in {"opening", "up"}
    /\ process_ends
    /\ UNCHANGED <<file_vars, shown>>

-----------------------------------------------------------------------------

Opening == open_take_clean \/ open_scan

JournalStep ==
    \/ append_begin
    \/ \E b \in Blocks : append_end(b)
    \/ append_fail \/ flush \/ discard_unpublished
    \/ \E p \in Pos : mark_rolled_back_begin(p)
    \/ mark_rolled_back_end \/ mark_rolled_back_fail
    \/ prepare_prune \/ mark_clean_shutdown
    \/ \E b \in JournalBoundary : submit(b)

PublisherStep ==
    \/ publish_return \/ publish_begin \/ publish_flush \/ publish_write \/ publish_sync
    \/ prune_return \/ prune_begin \/ floor_write \/ floor_sync
    \/ fallback_write \/ fallback_sync \/ punch
    \/ publication_fail

Environment == (\E p \in Pos : write_back(p)) \/ power_loss \/ kill

Next == Opening \/ JournalStep \/ PublisherStep \/ Environment

Spec == Init /\ [][Next]_vars

-----------------------------------------------------------------------------
(* Properties *)

TypeOK ==
    /\ wal \in [Pos -> Page] /\ disk \in [Pos -> Page]
    /\ slots \in [Slot -> PublicationMarker \cup {TornSlot}]
    /\ disk_slots \in [Slot -> PublicationMarker \cup {TornSlot}]
    /\ clean \in BOOLEAN
    /\ mode \in {"down", "opening", "up", "refused"}
    /\ records \in [Pos -> JournalRecord \cup {Absent}]
    /\ marker \in PublicationMarker \cup {TornSlot}
    /\ appended_end \in End /\ published_end \in End
    /\ epoch \in 0 .. MaxEpoch
    /\ poisoned \in BOOLEAN /\ needs_replay \in BOOLEAN
    /\ jpc \in {"idle", "append", "roll_back"} /\ jarg \in Pos
    /\ mpc \in {"idle", "publish_flush", "publish_write", "publish_sync", "floor_write",
                "floor_sync", "fallback_write", "fallback_sync", "punch"}
    /\ next \in PublicationMarker \cup {TornSlot}
    /\ submitted \in JournalBoundary \cup {NoBoundary}
    /\ pruning \in [old_start : 0 .. MaxRecords + 1, replay_start : 0 .. MaxRecords + 1]
    /\ shown \in [Pos -> JournalRecord \cup {Absent}]

\* No crash at any point of append, publish, roll back, discard or prune leaves
\* files that open refuses: a readable slot always exists, the two slots never
\* contradict each other, and every page between floor and end is a record.
ReopenNeverRefused == mode # "refused"

\* Whatever a power loss at this instant keeps of the unsynced writes, the
\* journal reopens at or after the last boundary it acknowledged; every record
\* up to there is the acknowledged one and an acknowledged roll back stays;
\* and what recovery adds is what the producer had appended, which is the
\* whole point of the order data flush, marker write, marker flush.
CrashSafe ==
    \A outcome \in [Slot -> Outcomes] :
        LET s == [i \in Slot |-> SlotAfter(disk_slots[i], slots[i], outcome[i])]
            m == read_publication_marker(s)
        IN  /\ SlotsReadable(s)
            /\ \A p \in Pos : p >= m.end => shown[p] = Absent
            /\ \A p \in Pos, o \in Outcomes :
                 LET page == PageAfter(disk[p], wal[p], o) IN
                 m.replay_start <= p /\ p < m.end =>
                     /\ IsRecord(page)
                     /\ shown[p] # Absent => /\ page.block = shown[p].block
                                             /\ shown[p].status = RolledBack =>
                                                   page.status = RolledBack
                     /\ shown[p] = Absent /\ mode = "up" => page = records[p]
                     /\ p = offset(m) => page.block = m.block

\* No page that may have been deallocated lies above the floor of any slot
\* that a reader could select, the older one included.
FloorsExcludeHoles ==
    \A i \in Slot, p \in Pos :
        wal[p] = Hole \/ disk[p] = Hole =>
            \A m \in {slots[i], disk_slots[i]} : m # TornSlot => p < m.replay_start

\* The clean-shutdown file lets the next start skip replay, so it may exist
\* only while the files cannot show anything but what records() showed when it
\* was written: no publication or roll back of unknown outcome, no tail.
CleanMeansApplied ==
    clean => \A outcome \in [Slot -> Outcomes] :
        LET s == [i \in Slot |-> SlotAfter(disk_slots[i], slots[i], outcome[i])]
            m == read_publication_marker(s)
        IN  \A p \in Pos, o \in Outcomes :
                m.replay_start <= p /\ p < m.end => PageAfter(disk[p], wal[p], o) = shown[p]

\* Every record that records() shows is recovered even if power is lost now:
\* "published" means durable, and only published entries are visible.
VisibleIsDurable ==
    \A outcome \in [Slot -> Outcomes] :
        LET s == [i \in Slot |-> SlotAfter(disk_slots[i], slots[i], outcome[i])] IN
        mode = "up" => /\ SlotsReadable(s)
                       /\ read_publication_marker(s).end >= published_end

Log == INSTANCE PublishedLog WITH log <- shown

\* What the journal shows its users is an append-only log whose records can
\* only change from forward to rolled back, across discards, failed syncs,
\* crashes and recoveries.
ImplementsPublishedLog == Log!Spec
=============================================================================
