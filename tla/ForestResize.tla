---------------------------- MODULE ForestResize ----------------------------
(***************************************************************************)
(* Growth of the flat forest file (parallel_forest.rs, FlatForest and      *)
(* SteadyStateForest): when a block does not fit, the file is extended,    *)
(* every internal row is copied to its place in the larger layout, and the *)
(* positions that become leaves are cleared.  A sidecar file remembers how *)
(* far that got, and opening the forest resumes it.  Journal records keep  *)
(* the positions of the layout they were planned in, so a replay or a roll *)
(* back after a resize translates them.                                    *)
(*                                                                         *)
(* The content of a node is its name <<row, index>>: what the hashes are   *)
(* does not matter to where they are.  A block adds leaves.  All records   *)
(* of the model are retained by the journal.  A power loss keeps, for each *)
(* page of the file, one of the contents it had since the last sync.       *)
(***************************************************************************)
EXTENDS ForestPositions, Sequences, FiniteSets

CONSTANTS InitialRows,    \* layout that the bootstrap built
          MaxRows,        \* bound: rows of the largest layout
          Additions,      \* numbers of leaves that a block may add
          PageNodes,      \* positions per page of the file, the unit of a lost write
          MaxRecords,     \* bound: journal records
          MaxStops,       \* bound: kills, failures and power losses
          CrashMixes      \* the kinds of crash that one behaviour may have

ASSUME RowsAssumption ==
    InitialRows \in Nat /\ MaxRows \in Nat /\ InitialRows <= MaxRows /\ MaxRows + 1 <= MaxShift
ASSUME LimitsAssumption ==
    /\ Additions \subseteq Nat \ {0}
    /\ PageNodes \in Nat \ {0}
    /\ MaxRecords \in Nat /\ MaxStops \in Nat
ASSUME CrashAssumption == CrashMixes \subseteq SUBSET {"kill", "power"}

VARIABLES
    file,                  \* position -> node, as the mapping shows it
    disk,                  \* page -> the contents that a power loss may leave there
    file_rows, disk_rows,  \* length of the file, as rows: cached and on the medium
    marker, disk_marker,   \* the forest.resize sidecar: cached and on the medium
    base, log,             \* leaves built by the bootstrap; journal records
    pc,                    \* step of the worker, or of opening
    rows, leaves,          \* FlatForest.node_count (as rows), SteadyStateForest.leaves
    new_rows,              \* layout that is being grown to
    undoing,               \* record that is being rolled back
    needs_replay,          \* the last process did not shut down cleanly
    crashes,               \* the kinds of crash of this behaviour
    stops

file_vars == <<file, disk, file_rows, disk_rows>>
marker_vars == <<marker, disk_marker>>
memory_vars == <<rows, leaves, new_rows, undoing>>
run_vars == <<base, needs_replay, crashes, stops>>
vars == <<file_vars, marker_vars, memory_vars, run_vars, log, pc>>

-----------------------------------------------------------------------------
(* Nodes and layouts *)

Zero == <<-1, -1>>
Pos == 0 .. forest_capacity(MaxRows) - 1
Rows == 0 .. MaxRows
Capacity(r) == Pow2[r]

\* The nodes of a forest with n leaves: the roots of all full subtrees.
Nodes(n) ==
    {node \in Rows \X (0 .. Capacity(MaxRows) - 1) : (node[2] + 1) * Pow2[node[1]] <= n}

place(node, r) == start_position_at_row(node[1], r) + node[2]

\* The file that holds exactly the forest with n leaves in r rows.
Layout(n, r) ==
    [p \in Pos |-> IF \E node \in Nodes(n) : place(node, r) = p
                   THEN CHOOSE node \in Nodes(n) : place(node, r) = p
                   ELSE Zero]

\* A synced file; and what a write adds to the medium before the next sync.
PageOf(p) == p \div PageNodes + 1
Pages == 1 .. PageOf(forest_capacity(MaxRows) - 1)
Content(f, g) == [p \in {q \in Pos : PageOf(q) = g} |-> f[p]]
OnDisk(f) == [g \in Pages |-> {Content(f, g)}]
Write(f) == file' = f /\ disk' = [g \in Pages |-> disk[g] \cup {Content(f, g)}]

\* A journal record: the leaves before and after it, and its layout.
Record(from, to, r) == [from |-> from, to |-> to, rows |-> r, forward |-> TRUE]
ForwardRecords == {i \in 1 .. Len(log) : log[i].forward}
latest_forward == CHOOSE i \in ForwardRecords : \A j \in ForwardRecords : j <= i

\* The leaves that the journal says the forest has.
Expected == IF ForwardRecords = {} THEN base ELSE log[latest_forward].to

NewNodes(record) == Nodes(record.to) \ Nodes(record.from)

\* journal_position: where a node of a record is in the current layout.
journal_position(record, node) ==
    translate_position(place(node, record.rows), record.rows, rows)

\* The writes of records: a position of the current layout and the node there.
Deltas(records) ==
    UNION {{<<journal_position(log[i], node), node>> : node \in NewNodes(log[i])} : i \in records}

\* set_journal_state over the deltas, with the states after or before a record.
Applied(f, records) ==
    [p \in Pos |-> IF \E d \in Deltas(records) : d[1] = p
                   THEN (CHOOSE d \in Deltas(records) : d[1] = p)[2]
                   ELSE f[p]]

Undone(f, records) ==
    [p \in Pos |-> IF \E d \in Deltas(records) : d[1] = p THEN Zero ELSE f[p]]

-----------------------------------------------------------------------------
(* The sidecar *)

Copying == "copying"
Clearing == "clearing"
NoMarker == [old_rows |-> 0, new_rows |-> 0, stage |-> "absent"]
EmptyMarker == [old_rows |-> 0, new_rows |-> 0, stage |-> "empty"]
ResizeMarker(old, new, stage) == [old_rows |-> old, new_rows |-> new, stage |-> stage]

Init ==
    /\ base \in 1 .. Capacity(InitialRows)
    /\ file = Layout(base, InitialRows) /\ disk = OnDisk(file)
    /\ file_rows = InitialRows /\ disk_rows = InitialRows
    /\ marker = NoMarker /\ disk_marker = NoMarker
    /\ log = << >>
    /\ pc = "down"
    /\ rows = 0 /\ leaves = 0 /\ new_rows = 0 /\ undoing = 0
    /\ needs_replay = TRUE
    /\ crashes \in CrashMixes
    /\ stops = 0

-----------------------------------------------------------------------------
(* Blocks *)

\* The forest grows only if it cannot hold the leaves, and then to fit them.
ensure_leaf_capacity(required_leaves) ==
    /\ required_leaves > Capacity(rows)
    /\ new_rows' = tree_rows(required_leaves)
    /\ pc' = "marker_create"
    /\ UNCHANGED log

\* ensure_forest_capacity, or the durable journal record of a block that fits.
prove_block(additions) ==
    LET to == leaves + additions IN
    /\ pc = "up"
    /\ to <= Capacity(MaxRows)
    /\ \/ ensure_leaf_capacity(to)
       \/ /\ to <= Capacity(rows) /\ Len(log) < MaxRecords
          /\ log' = Append(log, Record(leaves, to, rows))
          /\ pc' = "apply"
          /\ UNCHANGED new_rows
    /\ UNCHANGED <<file_vars, marker_vars, rows, leaves, undoing, run_vars>>

apply_forward ==
    /\ pc = "apply"
    /\ Write(Applied(file, {Len(log)}))
    /\ leaves' = log[Len(log)].to
    /\ pc' = "sync"
    /\ UNCHANGED <<file_rows, disk_rows, marker_vars, rows, new_rows, undoing, run_vars, log>>

\* The roll back of the newest block: marked in the journal, then undone.
mark_rolled_back ==
    /\ pc = "up"
    /\ ForwardRecords # {}
    /\ log' = [log EXCEPT ![latest_forward].forward = FALSE]
    /\ undoing' = latest_forward
    /\ pc' = "unapply"
    /\ UNCHANGED <<file_vars, marker_vars, rows, leaves, new_rows, run_vars>>

apply_backward ==
    /\ pc = "unapply"
    /\ Write(Undone(file, {undoing}))
    /\ leaves' = log[undoing].from
    /\ pc' = "sync"
    /\ UNCHANGED <<file_rows, disk_rows, marker_vars, rows, new_rows, undoing, run_vars, log>>

SyncForest == disk' = OnDisk(file) /\ disk_rows' = file_rows /\ UNCHANGED <<file, file_rows>>

sync ==
    /\ pc = "sync"
    /\ SyncForest
    /\ pc' = "up"
    /\ UNCHANGED <<marker_vars, memory_vars, run_vars, log>>

-----------------------------------------------------------------------------
(* FlatForest::resize_to_rows and resume_resize *)

\* write_resize_marker: create_new, write, sync of the file and its directory.
marker_create ==
    /\ pc = "marker_create"
    /\ marker' = EmptyMarker
    /\ pc' = "marker_write"
    /\ UNCHANGED <<file_vars, disk_marker, memory_vars, run_vars, log>>

marker_write ==
    /\ pc = "marker_write"
    /\ marker' = ResizeMarker(rows, new_rows, Copying)
    /\ pc' = "marker_sync"
    /\ UNCHANGED <<file_vars, disk_marker, memory_vars, run_vars, log>>

SyncMarker == disk_marker' = marker /\ UNCHANGED marker

marker_sync ==
    /\ pc = "marker_sync"
    /\ SyncMarker
    /\ pc' = "grow"
    /\ UNCHANGED <<file_vars, memory_vars, run_vars, log>>

\* grow_mapping: flush and set_len, unless an interrupted resize got that far.
grow ==
    /\ pc = "grow"
    /\ disk' = IF rows = marker.old_rows THEN OnDisk(file) ELSE disk
    /\ file_rows' = marker.new_rows
    /\ pc' = "allocate"
    /\ UNCHANGED <<file, disk_rows, marker_vars, memory_vars, run_vars, log>>

\* posix_fallocate, then the new mapping.
allocate ==
    /\ pc = "allocate"
    /\ rows' = marker.new_rows
    /\ pc' = "copy"
    /\ UNCHANGED <<file_vars, marker_vars, leaves, new_rows, undoing, run_vars, log>>

\* The nodes that get a new position: all rows but the leaves'.
Moved(m) == {node \in (1 .. m.old_rows) \X (0 .. Capacity(m.old_rows) - 1) :
               node[2] < Pow2[m.old_rows - node[1]]}

Copied(m) ==
    [p \in Pos |->
       IF \E node \in Moved(m) : place(node, m.new_rows) = p
       THEN file[place(CHOOSE node \in Moved(m) : place(node, m.new_rows) = p, m.old_rows)]
       ELSE file[p]]

copy_internal_rows ==
    /\ pc = "copy"
    /\ Write(Copied(marker))
    /\ pc' = "copy_sync"
    /\ UNCHANGED <<file_rows, disk_rows, marker_vars, memory_vars, run_vars, log>>

\* Mutant: the stage is advanced before the copies are on the medium.
copy_sync_skipped ==
    /\ pc = "copy_sync"
    /\ pc' = "stage_write"
    /\ UNCHANGED <<file_vars, marker_vars, memory_vars, run_vars, log>>

copy_sync ==
    /\ pc = "copy_sync"
    /\ SyncForest
    /\ pc' = "stage_write"
    /\ UNCHANGED <<marker_vars, memory_vars, run_vars, log>>

update_resize_marker_stage ==
    /\ pc = "stage_write"
    /\ marker' = [marker EXCEPT !.stage = Clearing]
    /\ pc' = "stage_sync"
    /\ UNCHANGED <<file_vars, disk_marker, memory_vars, run_vars, log>>

stage_sync ==
    /\ pc = "stage_sync"
    /\ SyncMarker
    /\ pc' = "clear"
    /\ UNCHANGED <<file_vars, memory_vars, run_vars, log>>

\* The positions that are leaves in the new layout only.
Cleared(m) ==
    [p \in Pos |-> IF Capacity(m.old_rows) <= p /\ p < Capacity(m.new_rows) THEN Zero
                   ELSE file[p]]

\* A punched hole, or zeros through the mapping where holes are unsupported.
clear_new_bottom_range ==
    /\ pc = "clear"
    /\ Write(Cleared(marker))
    /\ pc' = "clear_sync"
    /\ UNCHANGED <<file_rows, disk_rows, marker_vars, memory_vars, run_vars, log>>

clear_sync ==
    /\ pc = "clear_sync"
    /\ SyncForest
    /\ pc' = "marker_remove"
    /\ UNCHANGED <<marker_vars, memory_vars, run_vars, log>>

marker_remove ==
    /\ pc = "marker_remove"
    /\ marker' = NoMarker
    /\ pc' = "remove_sync"
    /\ UNCHANGED <<file_vars, disk_marker, memory_vars, run_vars, log>>

\* The directory is synced; a resize that was resumed goes on opening.
remove_sync ==
    /\ pc = "remove_sync"
    /\ SyncMarker
    /\ pc' = IF leaves = 0 THEN "count" ELSE "up"
    /\ UNCHANGED <<file_vars, memory_vars, run_vars, log>>

-----------------------------------------------------------------------------
(* Opening and replay *)

\* Mutant: a resize that already extended the file is not resumed.
open_old_length ==
    /\ pc \in {"down", "refused"}
    /\ rows' = file_rows
    /\ pc' = CASE marker = NoMarker -> "count"
               [] marker.stage = Copying /\ file_rows = marker.old_rows -> "grow"
               [] marker.stage = Clearing /\ file_rows = marker.new_rows -> "clear"
               [] OTHER -> "refused"
    /\ UNCHANGED <<file_vars, marker_vars, leaves, new_rows, undoing, run_vars, log>>

\* FlatForest::open: no sidecar, or one whose stage and file length agree.
open ==
    /\ pc \in {"down", "refused"}
    /\ rows' = file_rows
    /\ pc' = CASE marker = NoMarker -> "count"
               [] marker.stage = Copying /\ file_rows \in {marker.old_rows, marker.new_rows} ->
                    "grow"
               [] marker.stage = Clearing /\ file_rows = marker.new_rows -> "clear"
               [] OTHER -> "refused"
    /\ UNCHANGED <<file_vars, marker_vars, leaves, new_rows, undoing, run_vars, log>>

\* The binary search for the end of the initialized leaves.
search[range \in (0 .. Capacity(MaxRows)) \X (0 .. Capacity(MaxRows))] ==
    LET first == range[1]
        end == range[2]
        middle == first + (end - first) \div 2
    IN  IF first >= end THEN first
        ELSE IF file[middle] # Zero THEN search[<<middle + 1, end>>] ELSE search[<<first, middle>>]

\* SteadyStateForest::open, and the decision to replay.
count_leaves ==
    /\ pc = "count"
    /\ leaves' = search[<<0, Capacity(rows)>>]
    /\ pc' = CASE leaves' = 0 -> "refused"
               [] leaves' # 0 /\ needs_replay /\ log # << >> -> "undo"
               [] OTHER -> "up"
    /\ UNCHANGED <<file_vars, marker_vars, rows, new_rows, undoing, run_vars, log>>

\* replay_journal: all records backward, then the forward ones.
replay_backward ==
    /\ pc = "undo"
    /\ Write(Undone(file, 1 .. Len(log)))
    /\ leaves' = log[1].from
    /\ pc' = "redo"
    /\ UNCHANGED <<file_rows, disk_rows, marker_vars, rows, new_rows, undoing, run_vars, log>>

replay_forward ==
    /\ pc = "redo"
    /\ Write(Applied(file, ForwardRecords))
    /\ leaves' = IF ForwardRecords = {} THEN leaves ELSE log[latest_forward].to
    /\ pc' = "sync"
    /\ UNCHANGED <<file_rows, disk_rows, marker_vars, rows, new_rows, undoing, run_vars, log>>

-----------------------------------------------------------------------------
(* The end of a process *)

forget ==
    /\ pc' = "down"
    /\ rows' = 0 /\ leaves' = 0 /\ new_rows' = 0 /\ undoing' = 0
    /\ UNCHANGED <<base, crashes, log>>

\* A graceful shutdown: the journal's clean marker lets the next start skip
\* the replay.
close ==
    /\ pc = "up"
    /\ needs_replay' = FALSE
    /\ forget
    /\ UNCHANGED <<file_vars, marker_vars, stops>>

stop ==
    /\ stops < MaxStops
    /\ stops' = stops + 1
    /\ needs_replay' = TRUE
    /\ forget

\* What the file is after the step under way.
Target ==
    CASE pc = "copy" -> Copied(marker)
      [] pc = "clear" -> Cleared(marker)
      [] pc = "apply" -> Applied(file, {Len(log)})
      [] pc = "unapply" -> Undone(file, {undoing})
      [] pc = "undo" -> Undone(file, 1 .. Len(log))
      [] pc = "redo" -> Applied(file, ForwardRecords)
      [] OTHER -> file

\* A kill, or an error, in the middle of a step leaves the first of its writes.
kill ==
    /\ "kill" \in crashes
    /\ pc \notin {"down", "refused"}
    /\ \E written \in {p \in Pos : Target[p] # file[p]} \cup {-1} :
         Write([p \in Pos |-> IF p <= written THEN Target[p] ELSE file[p]])
    /\ stop
    /\ UNCHANGED <<file_rows, disk_rows, marker_vars>>

\* posix_fallocate fails: a file that this process extended is cut again,
\* if that does not fail too.
allocate_fail ==
    /\ pc = "allocate"
    /\ file_rows' \in IF rows = marker.old_rows THEN {rows, file_rows} ELSE {file_rows}
    /\ stop
    /\ UNCHANGED <<file, disk, disk_rows, marker_vars>>

\* A sidecar that was not synced is there or not, with its content or without.
MarkersAfterLoss ==
    {disk_marker, marker} \cup
    (IF disk_marker = NoMarker /\ marker # NoMarker THEN {EmptyMarker} ELSE {})

\* Every page keeps one of the contents it may have on the medium.
PageChoices[n \in 0 .. Cardinality(Pages)] ==
    IF n = 0 THEN {<< >>}
    ELSE {Append(chosen, content) : chosen \in PageChoices[n - 1], content \in disk[n]}

Survivors(r) ==
    {[p \in Pos |-> IF p < forest_capacity(r) THEN chosen[PageOf(p)][p] ELSE Zero] :
       chosen \in PageChoices[Cardinality(Pages)]}

power_loss ==
    /\ "power" \in crashes
    /\ file_rows' \in {disk_rows, file_rows}
    /\ file' \in Survivors(file_rows')
    /\ disk' = OnDisk(file') /\ disk_rows' = file_rows'
    /\ marker' \in MarkersAfterLoss
    /\ disk_marker' = marker'
    /\ stop

-----------------------------------------------------------------------------

Next ==
    \/ \E additions \in Additions : prove_block(additions)
    \/ apply_forward \/ mark_rolled_back \/ apply_backward \/ sync
    \/ marker_create \/ marker_write \/ marker_sync \/ grow \/ allocate
    \/ copy_internal_rows \/ copy_sync \/ update_resize_marker_stage \/ stage_sync
    \/ clear_new_bottom_range \/ clear_sync \/ marker_remove \/ remove_sync
    \/ open \/ count_leaves \/ replay_backward \/ replay_forward
    \/ close \/ kill \/ allocate_fail \/ power_loss

Spec == Init /\ [][Next]_vars

-----------------------------------------------------------------------------
(* Properties *)

\* Type invariant of the forest file, its sidecar and the worker's memory.
TypeOK ==
    /\ file \in [Pos -> Nodes(Capacity(MaxRows)) \cup {Zero}]
    /\ \A g \in Pages : Content(file, g) \in disk[g]
    /\ file_rows \in Rows /\ disk_rows \in Rows /\ rows \in Rows
    /\ leaves \in 0 .. Capacity(MaxRows) /\ base \in 1 .. Capacity(MaxRows)

\* An open forest has every node of the forest that the journal describes at
\* its position in the current layout, and nothing anywhere else, on the
\* medium too: no stop during a resize, a resumed resize, an update or a
\* replay loses a node, leaves a stale one where the search for the last leaf
\* would find it, or restores a record at a position of an older layout.
WellPlaced ==
    pc = "up" =>
        /\ rows = file_rows /\ leaves = Expected
        /\ file = Layout(Expected, rows)
        /\ disk = OnDisk(file) /\ disk_rows = file_rows

\* While rows are relocated, the layout that the sidecar on the medium would
\* resume from is complete in everything that the medium may hold: the old one
\* until the stage advances, the new one after that.
SourceIntact ==
    "power" \in crashes /\ disk_marker.stage \in {Copying, Clearing} =>
        LET r == IF disk_marker.stage = Copying THEN disk_marker.old_rows
                 ELSE disk_marker.new_rows
        IN  \A node \in Nodes(Expected) :
              \A content \in disk[PageOf(place(node, r))] :
                 content[place(node, r)] = node

\* Opening after any stop resumes the resize that was interrupted, unless the
\* sidecar itself was caught before its content was written.
ResumesUnlessTorn == pc = "refused" => marker = EmptyMarker

\* README.md: a durable sidecar records the relocation phase, and startup
\* resumes an interrupted resize.
AlwaysResumes == pc # "refused"
=============================================================================
