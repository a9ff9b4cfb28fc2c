------------------------- MODULE ForestResizeProofs -------------------------
(***************************************************************************)
(* What the growth of the forest file promises, proved for every number of *)
(* rows, leaves, records and stops, when one behaviour has kills or power  *)
(* losses and not both.                                                    *)
(*                                                                         *)
(* What the medium may hold at a position is confined to a set of values   *)
(* that the sidecar and the journal determine: a write keeps to it, and so *)
(* does every mix of old and new pages that a power loss leaves.  The      *)
(* internal rows of the larger layout start after the end of the smaller   *)
(* one, so a copy never overwrites its source, and the range that is       *)
(* cleared holds only positions that the copies have left.                 *)
(***************************************************************************)
EXTENDS ForestResize, ForestPositionProofs, FiniteSetTheorems, SequenceTheorems

-----------------------------------------------------------------------------
(* The inductive invariant *)

Values == Nodes(Capacity(MaxRows)) \cup {Zero}

\* Every value that the medium may hold at a position is one of G's.
Confined(d, G) == \A p \in Pos : \A content \in d[PageOf(p)] : content[p] \in G[p]

Anything == [p \in Pos |-> Values]

\* The nodes of a forest are at their places in layout r.
Has(n, r, p, v) == \A node \in Nodes(n) : place(node, r) = p => v = node

\* Between blocks, or after a stop that a replay follows: nothing but recorded
\* nodes at their places, and all that the bootstrap built.
Settled(built, recorded, r) ==
    [p \in Pos |-> {v \in Values : /\ v = Zero \/ (v \in recorded /\ place(v, r) = p)
                                   /\ Has(built, r, p, v)}]

\* While rows are copied: the old layout, and copies at places of the new one.
HalfCopied(n, old, new) ==
    [p \in Pos |-> {v \in Values :
        /\ v = Zero \/ (v \in Nodes(n) /\ (place(v, old) = p \/ (v[1] >= 1 /\ place(v, new) = p)))
        /\ Has(n, old, p, v)}]

\* When all rows are copied: both layouts.
Doubled(n, old, new) ==
    [p \in Pos |-> {v \in HalfCopied(n, old, new)[p] : Has(n, new, p, v)}]

\* While the old places are cleared: the new layout, and leftovers where only
\* the new layout has leaves.
HalfCleared(n, old, new) ==
    [p \in Pos |-> {v \in Values :
        /\ \/ v = Zero
           \/ v \in Nodes(n) /\ place(v, new) = p
           \/ Capacity(old) <= p /\ p < Capacity(new)
        /\ Has(n, new, p, v)}]

\* The nodes of the bootstrap and of all records, rolled back or not.
Recorded == Nodes(base) \cup UNION {NewNodes(log[i]) : i \in 1 .. Len(log)}

\* The layout is large enough for the forest and not older than any record.
Fits(r) == base <= Capacity(r) /\ \A i \in 1 .. Len(log) : log[i].rows <= r

RecordType == [from : Nat, to : Nat, rows : Rows, forward : BOOLEAN]

\* Each forward record starts from the leaves of the one before it.
JournalOK ==
    /\ base \in 1 .. Capacity(MaxRows)
    /\ log \in Seq(RecordType)
    /\ \A i \in 1 .. Len(log) :
         base <= log[i].from /\ log[i].from < log[i].to /\ log[i].to <= Capacity(log[i].rows)
    /\ log # << >> => log[1].from = base
    /\ \A i \in ForwardRecords :
         /\ (\A j \in ForwardRecords : i <= j) => log[i].from = base
         /\ \A j \in ForwardRecords :
              j < i /\ (\A k \in ForwardRecords : k <= j \/ i <= k) => log[i].from = log[j].to
         /\ Nodes(log[i].to) =
              Nodes(base) \cup UNION {NewNodes(log[j]) : j \in {k \in ForwardRecords : k <= i}}

FittingRows == {r \in Rows : Fits(r)}

\* Opening the forest with sidecar m, and replaying, restores it, given what
\* was built, what is expected and recorded, the layouts that fit, and the
\* medium d with the two lengths of the file.
Resumes(m, built, n, recorded, fitting, d, cached, durable) ==
    \/ /\ m = NoMarker
       /\ durable = cached /\ cached \in fitting
       /\ Confined(d, Settled(built, recorded, cached))
    \/ m = EmptyMarker
    \/ /\ m = ResizeMarker(m.old_rows, m.new_rows, Copying)
       /\ m.old_rows \in fitting /\ m.new_rows \in Rows /\ m.old_rows < m.new_rows
       /\ cached \in {m.old_rows, m.new_rows} /\ durable \in {m.old_rows, m.new_rows}
       /\ Confined(d, HalfCopied(n, m.old_rows, m.new_rows))
    \/ /\ m = ResizeMarker(m.old_rows, m.new_rows, Clearing)
       /\ m.old_rows \in fitting /\ m.new_rows \in Rows /\ m.old_rows < m.new_rows
       /\ cached = m.new_rows /\ durable = m.new_rows
       /\ Confined(d, HalfCleared(n, m.old_rows, m.new_rows))

Resumable(m) ==
    Resumes(m, base, Expected, Recorded, FittingRows, disk, file_rows, disk_rows)

\* The file is the forest that the journal describes, and so is the medium.
Exact == file = Layout(Expected, file_rows) /\ disk = OnDisk(file)

FileOK ==
    /\ file \in [Pos -> Values]
    /\ \A g \in Pages : Content(file, g) \in disk[g]
    /\ file_rows \in Rows /\ disk_rows \in Rows /\ rows \in Rows
    /\ leaves \in 0 .. Capacity(MaxRows)
    /\ Confined(disk, Anything)

Powered == "power" \in crashes

\* The sidecar that each step works with, cached and on the medium.
MarkerOK ==
    /\ Resumable(marker) /\ (Powered => Resumable(disk_marker))
    /\ pc \in {"up", "apply", "unapply", "sync", "count", "undo", "redo", "marker_create"} =>
         marker = NoMarker /\ (Powered => disk_marker = NoMarker)
    /\ pc = "marker_write" => marker = EmptyMarker /\ (Powered => disk_marker = NoMarker)
    /\ pc \in {"marker_sync", "grow", "allocate", "copy", "copy_sync", "stage_write"} =>
         marker.stage = Copying
    /\ pc \in {"stage_sync", "clear", "clear_sync", "marker_remove"} => marker.stage = Clearing
    /\ pc = "remove_sync" => marker = NoMarker
    /\ pc = "refused" => marker = EmptyMarker
    /\ pc = "marker_sync" /\ Powered => disk_marker = NoMarker
    /\ pc \in {"grow", "allocate", "copy", "copy_sync", "stage_write", "clear", "clear_sync",
               "marker_remove", "down", "refused"} /\ Powered => disk_marker = marker

\* What each step knows of the file, beyond what can be resumed.
StepOK ==
    /\ pc \in {"up", "apply", "unapply", "sync", "count", "undo", "redo", "marker_create",
               "marker_write", "marker_sync", "grow", "copy", "copy_sync", "stage_write",
               "stage_sync", "clear", "clear_sync", "marker_remove", "remove_sync"} =>
         rows = file_rows
    /\ pc = "down" => leaves = 0
    /\ pc \in {"up", "sync", "marker_create", "marker_write", "marker_sync"} => leaves = Expected
    /\ pc \in {"grow", "allocate", "copy", "copy_sync", "stage_write", "stage_sync", "clear",
               "clear_sync", "marker_remove", "remove_sync"} => leaves \in {0, Expected}
    /\ pc \in {"up", "marker_create", "marker_write", "marker_sync", "marker_remove",
               "remove_sync"} => Exact
    /\ pc \in {"up", "marker_create", "marker_write", "marker_sync"} =>
         disk_rows = file_rows /\ file_rows \in FittingRows
    /\ pc \in {"down", "count"} /\ marker = NoMarker /\ (~needs_replay \/ log = << >>) => Exact
    /\ pc \in {"marker_create", "marker_write"} => new_rows \in Rows /\ rows < new_rows
    /\ pc = "marker_sync" => rows = marker.old_rows
    /\ pc = "allocate" => file_rows = marker.new_rows /\ rows \in {marker.old_rows, marker.new_rows}
    /\ pc \in {"copy", "copy_sync", "stage_write"} => rows = marker.new_rows
    /\ pc = "apply" => log # << >> /\ log[Len(log)].forward
                       /\ file = Layout(log[Len(log)].from, rows)
    /\ pc = "unapply" => undoing \in 1 .. Len(log) /\ Expected = log[undoing].from
                         /\ file = Layout(log[undoing].to, rows)
    /\ pc \in {"sync", "undo", "redo"} => log # << >>
    /\ pc = "sync" => file = Layout(Expected, rows)
    /\ pc = "redo" => file = Layout(base, rows) /\ leaves = base
    /\ pc = "copy_sync" => \A p \in Pos : file[p] \in Doubled(Expected, marker.old_rows, rows)[p]
    /\ pc \in {"stage_write", "stage_sync"} =>
         disk_rows = rows /\ Confined(disk, Doubled(Expected, marker.old_rows, rows))
    /\ pc = "clear_sync" => file = Layout(Expected, rows)

Steps == {"down", "refused", "up", "apply", "unapply", "sync", "count", "undo", "redo",
          "marker_create", "marker_write", "marker_sync", "grow", "allocate", "copy", "copy_sync",
          "stage_write", "stage_sync", "clear", "clear_sync", "marker_remove", "remove_sync"}

IInv ==
    /\ pc \in Steps /\ crashes # {"kill", "power"} /\ crashes \subseteq {"kill", "power"}
    /\ FileOK /\ JournalOK /\ MarkerOK /\ StepOK

-----------------------------------------------------------------------------
(* Places *)

\* The numbers of rows are naturals that can be shifted by.
LEMMA RowNumbers ==
    ASSUME NEW r \in Rows
    PROVE  /\ r \in Nat /\ r + 1 <= MaxShift /\ r <= MaxShift /\ r <= MaxRows
           /\ MaxRows \in Nat /\ MaxRows \in Rows /\ MaxShift \in Nat
           /\ Capacity(r) \in Nat /\ 1 <= Capacity(r) /\ Capacity(r) <= Capacity(MaxRows)
           /\ Capacity(MaxRows) \in Nat /\ Pow2[r + 1] = 2 * Capacity(r)
           /\ forest_capacity(r) = 2 * Capacity(r) - 1
           /\ forest_capacity(MaxRows) = 2 * Capacity(MaxRows) - 1
<1>1. /\ r \in Nat /\ r + 1 <= MaxShift /\ r <= MaxShift /\ r <= MaxRows
      /\ MaxRows \in Nat /\ MaxRows \in Rows /\ MaxShift \in Nat /\ MaxRows <= MaxShift
      /\ MaxRows + 1 <= MaxShift
  BY RowsAssumption, ShiftAssumption DEF Rows
<1>2. Pow2[r] \in Nat /\ 1 <= Pow2[r] /\ Pow2[r] <= Pow2[MaxRows] /\ Pow2[MaxRows] \in Nat
  BY <1>1, PowGrows
<1>3. Pow2[r + 1] = 2 * Pow2[r] /\ Pow2[MaxRows + 1] = 2 * Pow2[MaxRows]
  BY <1>1, PowDef
<1> QED BY <1>1, <1>2, <1>3 DEF Capacity, forest_capacity

\* All nodes that a layout of r rows has a place for.
Frame(r) == {node \in Rows \X (0 .. Capacity(MaxRows) - 1) :
                node[1] <= r /\ node[2] < Pow2[r - node[1]]}

\* A forest that fits into a layout has only nodes of that layout.
LEMMA NodesInFrame ==
    ASSUME NEW r \in Rows, NEW n \in Nat, n <= Capacity(r)
    PROVE  Nodes(n) \subseteq Frame(r)
<1> SUFFICES ASSUME NEW node \in Nodes(n) PROVE node \in Frame(r)
  OBVIOUS
<1> DEFINE row == node[1]
           i == node[2]
<1>1. /\ r \in Nat /\ r <= MaxShift /\ MaxShift \in Nat /\ Capacity(MaxRows) \in Nat
      /\ MaxRows \in Nat /\ MaxRows <= MaxShift /\ MaxRows \in Rows
  BY RowNumbers, RowsAssumption, ShiftAssumption
<1>2. /\ node \in Rows \X (0 .. Capacity(MaxRows) - 1) /\ row \in Rows /\ i \in Nat
      /\ row \in Nat /\ row <= MaxShift
      /\ (i + 1) * Pow2[row] <= n
  <2>1. node \in Rows \X (0 .. Capacity(MaxRows) - 1) /\ (i + 1) * Pow2[row] <= n
    BY DEF Nodes
  <2>2. row \in Rows /\ i \in 0 .. Capacity(MaxRows) - 1
    BY <2>1
  <2> HIDE DEF row, i
  <2>3. row \in Nat /\ row <= MaxShift
    BY <2>2, RowNumbers
  <2>4. i \in Nat
    BY <1>1, <2>2
  <2> QED BY <2>1, <2>2, <2>3, <2>4
<1>3. Pow2[row] \in Nat /\ 1 <= Pow2[row] /\ Pow2[r] \in Nat /\ 1 <= Pow2[r]
  BY <1>1, <1>2, PowGrows
<1> HIDE DEF row, i
<1>4. (i + 1) * Pow2[row] <= Pow2[r] /\ Pow2[row] <= (i + 1) * Pow2[row]
  <2>1. (i + 1) * Pow2[row] <= Pow2[r]
    BY <1>2, <1>3 DEF Capacity
  <2>2. Pow2[row] <= (i + 1) * Pow2[row]
    BY <1>2, <1>3
  <2> QED BY <2>1, <2>2
<1>5. row <= r
  <2> SUFFICES ASSUME r < row PROVE FALSE
    BY <1>1, <1>2
  <2>1. 2 * Pow2[r] <= Pow2[row]
    BY <1>1, <1>2, PowDoubles
  <2> DEFINE x == (i + 1) * Pow2[row]
  <2>2. x \in Nat
    BY <1>2, <1>3
  <2> HIDE DEF x
  <2> QED BY <1>3, <1>4, <2>1, <2>2 DEF x
<1>6. i < Pow2[r - row]
  <2>1. r - row \in Nat /\ (r - row) + row = r /\ r - row <= MaxShift
    BY <1>1, <1>2, <1>5
  <2>2. Pow2[r] = Pow2[r - row] * Pow2[row] /\ Pow2[r - row] \in Nat
    BY <1>1, <1>2, <2>1, PowSplit, PowGrows
  <2> SUFFICES ASSUME Pow2[r - row] <= i PROVE FALSE
    BY <1>2, <2>2
  <2>3. Pow2[r - row] * Pow2[row] <= i * Pow2[row]
    BY <1>2, <1>3, <2>2
  <2>4. i * Pow2[row] < (i + 1) * Pow2[row]
    BY <1>2, <1>3
  <2> DEFINE x == i * Pow2[row]
             y == (i + 1) * Pow2[row]
             z == Pow2[r - row] * Pow2[row]
  <2>5. x \in Nat /\ y \in Nat /\ z \in Nat
    BY <1>2, <1>3, <2>2
  <2>6. z <= x /\ x < y /\ y <= z
    BY <1>4, <2>2, <2>3, <2>4
  <2> HIDE DEF x, y, z
  <2> QED BY <2>5, <2>6
<1> QED BY <1>2, <1>5, <1>6 DEF Frame, row, i

\* Where the nodes of a layout are.
LEMMA FramePlace ==
    ASSUME NEW r \in Rows, NEW node \in Frame(r)
    PROVE  /\ place(node, r) \in Pos /\ place(node, r) < forest_capacity(r)
           /\ node[1] = 0 => place(node, r) = node[2] /\ place(node, r) < Capacity(r)
           /\ node[1] # 0 => Capacity(r) <= place(node, r)
           /\ node[1] \in 0 .. r /\ node[2] \in Nat /\ node = <<node[1], node[2]>>
<1>1. /\ r \in Nat /\ r + 1 <= MaxShift /\ Capacity(r) \in Nat /\ Capacity(r) <= Capacity(MaxRows)
      /\ Capacity(MaxRows) \in Nat /\ forest_capacity(r) = 2 * Capacity(r) - 1
      /\ forest_capacity(MaxRows) = 2 * Capacity(MaxRows) - 1 /\ Pow2[r + 1] = 2 * Capacity(r)
  BY RowNumbers
<1>2. /\ node[1] \in 0 .. r /\ node[2] \in Nat /\ node[2] < Pow2[r - node[1]]
      /\ node = <<node[1], node[2]>>
  BY <1>1 DEF Frame, Rows
<1> DEFINE s == start_position_at_row(node[1], r)
           P == Pow2[r - node[1]]
<1>3. s \in Nat /\ P \in Nat /\ 1 <= P /\ s + 2 * P = Pow2[r + 1]
  BY <1>1, <1>2, RowBounds
<1> HIDE DEF s, P
<1>4. place(node, r) = s + node[2]
  BY DEF place, s
<1>5. place(node, r) \in Nat /\ place(node, r) < forest_capacity(r)
  BY <1>1, <1>2, <1>3, <1>4 DEF P
<1>6. place(node, r) \in Pos
  BY <1>1, <1>5 DEF Pos
<1>7. ASSUME node[1] = 0 PROVE place(node, r) = node[2] /\ place(node, r) < Capacity(r)
  <2>1. s = 0 /\ r - node[1] = r
    BY <1>1, <1>7, LeafRow DEF s
  <2> QED BY <1>2, <1>4, <2>1 DEF Capacity
<1>8. ASSUME node[1] # 0 PROVE Capacity(r) <= place(node, r)
  <2>1. 0 \in 0 .. r /\ 0 < node[1]
    BY <1>1, <1>2, <1>8
  <2>2. start_position_at_row(0, r) + Pow2[r - 0] <= start_position_at_row(node[1], r)
    BY <1>1, <1>2, <2>1, RowsApart
  <2>3. start_position_at_row(0, r) = 0 /\ r - 0 = r
    BY <1>1, LeafRow
  <2>4. Capacity(r) <= s
    BY <1>1, <2>2, <2>3 DEF Capacity, s
  <2> QED BY <1>1, <1>2, <1>3, <1>4, <2>4
<1> QED BY <1>2, <1>5, <1>6, <1>7, <1>8

\* Two nodes of a layout are at different places.
LEMMA FrameApart ==
    ASSUME NEW r \in Rows, NEW x \in Frame(r), NEW y \in Frame(r), place(x, r) = place(y, r)
    PROVE  x = y
<1>1. r \in Nat /\ r + 1 <= MaxShift
  BY RowNumbers
<1>2. /\ x[1] \in 0 .. r /\ x[2] \in Nat /\ x = <<x[1], x[2]>> /\ x[2] < Pow2[r - x[1]]
      /\ y[1] \in 0 .. r /\ y[2] \in Nat /\ y = <<y[1], y[2]>> /\ y[2] < Pow2[r - y[1]]
  BY FramePlace DEF Frame
<1>3. x[1] = y[1] /\ x[2] = y[2]
  BY <1>1, <1>2, PositionsApart DEF place
<1> QED BY <1>2, <1>3

\* A larger layout has all nodes of a smaller one.
LEMMA FrameGrows ==
    ASSUME NEW old \in Rows, NEW new \in Rows, old <= new
    PROVE  Frame(old) \subseteq Frame(new)
<1> SUFFICES ASSUME NEW node \in Frame(old) PROVE node \in Frame(new)
  OBVIOUS
<1>1. /\ node \in Rows \X (0 .. Capacity(MaxRows) - 1) /\ node[1] <= old /\ node[2] < Pow2[old - node[1]]
      /\ node[1] \in Rows
  BY DEF Frame
<1>2. node[1] \in Nat /\ old \in Nat /\ new \in Nat /\ new <= MaxShift /\ node[2] \in Int
  BY <1>1, RowNumbers
<1>3. old - node[1] \in Nat /\ new - node[1] \in Nat /\ old - node[1] <= new - node[1]
      /\ new - node[1] <= MaxShift
  BY <1>1, <1>2, ShiftAssumption
<1>4. Pow2[old - node[1]] \in Nat /\ Pow2[new - node[1]] \in Nat
      /\ Pow2[old - node[1]] <= Pow2[new - node[1]]
  BY <1>3, PowGrows
<1>5. node[1] <= new /\ node[2] < Pow2[new - node[1]]
  BY <1>1, <1>2, <1>4
<1> QED BY <1>1, <1>5 DEF Frame

\* The internal rows of a larger layout start after the end of a smaller one,
\* and its leaves reach that far.
LEMMA LayoutsApart ==
    ASSUME NEW old \in Rows, NEW new \in Rows, old < new
    PROVE  /\ forest_capacity(old) < Capacity(new) /\ Capacity(old) < Capacity(new)
           /\ Capacity(old) \in Nat /\ Capacity(new) \in Nat
<1>1. /\ old \in Nat /\ new \in Nat /\ new <= MaxShift /\ Capacity(old) \in Nat /\ 1 <= Capacity(old)
      /\ Capacity(new) \in Nat /\ forest_capacity(old) = 2 * Capacity(old) - 1
  BY RowNumbers
<1>2. 2 * Pow2[old] <= Pow2[new]
  BY <1>1, PowDoubles
<1> QED BY <1>1, <1>2 DEF Capacity

\* A forest with more leaves has all nodes of one with fewer.
LEMMA NodesGrow ==
    ASSUME NEW m \in Nat, NEW n \in Nat, m <= n
    PROVE  Nodes(m) \subseteq Nodes(n)
<1> SUFFICES ASSUME NEW node \in Nodes(m) PROVE node \in Nodes(n)
  OBVIOUS
<1>1. node \in Rows \X (0 .. Capacity(MaxRows) - 1) /\ (node[2] + 1) * Pow2[node[1]] <= m
  BY DEF Nodes
<1>2. (node[2] + 1) * Pow2[node[1]] \in Int
  <2>1. node[1] \in Rows /\ node[2] \in 0 .. Capacity(MaxRows) - 1
    BY <1>1
  <2>2. Capacity(node[1]) \in Nat /\ node[2] + 1 \in Int
    BY <2>1, RowNumbers
  <2> QED BY <2>2 DEF Capacity
<1> DEFINE x == (node[2] + 1) * Pow2[node[1]]
<1>3. x <= n
  <2>1. x <= m /\ x \in Int
    BY <1>1, <1>2
  <2> HIDE DEF x
  <2> QED BY <2>1
<1> QED BY <1>1, <1>3 DEF Nodes

\* No node is the empty value, and the first leaf of a built forest is a node.
LEMMA LeafNodes ==
    /\ \A n : Zero \notin Nodes(n)
    /\ \A r \in Rows : Zero \notin Frame(r)
    /\ \A n \in Nat : \A i \in Nat :
          i < n /\ n <= Capacity(MaxRows) => <<0, i>> \in Nodes(n)
<1>1. 0 \in Rows /\ Pow2[0] = 1 /\ Capacity(MaxRows) \in Nat /\ \A r \in Rows : r >= 0
  BY RowNumbers, PowDef, RowsAssumption DEF Rows
<1>2. ASSUME NEW n \in Nat, NEW i \in Nat, i < n, n <= Capacity(MaxRows) PROVE <<0, i>> \in Nodes(n)
  <2>1. <<0, i>> \in Rows \X (0 .. Capacity(MaxRows) - 1)
    BY <1>1, <1>2
  <2>2. (i + 1) * 1 <= n
    BY <1>2
  <2> QED BY <1>1, <2>1, <2>2 DEF Nodes
<1>3. Zero \notin Rows \X (0 .. Capacity(MaxRows) - 1)
  BY <1>1 DEF Zero
<1> QED BY <1>2, <1>3 DEF Nodes, Frame

-----------------------------------------------------------------------------
(* The medium *)

\* Every position is on a page.
LEMMA PositionPage ==
    /\ PageOf(forest_capacity(MaxRows) - 1) \in Nat
    /\ \A p \in Pos : PageOf(p) \in Pages
<1> DEFINE top == forest_capacity(MaxRows) - 1
<1>1. top \in Nat /\ PageNodes \in Nat /\ PageNodes > 0 /\ Pos = 0 .. top
  <2>1. MaxRows \in Rows
    BY RowsAssumption DEF Rows
  <2>2. forest_capacity(MaxRows) = 2 * Capacity(MaxRows) - 1 /\ Capacity(MaxRows) \in Nat
        /\ 1 <= Capacity(MaxRows)
    BY <2>1, RowNumbers
  <2> QED BY <2>2, LimitsAssumption DEF Pos
<1> HIDE DEF top
<1>2. ASSUME NEW p \in 0 .. top PROVE p \div PageNodes \in 0 .. top \div PageNodes
  <2> DEFINE a == p \div PageNodes
             b == top \div PageNodes
  <2>1. /\ a \in Int /\ b \in Int /\ PageNodes * a <= p /\ p < PageNodes * a + PageNodes
        /\ PageNodes * b <= top /\ top < PageNodes * b + PageNodes
    BY <1>1, <1>2
  <2> HIDE DEF a, b
  <2>2. a >= 0
    <3> SUFFICES ASSUME a <= -1 PROVE FALSE
      BY <2>1
    <3>1. PageNodes * a <= PageNodes * (-1)
      BY <1>1, <2>1
    <3> QED BY <1>1, <1>2, <2>1, <3>1
  <2>3. a <= b
    <3> SUFFICES ASSUME b + 1 <= a PROVE FALSE
      BY <2>1
    <3>1. PageNodes * (b + 1) <= PageNodes * a
      BY <1>1, <2>1
    <3>2. PageNodes * (b + 1) = PageNodes * b + PageNodes
      BY <1>1, <2>1
    <3> QED BY <1>1, <1>2, <2>1, <3>1, <3>2
  <2> QED BY <2>1, <2>2, <2>3 DEF a, b
<1>3. top \div PageNodes \in Nat
  BY <1>1, <1>2
<1>4. PageOf(top) \in Nat /\ PageOf(top) = top \div PageNodes + 1
  BY <1>3 DEF PageOf
<1>5. ASSUME NEW p \in Pos PROVE PageOf(p) \in Pages
  <2>1. p \div PageNodes \in 0 .. top \div PageNodes
    BY <1>1, <1>2
  <2> QED BY <1>3, <1>4, <2>1 DEF PageOf, Pages, top
<1> QED BY <1>4, <1>5 DEF top

\* The content of a page.
LEMMA ContentAt ==
    ASSUME NEW f, NEW p \in Pos
    PROVE  Content(f, PageOf(p))[p] = f[p]
  BY DEF Content

\* A synced file confines the medium to what it has.
LEMMA SyncConfines ==
    ASSUME NEW f, NEW G, \A p \in Pos : f[p] \in G[p]
    PROVE  Confined(OnDisk(f), G)
<1> SUFFICES ASSUME NEW p \in Pos, NEW content \in OnDisk(f)[PageOf(p)] PROVE content[p] \in G[p]
  BY DEF Confined
<1>1. PageOf(p) \in Pages
  BY PositionPage
<1>2. content = Content(f, PageOf(p))
  BY <1>1 DEF OnDisk
<1> QED BY <1>2, ContentAt

\* A write adds what it leaves at each position.
LEMMA WriteConfines ==
    ASSUME NEW d, NEW f, NEW G, Confined(d, G), \A p \in Pos : f[p] \in G[p]
    PROVE  Confined([g \in Pages |-> d[g] \cup {Content(f, g)}], G)
<1> DEFINE e == [g \in Pages |-> d[g] \cup {Content(f, g)}]
<1> SUFFICES ASSUME NEW p \in Pos, NEW content \in e[PageOf(p)] PROVE content[p] \in G[p]
  BY DEF Confined
<1>1. PageOf(p) \in Pages
  BY PositionPage
<1>2. content \in d[PageOf(p)] \/ content = Content(f, PageOf(p))
  BY <1>1
<1> QED BY <1>2, ContentAt DEF Confined

\* What the mapping shows is among what the medium may hold.
LEMMA VisibleConfined ==
    ASSUME NEW d, NEW f, NEW G, Confined(d, G), \A g \in Pages : Content(f, g) \in d[g]
    PROVE  \A p \in Pos : f[p] \in G[p]
<1> SUFFICES ASSUME NEW p \in Pos PROVE f[p] \in G[p]
  OBVIOUS
<1>1. PageOf(p) \in Pages
  BY PositionPage
<1>2. Content(f, PageOf(p))[p] \in G[p]
  BY <1>1 DEF Confined
<1> QED BY <1>2, ContentAt

\* Confinement to larger sets.
LEMMA ConfinedWider ==
    ASSUME NEW d, NEW G, NEW H, Confined(d, G), \A p \in Pos : G[p] \subseteq H[p]
    PROVE  Confined(d, H)
  BY DEF Confined

-----------------------------------------------------------------------------
(* Power losses *)

\* The choices for n pages, given those for the pages before.
Extensions(prior, n) == {Append(chosen, content) : chosen \in prior, content \in disk[n]}
ChoicesAt(f, n) == IF n = 0 THEN {<< >>} ELSE Extensions(f[n - 1], n)

\* The recursion over the pages has a solution.
LEMMA ChoicesExist ==
    ASSUME NEW N \in Nat
    PROVE  \E f : f = [n \in 0 .. N |-> ChoicesAt(f, n)]
<1> DEFINE Good(f, k) == f = [n \in 0 .. N |-> f[n]] /\ \A n \in 0 .. k : f[n] = ChoicesAt(f, n)
           S == {k \in 0 .. N : \E f : Good(f, k)}
<1>2. 0 \in S
  <2> DEFINE f == [n \in 0 .. N |-> {<< >>}]
  <2>1. Good(f, 0)
    BY DEF ChoicesAt
  <2> HIDE DEF f, Good
  <2>2. \E h : Good(h, 0)
    BY <2>1
  <2> QED BY <2>2
<1>3. ASSUME NEW k \in S, k < N PROVE k + 1 \in S
  <2>0. k \in Nat /\ k + 1 \in 0 .. N /\ k \in 0 .. N
    BY <1>3
  <2>1. PICK f : Good(f, k)
    <3> HIDE DEF Good
    <3> QED BY <1>3
  <2> DEFINE h == [n \in 0 .. N |-> IF n = k + 1 THEN Extensions(f[k], k + 1) ELSE f[n]]
  <2>3. ASSUME NEW n \in 0 .. k + 1 PROVE h[n] = ChoicesAt(h, n)
    <3>1. CASE n = k + 1
      <4>1. h[n] = Extensions(f[k], k + 1) /\ n # 0 /\ n - 1 = k /\ h[n - 1] = f[k]
        BY <2>0, <3>1
      <4> HIDE DEF h
      <4> QED BY <3>1, <4>1 DEF ChoicesAt
    <3>2. CASE n # k + 1 /\ n # 0
      <4>1. n \in 0 .. k /\ h[n] = f[n] /\ h[n - 1] = f[n - 1]
        BY <2>0, <3>2
      <4>2. f[n] = ChoicesAt(f, n)
        BY <2>1, <4>1
      <4> HIDE DEF h
      <4> QED BY <3>2, <4>1, <4>2 DEF ChoicesAt
    <3>3. CASE n = 0
      <4>1. 0 \in 0 .. k /\ h[0] = f[0]
        BY <2>0
      <4>2. f[0] = ChoicesAt(f, 0)
        BY <2>1, <4>1
      <4> HIDE DEF h
      <4> QED BY <3>3, <4>1, <4>2 DEF ChoicesAt
    <3> QED BY <3>1, <3>2, <3>3
  <2>4. Good(h, k + 1)
    BY <2>3
  <2> HIDE DEF h, Good
  <2>5. \E h0 : Good(h0, k + 1)
    BY <2>4
  <2> QED BY <2>0, <2>5
<1>4. N \in S
  <2>1. S \in SUBSET Nat
    OBVIOUS
  <2> HIDE DEF S
  <2>2. \A n \in S : n < N => n + 1 \in S
    BY <1>3
  <2>3. \A n \in 0 .. N : n \in S
    BY <1>2, <2>1, <2>2, UpTo
  <2> QED BY <2>3
<1>5. PICK f : Good(f, N)
  <2> HIDE DEF Good
  <2> QED BY <1>4
<1>6. f = [n \in 0 .. N |-> ChoicesAt(f, n)]
  BY <1>5
<1> QED BY <1>6

\* Each choice of pages has a content that the page may have.
LEMMA ChosenPages ==
    ASSUME NEW chosen \in PageChoices[Cardinality(Pages)]
    PROVE  \A g \in Pages : chosen[g] \in disk[g]
<1> DEFINE N == Cardinality(Pages)
           All == UNION {disk[g] : g \in Pages}
           D(f) == [n \in 0 .. N |-> ChoicesAt(f, n)]
<1>1. N \in Nat /\ Pages = 1 .. N
  BY PositionPage, FS_Interval DEF Pages
<1>6. PageChoices = CHOOSE f : f = D(f)
  BY DEF PageChoices, ChoicesAt, Extensions
<1> HIDE DEF N
<1>7. PageChoices = D(PageChoices)
  <2>1. \E f : f = D(f)
    BY <1>1, ChoicesExist
  <2> HIDE DEF D
  <2> QED BY <1>6, <2>1
<1>8. \A n \in 0 .. N : PageChoices[n] = ChoicesAt(PageChoices, n)
  <2>1. \A n \in 0 .. N : D(PageChoices)[n] = ChoicesAt(PageChoices, n)
    OBVIOUS
  <2> HIDE DEF D
  <2> QED BY <1>7, <2>1, Zenon
<1> DEFINE T == {n \in 0 .. N : \A c \in PageChoices[n] :
                    c \in Seq(All) /\ Len(c) = n /\ \A g \in 1 .. n : c[g] \in disk[g]}
<1>9. 0 \in T
  <2>1. PageChoices[0] = {<< >>}
    BY <1>1, <1>8 DEF ChoicesAt
  <2>2. << >> \in Seq(All) /\ Len(<< >>) = 0 /\ \A g \in 1 .. 0 : << >>[g] \in disk[g]
    <3> HIDE DEF All
    <3> QED OBVIOUS
  <2> HIDE DEF All
  <2>3. \A c \in PageChoices[0] :
          c \in Seq(All) /\ Len(c) = 0 /\ \A g \in 1 .. 0 : c[g] \in disk[g]
    BY <2>1, <2>2
  <2> QED BY <1>1, <2>3
<1>10. ASSUME NEW n \in T, n < N PROVE n + 1 \in T
  <2>1. n \in Nat /\ n + 1 \in 1 .. N /\ n + 1 \in Pages /\ (n + 1) - 1 = n
    BY <1>1, <1>10
  <2>2. PageChoices[n + 1] = {Append(c, content) : c \in PageChoices[n], content \in disk[n + 1]}
    <3>1. PageChoices[n + 1] = ChoicesAt(PageChoices, n + 1) /\ n + 1 # 0
      BY <1>8, <2>1
    <3>2. PageChoices[n + 1] = Extensions(PageChoices[n], n + 1)
      BY <2>1, <3>1 DEF ChoicesAt
    <3> QED BY <3>2 DEF Extensions
  <2>3. ASSUME NEW c \in PageChoices[n + 1]
        PROVE  c \in Seq(All) /\ Len(c) = n + 1 /\ \A g \in 1 .. n + 1 : c[g] \in disk[g]
    <3>1. PICK b \in PageChoices[n], content \in disk[n + 1] : c = Append(b, content)
      BY <2>2
    <3>2. b \in Seq(All) /\ Len(b) = n /\ \A g \in 1 .. n : b[g] \in disk[g]
      OBVIOUS
    <3>3. content \in All
      BY <2>1
    <3> HIDE DEF All
    <3>4. c \in Seq(All) /\ Len(c) = n + 1 /\ c[n + 1] = content /\ \A g \in 1 .. n : c[g] = b[g]
      BY <2>1, <3>1, <3>2, <3>3
    <3>5. ASSUME NEW g \in 1 .. n + 1 PROVE c[g] \in disk[g]
      <4>1. g = n + 1 \/ g \in 1 .. n
        BY <2>1
      <4> QED BY <3>1, <3>2, <3>4, <4>1
    <3> QED BY <3>4, <3>5
  <2> HIDE DEF All
  <2>4. n + 1 \in 0 .. N
    BY <1>1, <2>1
  <2>5. \A c \in PageChoices[n + 1] :
          c \in Seq(All) /\ Len(c) = n + 1 /\ \A g \in 1 .. n + 1 : c[g] \in disk[g]
    BY <2>3
  <2> QED BY <2>4, <2>5, SMTT(30)
<1>11. N \in T
  <2>1. T \in SUBSET Nat
    OBVIOUS
  <2> HIDE DEF T
  <2>2. \A n \in T : n < N => n + 1 \in T
    BY <1>10
  <2>3. \A n \in 0 .. N : n \in T
    BY <1>1, <1>9, <2>1, <2>2, UpTo
  <2> QED BY <1>1, <2>3
<1> QED BY <1>1, <1>11 DEF N

\* What a power loss leaves at each position is something that the medium may
\* hold there, or nothing if the file was cut.
LEMMA SurvivorsConfined ==
    ASSUME NEW G, NEW r, Confined(disk, G), NEW f \in Survivors(r),
           \A p \in Pos : ~(p < forest_capacity(r)) => Zero \in G[p]
    PROVE  (\A p \in Pos : f[p] \in G[p]) /\ f = [p \in Pos |-> f[p]]
<1>1. PICK chosen \in PageChoices[Cardinality(Pages)] :
        f = [p \in Pos |-> IF p < forest_capacity(r) THEN chosen[PageOf(p)][p] ELSE Zero]
  BY DEF Survivors
<1>2. ASSUME NEW p \in Pos PROVE f[p] \in G[p]
  <2>1. chosen[PageOf(p)] \in disk[PageOf(p)]
    BY PositionPage, ChosenPages
  <2>2. chosen[PageOf(p)][p] \in G[p]
    BY <2>1 DEF Confined
  <2> QED BY <1>1, <2>2
<1> QED BY <1>1, <1>2

-----------------------------------------------------------------------------
(* Layouts *)

\* The nodes of a forest are values of the file.
LEMMA NodesAreValues ==
    ASSUME NEW r \in Rows, NEW n \in Nat, n <= Capacity(r)
    PROVE  Nodes(n) \subseteq Values /\ Zero \in Values /\ n <= Capacity(MaxRows)
<1>1. n <= Capacity(MaxRows) /\ Capacity(MaxRows) \in Nat
  BY RowNumbers
<1> QED BY <1>1, NodesGrow DEF Values

\* A layout has each node of the forest at its place and nothing else.
LEMMA LayoutAt ==
    ASSUME NEW r \in Rows, NEW n \in Nat, n <= Capacity(r)
    PROVE  /\ Layout(n, r) \in [Pos -> Values]
           /\ \A p \in Pos : \/ Layout(n, r)[p] = Zero
                             \/ Layout(n, r)[p] \in Nodes(n) /\ place(Layout(n, r)[p], r) = p
           /\ \A node \in Nodes(n) : Layout(n, r)[place(node, r)] = node
           /\ \A p \in Pos : Has(n, r, p, Layout(n, r)[p])
<1>0. Nodes(n) \subseteq Frame(r)
  BY NodesInFrame
<1> DEFINE L == Layout(n, r)
<1>1. ASSUME NEW p \in Pos
      PROVE  /\ L[p] = Zero \/ (L[p] \in Nodes(n) /\ place(L[p], r) = p)
             /\ \A node \in Nodes(n) : place(node, r) = p => L[p] = node
  <2>1. CASE \E node \in Nodes(n) : place(node, r) = p
    <3>1. L[p] = CHOOSE node \in Nodes(n) : place(node, r) = p
      BY <2>1 DEF Layout
    <3>2. L[p] \in Nodes(n) /\ place(L[p], r) = p
      BY <2>1, <3>1
    <3> HIDE DEF L
    <3>3. ASSUME NEW node \in Nodes(n), place(node, r) = p PROVE L[p] = node
      BY <1>0, <3>2, <3>3, FrameApart
    <3> QED BY <3>2, <3>3
  <2>2. CASE ~ \E node \in Nodes(n) : place(node, r) = p
    <3>1. L[p] = Zero
      BY <2>2 DEF Layout
    <3> QED BY <2>2, <3>1
  <2> QED BY <2>1, <2>2
<1>2. DOMAIN L = Pos /\ L = [p \in Pos |-> L[p]]
  BY DEF Layout
<1> HIDE DEF L
<1>3. L \in [Pos -> Values]
  BY <1>1, <1>2, NodesAreValues
<1>4. ASSUME NEW node \in Nodes(n) PROVE L[place(node, r)] = node
  <2>1. place(node, r) \in Pos
    BY <1>0, FramePlace
  <2> QED BY <1>1, <2>1
<1> QED BY <1>1, <1>3, <1>4 DEF L, Has

\* The only file that has each node at its place and nothing else.
LEMMA LayoutIs ==
    ASSUME NEW r \in Rows, NEW n \in Nat, n <= Capacity(r),
           NEW f, f = [p \in Pos |-> f[p]],
           \A p \in Pos : f[p] = Zero \/ (f[p] \in Nodes(n) /\ place(f[p], r) = p),
           \A node \in Nodes(n) : f[place(node, r)] = node
    PROVE  f = Layout(n, r)
<1> DEFINE L == Layout(n, r)
<1>1. /\ L \in [Pos -> Values]
      /\ \A p \in Pos : L[p] = Zero \/ (L[p] \in Nodes(n) /\ place(L[p], r) = p)
      /\ \A node \in Nodes(n) : L[place(node, r)] = node
  BY LayoutAt
<1> HIDE DEF L
<1>2. ASSUME NEW p \in Pos PROVE f[p] = L[p]
  BY <1>1
<1>3. L = [p \in Pos |-> L[p]]
  BY <1>1
<1>4. [p \in Pos |-> f[p]] = [p \in Pos |-> L[p]]
  BY <1>2
<1>5. f = L
  BY <1>3, <1>4
<1> QED BY <1>5 DEF L

\* A layout is what a settled file may be.
LEMMA LayoutSettled ==
    ASSUME NEW r \in Rows, NEW n \in Nat, n <= Capacity(r), NEW built \in Nat, built <= n,
           NEW recorded, Nodes(n) \subseteq recorded
    PROVE  \A p \in Pos : Layout(n, r)[p] \in Settled(built, recorded, r)[p]
<1> DEFINE L == Layout(n, r)
<1>1. /\ L \in [Pos -> Values]
      /\ \A p \in Pos : L[p] = Zero \/ (L[p] \in Nodes(n) /\ place(L[p], r) = p)
      /\ \A p \in Pos : Has(n, r, p, L[p])
  BY LayoutAt
<1>2. Nodes(built) \subseteq Nodes(n)
  BY NodesGrow
<1> HIDE DEF L
<1>3. ASSUME NEW p \in Pos PROVE L[p] \in Settled(built, recorded, r)[p]
  <2>1. Has(built, r, p, L[p])
    BY <1>1, <1>2 DEF Has
  <2> QED BY <1>1, <2>1 DEF Settled
<1> QED BY <1>3 DEF L

\* A settled file with nothing recorded but what was built is a layout.
LEMMA SettledLayout ==
    ASSUME NEW r \in Rows, NEW n \in Nat, n <= Capacity(r), NEW f, f = [p \in Pos |-> f[p]],
           \A p \in Pos : f[p] \in Settled(n, Nodes(n), r)[p]
    PROVE  f = Layout(n, r)
<1>0. Nodes(n) \subseteq Frame(r)
  BY NodesInFrame
<1>1. \A p \in Pos : f[p] = Zero \/ (f[p] \in Nodes(n) /\ place(f[p], r) = p)
  BY DEF Settled
<1>2. ASSUME NEW node \in Nodes(n) PROVE f[place(node, r)] = node
  <2>1. place(node, r) \in Pos
    BY <1>0, FramePlace
  <2>2. Has(n, r, place(node, r), f[place(node, r)])
    BY <2>1 DEF Settled
  <2> QED BY <2>2 DEF Has
<1> QED BY <1>1, <1>2, LayoutIs

\* The old layout is what a copy may start from.
LEMMA LayoutHalfCopied ==
    ASSUME NEW old \in Rows, NEW new, NEW n \in Nat, n <= Capacity(old)
    PROVE  \A p \in Pos : Layout(n, old)[p] \in HalfCopied(n, old, new)[p]
<1> DEFINE L == Layout(n, old)
<1>1. /\ L \in [Pos -> Values]
      /\ \A p \in Pos : L[p] = Zero \/ (L[p] \in Nodes(n) /\ place(L[p], old) = p)
      /\ \A p \in Pos : Has(n, old, p, L[p])
  BY LayoutAt
<1> HIDE DEF L
<1>2. \A p \in Pos : L[p] \in HalfCopied(n, old, new)[p]
  BY <1>1 DEF HalfCopied
<1> QED BY <1>2 DEF L

\* The new layout is what clearing may leave.
LEMMA LayoutHalfCleared ==
    ASSUME NEW old, NEW new \in Rows, NEW n \in Nat, n <= Capacity(new)
    PROVE  \A p \in Pos : Layout(n, new)[p] \in HalfCleared(n, old, new)[p]
<1> DEFINE L == Layout(n, new)
<1>1. /\ L \in [Pos -> Values]
      /\ \A p \in Pos : L[p] = Zero \/ (L[p] \in Nodes(n) /\ place(L[p], new) = p)
      /\ \A p \in Pos : Has(n, new, p, L[p])
  BY LayoutAt
<1> HIDE DEF L
<1>2. \A p \in Pos : L[p] \in HalfCleared(n, old, new)[p]
  BY <1>1 DEF HalfCleared
<1> QED BY <1>2 DEF L

\* Beyond the end of the old layout nothing is needed while rows are copied.
LEMMA BeyondOld ==
    ASSUME NEW r \in Rows, NEW n \in Nat, n <= Capacity(r), NEW p \in Pos, ~(p < forest_capacity(r))
    PROVE  Has(n, r, p, Zero) /\ Zero \in Values
<1>1. Nodes(n) \subseteq Frame(r)
  BY NodesInFrame
<1>2. ASSUME NEW node \in Nodes(n) PROVE place(node, r) # p
  BY <1>1, FramePlace
<1> QED BY <1>2 DEF Has, Values

-----------------------------------------------------------------------------
(* Relocation *)

\* Where the nodes of a forest that fits into the old layout are.
LEMMA TwoPlaces ==
    ASSUME NEW old \in Rows, NEW new \in Rows, old < new, NEW node \in Frame(old)
    PROVE  /\ node \in Frame(new) /\ place(node, old) \in Pos /\ place(node, new) \in Pos
           /\ node[1] \in 0 .. old
           /\ place(node, old) < Capacity(new)
           /\ node[1] = 0 => place(node, new) = place(node, old) /\ place(node, new) < Capacity(old)
           /\ node[1] # 0 => Capacity(old) <= place(node, old) /\ Capacity(new) <= place(node, new)
<1>1. old \in Nat /\ new \in Nat
  BY RowNumbers
<1>2. node \in Frame(new)
  BY <1>1, FrameGrows
<1>3. /\ forest_capacity(old) < Capacity(new) /\ Capacity(old) \in Nat /\ Capacity(new) \in Nat
      /\ forest_capacity(old) \in Int
  BY LayoutsApart, RowNumbers
<1>4. /\ place(node, old) \in Pos /\ place(node, old) < forest_capacity(old)
      /\ node[1] = 0 => place(node, old) = node[2] /\ place(node, old) < Capacity(old)
      /\ node[1] # 0 => Capacity(old) <= place(node, old)
      /\ node[1] \in 0 .. old
  BY FramePlace
<1>5. /\ place(node, new) \in Pos
      /\ node[1] = 0 => place(node, new) = node[2]
      /\ node[1] # 0 => Capacity(new) <= place(node, new)
  BY <1>2, FramePlace
<1>6. place(node, old) \in Int
  BY <1>4 DEF Pos
<1>7. place(node, old) < Capacity(new)
  BY <1>3, <1>4, <1>6
<1> QED BY <1>2, <1>4, <1>5, <1>7

\* Both layouts contain what is needed to go on from either stage.
LEMMA DoubledServes ==
    ASSUME NEW old \in Rows, NEW new \in Rows, old < new, NEW n \in Nat, n <= Capacity(old),
           NEW p \in Pos
    PROVE  /\ Doubled(n, old, new)[p] \subseteq HalfCopied(n, old, new)[p]
           /\ Doubled(n, old, new)[p] \subseteq HalfCleared(n, old, new)[p]
<1>0. Nodes(n) \subseteq Frame(old)
  BY NodesInFrame
<1>1. Doubled(n, old, new)[p] \subseteq HalfCopied(n, old, new)[p]
  BY DEF Doubled
<1>2. ASSUME NEW v \in Doubled(n, old, new)[p] PROVE v \in HalfCleared(n, old, new)[p]
  <2>1. v \in HalfCopied(n, old, new)[p] /\ Has(n, new, p, v)
    BY DEF Doubled
  <2>2. /\ v \in Values
        /\ v = Zero \/ (v \in Nodes(n) /\ (place(v, old) = p \/ (v[1] >= 1 /\ place(v, new) = p)))
    BY <2>1 DEF HalfCopied
  <2>3. ASSUME v \in Nodes(n), place(v, old) = p
        PROVE  place(v, new) = p \/ (Capacity(old) <= p /\ p < Capacity(new))
    BY <1>0, <2>3, TwoPlaces
  <2> QED BY <2>1, <2>2, <2>3 DEF HalfCleared
<1> QED BY <1>1, <1>2

\* Copying the internal rows completes the new layout and leaves the old one.
LEMMA CopyDoubles ==
    ASSUME NEW m, m.old_rows \in Rows, m.new_rows \in Rows, m.old_rows < m.new_rows,
           NEW n \in Nat, n <= Capacity(m.old_rows),
           \A p \in Pos : file[p] \in HalfCopied(n, m.old_rows, m.new_rows)[p]
    PROVE  \A p \in Pos : Copied(m)[p] \in Doubled(n, m.old_rows, m.new_rows)[p]
<1> DEFINE old == m.old_rows
           new == m.new_rows
<1>0. Nodes(n) \subseteq Frame(old) /\ Nodes(n) \subseteq Values
  BY NodesInFrame, NodesAreValues
<1>1. \A node \in Moved(m) : node \in Frame(old) /\ node[1] # 0
  <2> SUFFICES ASSUME NEW node \in Moved(m) PROVE node \in Frame(old) /\ node[1] # 0
    OBVIOUS
  <2>1. /\ node \in (1 .. old) \X (0 .. Capacity(old) - 1) /\ node[2] < Pow2[old - node[1]]
    BY DEF Moved
  <2>2. /\ old \in Nat /\ old <= MaxRows /\ Capacity(old) <= Capacity(MaxRows)
        /\ Capacity(old) \in Nat /\ Capacity(MaxRows) \in Nat /\ MaxRows \in Nat
    BY RowNumbers
  <2> HIDE DEF old
  <2>3. node[1] \in 1 .. old /\ node[2] \in 0 .. Capacity(old) - 1 /\ node = <<node[1], node[2]>>
    BY <2>1
  <2>4. node[1] \in Rows /\ node[2] \in 0 .. Capacity(MaxRows) - 1 /\ node[1] <= old /\ node[1] # 0
    BY <2>2, <2>3 DEF Rows
  <2>5. node \in Rows \X (0 .. Capacity(MaxRows) - 1)
    BY <2>3, <2>4
  <2> QED BY <2>1, <2>4, <2>5 DEF Frame
<1>2. ASSUME NEW node \in Nodes(n), node[1] # 0 PROVE node \in Moved(m)
  <2>1. node \in Frame(old)
    BY <1>0
  <2>2. node[1] \in 0 .. old /\ node[2] \in Nat /\ node = <<node[1], node[2]>>
    BY <2>1, FramePlace
  <2>3. node[2] < Pow2[old - node[1]]
    BY <2>1 DEF Frame
  <2>4. old \in Nat /\ old <= MaxShift /\ MaxShift \in Nat
    BY RowNumbers
  <2>5. old - node[1] \in Nat /\ old - node[1] <= old
    BY <2>2, <2>4
  <2>6. Pow2[old - node[1]] <= Pow2[old] /\ Pow2[old - node[1]] \in Nat /\ Pow2[old] \in Nat
    BY <2>4, <2>5, PowGrows
  <2>7. node[1] \in 1 .. old /\ node[2] \in 0 .. Capacity(old) - 1
    BY <1>2, <2>2, <2>3, <2>4, <2>6 DEF Capacity
  <2>8. <<node[1], node[2]>> \in (1 .. old) \X (0 .. Capacity(old) - 1)
    BY <2>7
  <2> QED BY <2>2, <2>3, <2>8 DEF Moved
<1>3. \A p \in Pos :
        /\ file[p] \in Values
        /\ \/ file[p] = Zero
           \/ file[p] \in Nodes(n) /\ (place(file[p], old) = p \/ (file[p][1] >= 1 /\ place(file[p], new) = p))
        /\ Has(n, old, p, file[p])
  BY DEF HalfCopied
<1> HIDE DEF old, new
<1>4. old \in Rows /\ new \in Rows /\ old < new /\ old \in Nat /\ new \in Nat
  BY RowNumbers DEF old, new
\* The source of a copy is the node itself, or nothing.
<1>5. ASSUME NEW node \in Moved(m)
      PROVE  /\ place(node, old) \in Pos /\ place(node, new) \in Pos
             /\ file[place(node, old)] \in {Zero, node}
             /\ file[place(node, old)] = node => node \in Nodes(n)
             /\ node \in Nodes(n) => file[place(node, old)] = node
  <2>1. /\ node \in Frame(old) /\ place(node, old) \in Pos /\ place(node, new) \in Pos
        /\ place(node, old) < Capacity(new)
    BY <1>1, <1>4, TwoPlaces
  <2> DEFINE v == file[place(node, old)]
  <2>2. /\ v = Zero \/ (v \in Nodes(n) /\ (place(v, old) = place(node, old)
                                            \/ (v[1] >= 1 /\ place(v, new) = place(node, old))))
        /\ Has(n, old, place(node, old), v)
    BY <1>3, <2>1
  <2> HIDE DEF v
  <2>3. ASSUME v \in Nodes(n), v[1] >= 1 PROVE place(v, new) # place(node, old)
    <3>1. v \in Frame(old) /\ v[1] \in 0 .. old
      BY <1>0, <1>4, <2>3, TwoPlaces
    <3>2. v[1] # 0
      BY <1>4, <2>3, <3>1
    <3>3. Capacity(new) <= place(v, new) /\ place(v, new) \in Pos
      BY <1>4, <3>1, <3>2, TwoPlaces
    <3>4. Capacity(new) \in Nat /\ place(v, new) \in Int /\ place(node, old) \in Int
      BY <1>4, <2>1, <3>3, RowNumbers DEF Pos
    <3> QED BY <2>1, <3>3, <3>4
  <2>4. ASSUME v # Zero PROVE v = node /\ v \in Nodes(n)
    <3>1. v \in Nodes(n) /\ place(v, old) = place(node, old)
      BY <2>2, <2>3, <2>4
    <3> QED BY <1>0, <1>4, <2>1, <3>1, FrameApart
  <2>5. ASSUME node \in Nodes(n) PROVE v = node
    BY <2>2, <2>5 DEF Has
  <2>6. v = node => node \in Nodes(n)
    <3>1. node # Zero
      BY <1>4, <2>1, LeafNodes
    <3> QED BY <2>4, <3>1
  <2>7. v \in {Zero, node}
    BY <2>4
  <2> QED BY <2>1, <2>5, <2>6, <2>7 DEF v
<1>6. ASSUME NEW p \in Pos PROVE Copied(m)[p] \in Doubled(n, old, new)[p]
  <2> DEFINE c == Copied(m)[p]
  <2> SUFFICES /\ c \in Values
               /\ \/ c = Zero
                  \/ c \in Nodes(n) /\ (place(c, old) = p \/ (c[1] >= 1 /\ place(c, new) = p))
               /\ Has(n, old, p, c) /\ Has(n, new, p, c)
    BY <1>6 DEF Doubled, HalfCopied
  <2>1. CASE \E node \in Moved(m) : place(node, new) = p
    <3> DEFINE node == CHOOSE x \in Moved(m) : place(x, new) = p
    <3>1. node \in Moved(m) /\ place(node, new) = p /\ c = file[place(node, old)]
      BY <1>6, <2>1 DEF Copied, old, new
    <3> HIDE DEF node, c
    <3>2. /\ node \in Frame(old) /\ node \in Frame(new) /\ node[1] # 0 /\ node[1] \in 0 .. old
          /\ Capacity(new) <= p
      BY <1>1, <1>4, <3>1, TwoPlaces
    <3>3. c \in {Zero, node} /\ (c = node => node \in Nodes(n)) /\ (node \in Nodes(n) => c = node)
      BY <1>5, <3>1
    <3>4. c = Zero \/ (c \in Nodes(n) /\ c[1] >= 1 /\ place(c, new) = p)
      <4>1. node[1] >= 1
        BY <1>4, <3>2
      <4> QED BY <3>1, <3>3, <4>1
    <3>5. c \in Values
      BY <1>0, <3>4, NodesAreValues DEF Values
    <3>6. Has(n, new, p, c)
      <4> SUFFICES ASSUME NEW x \in Nodes(n), place(x, new) = p PROVE c = x
        BY DEF Has
      <4>1. x \in Frame(new)
        BY <1>0, <1>4, TwoPlaces
      <4>2. x = node
        BY <1>4, <3>1, <3>2, <4>1, FrameApart
      <4> QED BY <3>3, <4>2
    <3>7. Has(n, old, p, c)
      <4> SUFFICES ASSUME NEW x \in Nodes(n), place(x, old) = p PROVE FALSE
        BY DEF Has
      <4>1. place(x, old) < Capacity(new)
        BY <1>0, <1>4, TwoPlaces
      <4>2. p \in Int /\ Capacity(new) \in Int
        BY <1>4, RowNumbers DEF Pos
      <4> QED BY <3>2, <4>1, <4>2
    <3> QED BY <3>4, <3>5, <3>6, <3>7
  <2>2. CASE ~ \E node \in Moved(m) : place(node, new) = p
    <3>1. c = file[p]
      BY <1>6, <2>2 DEF Copied, old, new
    <3> HIDE DEF c
    <3>2. Has(n, new, p, c)
      <4> SUFFICES ASSUME NEW x \in Nodes(n), place(x, new) = p PROVE c = x
        BY DEF Has
      <4>1. x[1] = 0
        BY <1>2, <2>2
      <4>2. place(x, old) = p
        BY <1>0, <1>4, <4>1, TwoPlaces
      <4> QED BY <1>3, <3>1, <4>2 DEF Has
    <3> QED BY <1>3, <3>1, <3>2
  <2> QED BY <2>1, <2>2
<1> QED BY <1>6 DEF old, new

\* Clearing the positions that became leaves leaves the new layout alone.
LEMMA ClearLeaves ==
    ASSUME NEW m, m.old_rows \in Rows, m.new_rows \in Rows, m.old_rows < m.new_rows,
           NEW n \in Nat, n <= Capacity(m.old_rows),
           \A p \in Pos : file[p] \in HalfCleared(n, m.old_rows, m.new_rows)[p]
    PROVE  Cleared(m) = Layout(n, m.new_rows)
<1> DEFINE old == m.old_rows
           new == m.new_rows
<1>1. \A p \in Pos :
        /\ \/ file[p] = Zero
           \/ file[p] \in Nodes(n) /\ place(file[p], new) = p
           \/ Capacity(old) <= p /\ p < Capacity(new)
        /\ Has(n, new, p, file[p])
  BY DEF HalfCleared
<1>2. \A p \in Pos : Cleared(m)[p] = IF Capacity(old) <= p /\ p < Capacity(new) THEN Zero ELSE file[p]
  BY DEF Cleared
<1>3. Cleared(m) = [p \in Pos |-> Cleared(m)[p]]
  BY DEF Cleared
<1> HIDE DEF old, new
<1>4. old \in Rows /\ new \in Rows /\ old < new /\ Capacity(old) \in Nat /\ Capacity(new) \in Nat
      /\ n <= Capacity(old) /\ n <= Capacity(new)
  <2>1. old \in Rows /\ new \in Rows /\ old < new /\ n <= Capacity(old)
    BY DEF old, new
  <2>2. Capacity(old) < Capacity(new) /\ Capacity(old) \in Nat /\ Capacity(new) \in Nat
    BY <2>1, LayoutsApart
  <2> QED BY <2>1, <2>2
<1>5. Nodes(n) \subseteq Frame(old)
  BY <1>4, NodesInFrame
<1>6. \A p \in Pos : Cleared(m)[p] = Zero
                       \/ (Cleared(m)[p] \in Nodes(n) /\ place(Cleared(m)[p], new) = p)
  BY <1>1, <1>2
<1>7. ASSUME NEW node \in Nodes(n) PROVE Cleared(m)[place(node, new)] = node
  <2>1. /\ place(node, new) \in Pos
        /\ node[1] = 0 => place(node, new) < Capacity(old)
        /\ node[1] # 0 => Capacity(new) <= place(node, new)
    BY <1>4, <1>5, TwoPlaces
  <2>2. place(node, new) \in Int
    BY <2>1 DEF Pos
  <2>3. ~(Capacity(old) <= place(node, new) /\ place(node, new) < Capacity(new))
    BY <1>4, <2>1, <2>2
  <2>4. Cleared(m)[place(node, new)] = file[place(node, new)]
    BY <1>2, <2>1, <2>3
  <2>5. Has(n, new, place(node, new), file[place(node, new)])
    BY <1>1, <2>1
  <2> QED BY <2>4, <2>5 DEF Has
<1>8. Cleared(m) = Layout(n, new)
  BY <1>3, <1>4, <1>6, <1>7, LayoutIs
<1> QED BY <1>8 DEF new

-----------------------------------------------------------------------------
(* The journal *)

\* A nonempty set of numbers up to a bound has a largest element.
LEMMA LargestNatural ==
    ASSUME NEW k \in Nat, NEW T \in SUBSET (1 .. k), T # {}
    PROVE  \E x \in T : \A y \in T : y <= x
<1> DEFINE U == {n \in Nat : k - n \in T}
<1>1. U \in SUBSET Nat
  OBVIOUS
<1>2. U # {}
  <2>1. PICK x \in T : TRUE
    OBVIOUS
  <2>2. x \in 1 .. k /\ k - x \in Nat /\ k - (k - x) = x
    OBVIOUS
  <2>3. k - x \in U
    BY <2>2
  <2> QED BY <2>3
<1>3. PICK n \in U : \A m \in U : n <= m
  BY <1>1, <1>2, LeastNatural
<1>4. n \in Nat /\ k - n \in T
  OBVIOUS
<1>5. ASSUME NEW y \in T PROVE y <= k - n
  <2>1. y \in 1 .. k /\ k - y \in Nat /\ k - (k - y) = y
    OBVIOUS
  <2>2. k - y \in U
    BY <2>1
  <2>3. n <= k - y
    BY <1>3, <2>2
  <2> QED BY <1>4, <2>1, <2>3
<1> QED BY <1>4, <1>5

\* The types of the journal.
LEMMA RecordTypes ==
    ASSUME JournalOK
    PROVE  /\ base \in Nat /\ 1 <= base /\ base <= Capacity(MaxRows) /\ Len(log) \in Nat
           /\ DOMAIN log = 1 .. Len(log)
           /\ \A i \in 1 .. Len(log) :
                /\ log[i] \in RecordType /\ log[i].from \in Nat /\ log[i].to \in Nat
                /\ log[i].rows \in Rows /\ log[i].forward \in BOOLEAN
                /\ base <= log[i].from /\ log[i].from < log[i].to
                /\ log[i].to <= Capacity(log[i].rows)
<1>1. base \in Nat /\ 1 <= base /\ base <= Capacity(MaxRows)
  <2>1. Capacity(MaxRows) \in Nat /\ base \in 1 .. Capacity(MaxRows)
    BY RowNumbers, RowsAssumption DEF JournalOK, Rows
  <2> QED BY <2>1
<1>2. log \in Seq(RecordType)
  BY DEF JournalOK
<1>3. Len(log) \in Nat /\ DOMAIN log = 1 .. Len(log) /\ \A i \in 1 .. Len(log) : log[i] \in RecordType
  BY <1>2
<1>4. \A i \in 1 .. Len(log) : /\ log[i].from \in Nat /\ log[i].to \in Nat
                               /\ log[i].rows \in Rows /\ log[i].forward \in BOOLEAN
  BY <1>3 DEF RecordType
<1>5. \A i \in 1 .. Len(log) : /\ base <= log[i].from /\ log[i].from < log[i].to
                               /\ log[i].to <= Capacity(log[i].rows)
  BY DEF JournalOK
<1> QED BY <1>1, <1>3, <1>4, <1>5

\* There is a latest forward record, if any.
LEMMA LatestForward ==
    ASSUME JournalOK, ForwardRecords # {}
    PROVE  /\ latest_forward \in ForwardRecords /\ \A j \in ForwardRecords : j <= latest_forward
           /\ latest_forward \in 1 .. Len(log)
<1>1. Len(log) \in Nat /\ ForwardRecords \in SUBSET (1 .. Len(log))
  BY RecordTypes DEF ForwardRecords
<1>2. \E i \in ForwardRecords : \A j \in ForwardRecords : j <= i
  BY <1>1, LargestNatural
<1> QED BY <1>1, <1>2 DEF latest_forward

\* A record fits into a layout that is not older than it.
LEMMA RecordFits ==
    ASSUME JournalOK, NEW r \in Rows, Fits(r), NEW i \in 1 .. Len(log)
    PROVE  log[i].to <= Capacity(r) /\ log[i].from <= Capacity(r)
<1>1. /\ log[i].from \in Nat /\ log[i].to \in Nat /\ log[i].rows \in Rows
      /\ log[i].from < log[i].to /\ log[i].to <= Capacity(log[i].rows)
  BY RecordTypes
<1>2. log[i].rows <= r
  BY DEF Fits
<1>3. log[i].rows \in Nat /\ r \in Nat /\ r <= MaxShift
  BY <1>1, RowNumbers
<1>4. Pow2[log[i].rows] <= Pow2[r] /\ Pow2[r] \in Nat /\ Pow2[log[i].rows] \in Nat
  BY <1>2, <1>3, PowGrows
<1> QED BY <1>1, <1>4 DEF Capacity

\* The forest that the journal describes.
LEMMA ExpectedFits ==
    ASSUME JournalOK, NEW r \in Rows, Fits(r)
    PROVE  /\ Expected \in Nat /\ base \in Nat /\ 1 <= base /\ base <= Expected
           /\ Expected <= Capacity(r) /\ base <= Capacity(r) /\ Expected <= Capacity(MaxRows)
           /\ Nodes(base) \subseteq Nodes(Expected) /\ Nodes(Expected) \subseteq Recorded
           /\ Nodes(Expected) = Nodes(base) \cup UNION {NewNodes(log[i]) : i \in ForwardRecords}
<1>1. base \in Nat /\ 1 <= base /\ base <= Capacity(r) /\ Capacity(r) <= Capacity(MaxRows)
      /\ Capacity(r) \in Nat /\ Capacity(MaxRows) \in Nat
  BY RecordTypes, RowNumbers DEF Fits
<1>2. CASE ForwardRecords = {}
  <2>1. Expected = base
    BY <1>2 DEF Expected
  <2> QED BY <1>1, <1>2, <2>1 DEF Recorded
<1>3. CASE ForwardRecords # {}
  <2> DEFINE i == latest_forward
  <2>1. i \in ForwardRecords /\ (\A j \in ForwardRecords : j <= i) /\ i \in 1 .. Len(log)
    BY <1>3, LatestForward
  <2>2. Expected = log[i].to
    BY <1>3 DEF Expected
  <2> HIDE DEF i
  <2>3. /\ log[i].from \in Nat /\ log[i].to \in Nat /\ base <= log[i].from /\ log[i].from < log[i].to
        /\ log[i].to <= Capacity(r)
    BY <2>1, RecordTypes, RecordFits
  <2>4. Expected \in Nat /\ base <= Expected /\ Expected <= Capacity(r) /\ Expected <= Capacity(MaxRows)
    BY <1>1, <2>2, <2>3
  <2>5. Nodes(log[i].to) =
          Nodes(base) \cup UNION {NewNodes(log[j]) : j \in {k \in ForwardRecords : k <= i}}
    BY <2>1 DEF JournalOK
  <2>6. {k \in ForwardRecords : k <= i} = ForwardRecords
    BY <2>1
  <2>7. Nodes(Expected) = Nodes(base) \cup UNION {NewNodes(log[j]) : j \in ForwardRecords}
    BY <2>2, <2>5, <2>6
  <2>8. ForwardRecords \subseteq 1 .. Len(log)
    BY DEF ForwardRecords
  <2>9. Nodes(Expected) \subseteq Recorded
    BY <2>7, <2>8 DEF Recorded
  <2> QED BY <1>1, <2>4, <2>7, <2>9
<1> QED BY <1>2, <1>3

\* The nodes that records add.
Touched(records) == UNION {NewNodes(log[i]) : i \in records}

\* All of them have a place, and the translated position is that place.
LEMMA JournalPlace ==
    ASSUME JournalOK, rows \in Rows, Fits(rows), NEW i \in 1 .. Len(log), NEW node \in NewNodes(log[i])
    PROVE  /\ journal_position(log[i], node) = place(node, rows)
           /\ node \in Frame(rows) /\ node \notin Nodes(base) /\ node \in Nodes(log[i].to)
<1> DEFINE r == log[i].rows
<1>1. /\ log[i].from \in Nat /\ log[i].to \in Nat /\ r \in Rows /\ base <= log[i].from
      /\ log[i].from < log[i].to /\ log[i].to <= Capacity(r) /\ base \in Nat
  BY RecordTypes
<1>2. r <= rows
  BY DEF Fits
<1> HIDE DEF r
<1>3. node \in Nodes(log[i].to) /\ node \notin Nodes(log[i].from)
  BY DEF NewNodes
<1>4. node \in Frame(r)
  BY <1>1, <1>3, NodesInFrame
<1>5. node \in Frame(rows)
  BY <1>1, <1>2, <1>4, FrameGrows
<1>6. node \notin Nodes(base)
  BY <1>1, <1>3, NodesGrow
<1>7. /\ node[1] \in 0 .. r /\ node[2] \in Nat /\ node[2] < Pow2[r - node[1]] /\ node[1] \in 0 .. rows
  BY <1>1, <1>4, <1>5, FramePlace DEF Frame
<1>8. r \in Nat /\ r + 1 <= MaxShift /\ rows \in Nat /\ rows + 1 <= MaxShift
  BY <1>1, RowNumbers
<1>9. start_position_at_row(node[1], rows) \in Int
  BY <1>7, <1>8, RowBounds
<1>10. translate_position(start_position_at_row(node[1], r) + node[2], r, rows) =
         start_position_at_row(node[1], rows) + node[2]
  BY <1>7, <1>8, <1>9, Translated
<1> QED BY <1>3, <1>5, <1>6, <1>10 DEF journal_position, place, r

\* What the writes of records do to a file f.
Gains(g, f, nodes) ==
    /\ g = [p \in Pos |-> g[p]]
    /\ \A node \in nodes : place(node, rows) \in Pos /\ g[place(node, rows)] = node
    /\ \A p \in Pos : (\A node \in nodes : place(node, rows) # p) => g[p] = f[p]

Loses(g, f, nodes) ==
    /\ g = [p \in Pos |-> g[p]]
    /\ \A node \in nodes : place(node, rows) \in Pos /\ g[place(node, rows)] = Zero
    /\ \A p \in Pos : (\A node \in nodes : place(node, rows) # p) => g[p] = f[p]

LEMMA DeltasAt ==
    ASSUME JournalOK, rows \in Rows, Fits(rows), NEW records \in SUBSET (1 .. Len(log)), NEW f
    PROVE  /\ Gains(Applied(f, records), f, Touched(records))
           /\ Loses(Undone(f, records), f, Touched(records))
<1> DEFINE D == Deltas(records)
           T == Touched(records)
<1>1. \A node \in T : node \in Frame(rows) /\ place(node, rows) \in Pos
  <2> SUFFICES ASSUME NEW node \in T PROVE node \in Frame(rows) /\ place(node, rows) \in Pos
    OBVIOUS
  <2>1. PICK i \in records : node \in NewNodes(log[i])
    BY DEF Touched
  <2>2. node \in Frame(rows)
    BY <2>1, JournalPlace
  <2> QED BY <2>2, FramePlace
<1>2. ASSUME NEW d \in D PROVE d[2] \in T /\ d[1] = place(d[2], rows)
  <2>1. PICK i \in records : d \in {<<journal_position(log[i], node), node>> : node \in NewNodes(log[i])}
    BY DEF Deltas
  <2>2. PICK node \in NewNodes(log[i]) : d = <<journal_position(log[i], node), node>>
    BY <2>1
  <2>3. journal_position(log[i], node) = place(node, rows)
    BY <2>2, JournalPlace
  <2>4. node \in T
    BY DEF Touched
  <2> QED BY <2>2, <2>3, <2>4
<1>3. ASSUME NEW node \in T PROVE \E d \in D : d[1] = place(node, rows)
  <2>1. PICK i \in records : node \in NewNodes(log[i])
    BY DEF Touched
  <2>2. journal_position(log[i], node) = place(node, rows)
    BY <2>1, JournalPlace
  <2> DEFINE d == <<journal_position(log[i], node), node>>
  <2>3. d \in D
    BY <2>1 DEF Deltas
  <2>4. d[1] = place(node, rows)
    BY <2>2
  <2> QED BY <2>3, <2>4
<1> HIDE DEF T
<1>4. ASSUME NEW node \in T
      PROVE  /\ Applied(f, records)[place(node, rows)] = node
             /\ Undone(f, records)[place(node, rows)] = Zero
  <2> DEFINE p == place(node, rows)
             d == CHOOSE x \in D : x[1] = p
  <2>1. p \in Pos /\ \E x \in D : x[1] = p
    BY <1>1, <1>3
  <2>2. d \in D /\ d[1] = p
    BY <2>1
  <2>3. Applied(f, records)[p] = d[2] /\ Undone(f, records)[p] = Zero
    BY <2>1 DEF Applied, Undone
  <2> HIDE DEF d, D
  <2>4. d[2] \in T /\ place(d[2], rows) = place(node, rows)
    BY <1>2, <2>2
  <2>5. d[2] = node
    BY <1>1, <2>4, FrameApart
  <2> QED BY <2>3, <2>5
<1>5. ASSUME NEW p \in Pos, \A node \in T : place(node, rows) # p
      PROVE  Applied(f, records)[p] = f[p] /\ Undone(f, records)[p] = f[p]
  <2>1. ~ \E d \in D : d[1] = p
    BY <1>2, <1>5
  <2> QED BY <2>1 DEF Applied, Undone
<1>6. /\ Applied(f, records) = [p \in Pos |-> Applied(f, records)[p]]
      /\ Undone(f, records) = [p \in Pos |-> Undone(f, records)[p]]
  BY DEF Applied, Undone
<1> QED BY <1>1, <1>4, <1>5, <1>6 DEF T, Gains, Loses

\* Applying a record to the forest before it gives the forest after it, and
\* undoing it takes that back.
LEMMA RecordSteps ==
    ASSUME JournalOK, rows \in Rows, Fits(rows), NEW i \in 1 .. Len(log)
    PROVE  /\ Applied(Layout(log[i].from, rows), {i}) = Layout(log[i].to, rows)
           /\ Undone(Layout(log[i].to, rows), {i}) = Layout(log[i].from, rows)
<1> DEFINE a == log[i].from
           b == log[i].to
           A == Layout(a, rows)
           B == Layout(b, rows)
           T == Nodes(b) \ Nodes(a)
<1>1. a \in Nat /\ b \in Nat /\ a <= b /\ a <= Capacity(rows) /\ b <= Capacity(rows)
  BY RecordTypes, RecordFits
<1>2. Touched({i}) = T
  BY DEF Touched, NewNodes
<1> HIDE DEF a, b
<1>3. Nodes(a) \subseteq Nodes(b) /\ Nodes(b) \subseteq Frame(rows)
  BY <1>1, NodesGrow, NodesInFrame
<1>4. /\ \A p \in Pos : A[p] = Zero \/ (A[p] \in Nodes(a) /\ place(A[p], rows) = p)
      /\ \A node \in Nodes(a) : A[place(node, rows)] = node
  BY <1>1, LayoutAt
<1>5. /\ \A p \in Pos : B[p] = Zero \/ (B[p] \in Nodes(b) /\ place(B[p], rows) = p)
      /\ \A node \in Nodes(b) : B[place(node, rows)] = node
  BY <1>1, LayoutAt
<1> HIDE DEF A, B
<1> DEFINE f == Applied(A, {i})
           g == Undone(B, {i})
<1>16. Gains(f, A, T) /\ Loses(g, B, T)
  <2>1. {i} \in SUBSET (1 .. Len(log))
    OBVIOUS
  <2>2. Gains(f, A, Touched({i})) /\ Loses(g, B, Touched({i}))
    BY <2>1, DeltasAt
  <2> QED BY <1>2, <2>2, Zenon
<1> HIDE DEF f, g
<1>6. /\ f = [p \in Pos |-> f[p]]
      /\ \A node \in T : place(node, rows) \in Pos /\ f[place(node, rows)] = node
      /\ \A p \in Pos : (\A node \in T : place(node, rows) # p) => f[p] = A[p]
  BY <1>16, Zenon DEF Gains
<1>7. /\ g = [p \in Pos |-> g[p]]
      /\ \A node \in T : place(node, rows) \in Pos /\ g[place(node, rows)] = Zero
      /\ \A p \in Pos : (\A node \in T : place(node, rows) # p) => g[p] = B[p]
  BY <1>16, Zenon DEF Loses
\* Different nodes do not share a place.
<1>8. ASSUME NEW x \in Nodes(b), NEW y \in Nodes(b), place(x, rows) = place(y, rows) PROVE x = y
  BY <1>3, <1>8, FrameApart
<1>9. \A node \in Nodes(b) : place(node, rows) \in Pos
  BY <1>3, FramePlace
<1>10. \A p \in Pos : f[p] = Zero \/ (f[p] \in Nodes(b) /\ place(f[p], rows) = p)
  <2> SUFFICES ASSUME NEW p \in Pos PROVE f[p] = Zero \/ (f[p] \in Nodes(b) /\ place(f[p], rows) = p)
    OBVIOUS
  <2>1. CASE \E node \in T : place(node, rows) = p
    <3>1. PICK node \in T : place(node, rows) = p
      BY <2>1
    <3> QED BY <1>6, <3>1
  <2>2. CASE \A node \in T : place(node, rows) # p
    BY <1>3, <1>4, <1>6, <2>2
  <2> QED BY <2>1, <2>2
<1>11. ASSUME NEW node \in Nodes(b) PROVE f[place(node, rows)] = node
  <2>1. CASE node \in T
    BY <1>6, <2>1
  <2>2. CASE node \in Nodes(a)
    <3>1. \A x \in T : place(x, rows) # place(node, rows)
      BY <1>8, <2>2
    <3> QED BY <1>4, <1>6, <1>9, <2>2, <3>1
  <2> QED BY <2>1, <2>2
<1>12. f = B
  BY <1>1, <1>6, <1>10, <1>11, LayoutIs DEF B
<1>13. \A p \in Pos : g[p] = Zero \/ (g[p] \in Nodes(a) /\ place(g[p], rows) = p)
  <2> SUFFICES ASSUME NEW p \in Pos PROVE g[p] = Zero \/ (g[p] \in Nodes(a) /\ place(g[p], rows) = p)
    OBVIOUS
  <2>1. CASE \E node \in T : place(node, rows) = p
    <3>1. PICK node \in T : place(node, rows) = p
      BY <2>1
    <3> QED BY <1>7, <3>1
  <2>2. CASE \A node \in T : place(node, rows) # p
    <3>1. g[p] = B[p] /\ (B[p] = Zero \/ (B[p] \in Nodes(b) /\ place(B[p], rows) = p))
      BY <1>5, <1>7, <2>2
    <3> QED BY <2>2, <3>1
  <2> QED BY <2>1, <2>2
<1>14. ASSUME NEW node \in Nodes(a) PROVE g[place(node, rows)] = node
  <2>1. node \in Nodes(b)
    BY <1>3
  <2>2. \A x \in T : place(x, rows) # place(node, rows)
    BY <1>8, <2>1
  <2> QED BY <1>5, <1>7, <1>9, <2>1, <2>2
<1>15. g = A
  BY <1>1, <1>7, <1>13, <1>14, LayoutIs DEF A
<1> QED BY <1>12, <1>15 DEF f, g, A, B, a, b

\* A replay first takes back every record, whatever part of it the file has,
\* and then applies the forward ones.
LEMMA ReplaySteps ==
    ASSUME JournalOK, rows \in Rows, Fits(rows)
    PROVE  /\ \A f : f = [p \in Pos |-> f[p]]
                     /\ (\A p \in Pos : f[p] \in Settled(base, Recorded, rows)[p])
                     => Undone(f, 1 .. Len(log)) = Layout(base, rows)
           /\ Applied(Layout(base, rows), ForwardRecords) = Layout(Expected, rows)
<1>1. /\ base \in Nat /\ base <= Capacity(rows) /\ Expected \in Nat /\ Expected <= Capacity(rows)
      /\ Nodes(base) \subseteq Nodes(Expected)
      /\ Nodes(Expected) = Nodes(base) \cup Touched(ForwardRecords)
  BY ExpectedFits DEF Touched
<1>2. Nodes(Expected) \subseteq Frame(rows)
  BY <1>1, NodesInFrame
<1>3. \A node \in Nodes(Expected) : place(node, rows) \in Pos
  BY <1>2, FramePlace
<1>4. ASSUME NEW f, f = [p \in Pos |-> f[p]],
             \A p \in Pos : f[p] \in Settled(base, Recorded, rows)[p]
      PROVE  Undone(f, 1 .. Len(log)) = Layout(base, rows)
  <2> DEFINE g == Undone(f, 1 .. Len(log))
             T == Touched(1 .. Len(log))
  <2>0. Loses(g, f, T)
    BY DeltasAt
  <2>2. \A node \in T : node \in Frame(rows) /\ node \notin Nodes(base)
    <3> SUFFICES ASSUME NEW node \in T PROVE node \in Frame(rows) /\ node \notin Nodes(base)
      OBVIOUS
    <3>1. PICK i \in 1 .. Len(log) : node \in NewNodes(log[i])
      BY DEF Touched
    <3> QED BY <3>1, JournalPlace
  <2>3. Recorded = Nodes(base) \cup T
    BY DEF Recorded, Touched
  <2> HIDE DEF g, T
  <2>1. /\ g = [p \in Pos |-> g[p]]
        /\ \A node \in T : place(node, rows) \in Pos /\ g[place(node, rows)] = Zero
        /\ \A p \in Pos : (\A node \in T : place(node, rows) # p) => g[p] = f[p]
    BY <2>0, Zenon DEF Loses
  <2>4. \A p \in Pos : /\ f[p] = Zero \/ (f[p] \in Nodes(base) \cup T /\ place(f[p], rows) = p)
                       /\ Has(base, rows, p, f[p])
    BY <1>4, <2>3 DEF Settled
  <2>5. ASSUME NEW p \in Pos PROVE g[p] = Zero \/ (g[p] \in Nodes(base) /\ place(g[p], rows) = p)
    <3>1. CASE \E node \in T : place(node, rows) = p
      BY <2>1, <3>1
    <3>2. CASE \A node \in T : place(node, rows) # p
      BY <2>1, <2>4, <3>2
    <3> QED BY <3>1, <3>2
  <2>6. ASSUME NEW node \in Nodes(base) PROVE g[place(node, rows)] = node
    <3>1. node \in Frame(rows) /\ place(node, rows) \in Pos
      BY <1>1, <1>2, <1>3
    <3>2. ASSUME NEW x \in T PROVE place(x, rows) # place(node, rows)
      BY <2>2, <3>1, FrameApart
    <3>3. g[place(node, rows)] = f[place(node, rows)]
      BY <2>1, <3>1, <3>2
    <3> QED BY <2>4, <3>1, <3>3 DEF Has
  <2>7. g = Layout(base, rows)
    BY <1>1, <2>1, <2>5, <2>6, LayoutIs
  <2> QED BY <2>7 DEF g
<1>5. Applied(Layout(base, rows), ForwardRecords) = Layout(Expected, rows)
  <2> DEFINE A == Layout(base, rows)
             g == Applied(A, ForwardRecords)
             T == Touched(ForwardRecords)
  <2>1. ForwardRecords \in SUBSET (1 .. Len(log))
    BY DEF ForwardRecords
  <2>0. Gains(g, A, T)
    BY <2>1, DeltasAt
  <2>3. /\ \A p \in Pos : A[p] = Zero \/ (A[p] \in Nodes(base) /\ place(A[p], rows) = p)
        /\ \A node \in Nodes(base) : A[place(node, rows)] = node
    BY <1>1, LayoutAt
  <2>4. Nodes(Expected) = Nodes(base) \cup T
    BY <1>1
  <2> HIDE DEF g, T, A
  <2>2. /\ g = [p \in Pos |-> g[p]]
        /\ \A node \in T : place(node, rows) \in Pos /\ g[place(node, rows)] = node
        /\ \A p \in Pos : (\A node \in T : place(node, rows) # p) => g[p] = A[p]
    BY <2>0, Zenon DEF Gains
  <2>5. ASSUME NEW p \in Pos PROVE g[p] = Zero \/ (g[p] \in Nodes(Expected) /\ place(g[p], rows) = p)
    <3>1. CASE \E node \in T : place(node, rows) = p
      BY <2>2, <2>4, <3>1
    <3>2. CASE \A node \in T : place(node, rows) # p
      BY <2>2, <2>3, <2>4, <3>2
    <3> QED BY <3>1, <3>2
  <2>6. ASSUME NEW node \in Nodes(Expected) PROVE g[place(node, rows)] = node
    <3>1. CASE node \in T
      BY <2>2, <3>1
    <3>2. CASE node \in Nodes(base) /\ node \notin T
      <4>1. ASSUME NEW x \in T PROVE place(x, rows) # place(node, rows)
        BY <1>2, <2>4, <3>2, FrameApart
      <4> QED BY <1>3, <2>2, <2>3, <3>2, <4>1
    <3> QED BY <2>4, <3>1, <3>2
  <2>7. g = Layout(Expected, rows)
    BY <1>1, <2>2, <2>5, <2>6, LayoutIs
  <2> QED BY <2>7 DEF g, A
<1> QED BY <1>4, <1>5

\* A write of a record, or its undoing, whole or in part, leaves a settled
\* file settled.
LEMMA DeltasSettled ==
    ASSUME JournalOK, rows \in Rows, Fits(rows), NEW records \in SUBSET (1 .. Len(log)),
           \A p \in Pos : file[p] \in Settled(base, Recorded, rows)[p]
    PROVE  \A p \in Pos : /\ Applied(file, records)[p] \in Settled(base, Recorded, rows)[p]
                          /\ Undone(file, records)[p] \in Settled(base, Recorded, rows)[p]
<1> DEFINE T == Touched(records)
           G == Settled(base, Recorded, rows)
<1>1. /\ \A node \in T : /\ Applied(file, records)[place(node, rows)] = node
                         /\ Undone(file, records)[place(node, rows)] = Zero
      /\ \A p \in Pos : (\A node \in T : place(node, rows) # p) =>
            Applied(file, records)[p] = file[p] /\ Undone(file, records)[p] = file[p]
  <2>1. Gains(Applied(file, records), file, T) /\ Loses(Undone(file, records), file, T)
    BY DeltasAt
  <2> QED BY <2>1, Zenon DEF Gains, Loses
<1>2. ASSUME NEW node \in T
      PROVE  node \in Frame(rows) /\ node \notin Nodes(base) /\ node \in Recorded /\ node \in Values
  <2>1. PICK i \in records : node \in NewNodes(log[i])
    BY DEF Touched
  <2>2. node \in Frame(rows) /\ node \notin Nodes(base) /\ node \in Nodes(log[i].to)
    BY <2>1, JournalPlace
  <2>3. log[i].to \in Nat /\ log[i].to <= Capacity(rows)
    BY RecordTypes, RecordFits
  <2>4. node \in Values
    BY <2>2, <2>3, NodesAreValues
  <2> QED BY <2>1, <2>2, <2>4 DEF Recorded
<1>3. Nodes(base) \subseteq Frame(rows)
  BY ExpectedFits, NodesInFrame
<1> HIDE DEF T
<1>4. ASSUME NEW node \in T, NEW p \in Pos, place(node, rows) = p
      PROVE  node \in G[p] /\ Zero \in G[p]
  <2>1. \A v : Has(base, rows, p, v)
    BY <1>2, <1>3, <1>4, FrameApart DEF Has
  <2>2. Zero \in Values /\ node \in Values /\ node \in Recorded
    BY <1>2 DEF Values
  <2> QED BY <1>4, <2>1, <2>2 DEF Settled
<1> HIDE DEF G
<1>5. ASSUME NEW p \in Pos PROVE Applied(file, records)[p] \in G[p] /\ Undone(file, records)[p] \in G[p]
  <2>1. file[p] \in G[p]
    BY DEF G
  <2>2. CASE \E node \in T : place(node, rows) = p
    BY <1>1, <1>4, <2>2
  <2>3. CASE \A node \in T : place(node, rows) # p
    BY <1>1, <2>1, <2>3
  <2> QED BY <2>2, <2>3
<1> QED BY <1>5 DEF G

-----------------------------------------------------------------------------
(* The search for the last leaf *)

Ends == 0 .. Capacity(MaxRows)

\* One step of the search, with s for the rest of it.
SearchStep(s, first, end) ==
    IF first >= end THEN first
    ELSE LET middle == first + (end - first) \div 2 IN
         IF file[middle] # Zero THEN s[<<middle + 1, end>>] ELSE s[<<first, middle>>]

\* The halves of an interval are shorter.
LEMMA Halves ==
    ASSUME NEW first \in Nat, NEW end \in Nat, first < end, NEW middle,
           middle = first + (end - first) \div 2
    PROVE  middle \in Nat /\ first <= middle /\ middle < end
  OBVIOUS

\* The recursion of the search has a solution.
LEMMA SearchExists ==
    \E s : s = [x \in Ends \X Ends |-> SearchStep(s, x[1], x[2])]
<1> DEFINE C == Capacity(MaxRows)
           Good(s, k) == \A a \in Ends : \A b \in Ends : b - a <= k => s[<<a, b>>] = SearchStep(s, a, b)
           S == {k \in 0 .. C : \E s : Good(s, k)}
<1>1. C \in Nat /\ Ends = 0 .. C
  BY RowNumbers, RowsAssumption DEF Rows, Ends
<1> HIDE DEF C
<1>2. 0 \in S
  <2> DEFINE s == [x \in Ends \X Ends |-> x[1]]
  <2>1. ASSUME NEW a \in Ends, NEW b \in Ends, b - a <= 0 PROVE s[<<a, b>>] = SearchStep(s, a, b)
    BY <1>1, <2>1 DEF SearchStep
  <2>2. Good(s, 0)
    BY <2>1
  <2> HIDE DEF s, Good
  <2>3. \E t : Good(t, 0)
    BY <2>2
  <2> QED BY <1>1, <2>3
<1>3. ASSUME NEW k \in S, k < C PROVE k + 1 \in S
  <2>0. k \in Nat /\ k + 1 \in 0 .. C
    BY <1>1, <1>3
  <2>1. PICK s : Good(s, k)
    <3> HIDE DEF Good
    <3> QED BY <1>3
  <2> DEFINE t == [x \in Ends \X Ends |-> IF x[2] - x[1] = k + 1 THEN SearchStep(s, x[1], x[2]) ELSE s[x]]
  <2>2. \A a \in Ends : \A b \in Ends :
          t[<<a, b>>] = IF b - a = k + 1 THEN SearchStep(s, a, b) ELSE s[<<a, b>>]
    OBVIOUS
  <2> HIDE DEF t
  <2>3. ASSUME NEW a \in Ends, NEW b \in Ends, b - a <= k + 1 PROVE t[<<a, b>>] = SearchStep(t, a, b)
    <3>1. a \in Nat /\ b \in Nat /\ b <= C
      BY <1>1
    <3>2. SearchStep(t, a, b) = SearchStep(s, a, b)
      <4>1. CASE a >= b
        BY <4>1 DEF SearchStep
      <4>2. CASE ~(a >= b)
        <5> DEFINE middle == a + (b - a) \div 2
        <5>1. middle \in Nat /\ a <= middle /\ middle < b
          BY <3>1, <4>2, Halves
        <5> HIDE DEF middle
        <5>2. middle + 1 \in Ends /\ middle \in Ends /\ b - (middle + 1) # k + 1 /\ middle - a # k + 1
          BY <1>1, <2>0, <2>3, <3>1, <5>1
        <5>3. t[<<middle + 1, b>>] = s[<<middle + 1, b>>] /\ t[<<a, middle>>] = s[<<a, middle>>]
          BY <2>2, <5>2
        <5>4. /\ SearchStep(t, a, b) = IF file[middle] # Zero THEN t[<<middle + 1, b>>] ELSE t[<<a, middle>>]
              /\ SearchStep(s, a, b) = IF file[middle] # Zero THEN s[<<middle + 1, b>>] ELSE s[<<a, middle>>]
          BY <4>2 DEF SearchStep, middle
        <5> QED BY <5>3, <5>4
      <4> QED BY <4>1, <4>2
    <3>3. CASE b - a = k + 1
      BY <2>2, <3>2, <3>3
    <3>4. CASE b - a # k + 1
      <4>1. b - a <= k
        BY <2>0, <2>3, <3>1, <3>4
      <4>2. t[<<a, b>>] = s[<<a, b>>] /\ s[<<a, b>>] = SearchStep(s, a, b)
        BY <2>1, <2>2, <3>4, <4>1
      <4> QED BY <3>2, <4>2
    <3> QED BY <3>3, <3>4
  <2>4. Good(t, k + 1)
    BY <2>3
  <2> HIDE DEF Good
  <2>5. \E u : Good(u, k + 1)
    BY <2>4
  <2> QED BY <2>0, <2>5
<1>4. C \in S
  <2>1. S \in SUBSET Nat
    BY <1>1
  <2> HIDE DEF S
  <2>2. \A n \in S : n < C => n + 1 \in S
    BY <1>3
  <2>3. \A n \in 0 .. C : n \in S
    BY <1>1, <1>2, <2>1, <2>2, UpTo
  <2> QED BY <1>1, <2>3
<1>5. PICK s : Good(s, C)
  <2> HIDE DEF Good
  <2> QED BY <1>4
<1>6. ASSUME NEW a \in Ends, NEW b \in Ends PROVE s[<<a, b>>] = SearchStep(s, a, b)
  <2>1. b - a <= C
    BY <1>1
  <2> QED BY <1>5, <2>1
<1> DEFINE t == [x \in Ends \X Ends |-> s[<<x[1], x[2]>>]]
<1>7. \A a \in Ends : \A b \in Ends : t[<<a, b>>] = s[<<a, b>>]
  OBVIOUS
<1> HIDE DEF t
<1>8. ASSUME NEW a \in Ends, NEW b \in Ends PROVE SearchStep(t, a, b) = SearchStep(s, a, b)
  <2>1. CASE a >= b
    BY <2>1 DEF SearchStep
  <2>2. CASE ~(a >= b)
    <3> DEFINE middle == a + (b - a) \div 2
    <3>1. middle \in Nat /\ a <= middle /\ middle < b /\ a \in Nat /\ b \in Nat /\ b <= C
      BY <1>1, <2>2, Halves
    <3> HIDE DEF middle
    <3>2. middle + 1 \in Ends /\ middle \in Ends
      BY <1>1, <3>1
    <3>3. t[<<middle + 1, b>>] = s[<<middle + 1, b>>] /\ t[<<a, middle>>] = s[<<a, middle>>]
      BY <1>7, <3>2
    <3>4. /\ SearchStep(t, a, b) = IF file[middle] # Zero THEN t[<<middle + 1, b>>] ELSE t[<<a, middle>>]
          /\ SearchStep(s, a, b) = IF file[middle] # Zero THEN s[<<middle + 1, b>>] ELSE s[<<a, middle>>]
      BY <2>2 DEF SearchStep, middle
    <3> QED BY <3>3, <3>4
  <2> QED BY <2>1, <2>2
<1>9. t = [x \in Ends \X Ends |-> SearchStep(t, x[1], x[2])]
  BY <1>6, <1>8 DEF t
<1> QED BY <1>9

LEMMA SearchDef ==
    \A a \in Ends : \A b \in Ends : search[<<a, b>>] = SearchStep(search, a, b)
<1> DEFINE D(s) == [x \in Ends \X Ends |-> SearchStep(s, x[1], x[2])]
<1>1. search = CHOOSE s : s = D(s)
  BY DEF search, SearchStep, Ends
<1>2. \E s : s = D(s)
  BY SearchExists
<1>3. search = D(search)
  <2> HIDE DEF D
  <2> QED BY <1>1, <1>2
<1>4. \A a \in Ends : \A b \in Ends : D(search)[<<a, b>>] = SearchStep(search, a, b)
  OBVIOUS
<1> HIDE DEF D
<1> QED BY <1>3, <1>4, Zenon

\* The search stays in its interval, finds the first leaf if there is one, and
\* finds the end of the leaves if they are initialized without a gap.
LEMMA SearchFinds ==
    ASSUME NEW end \in Ends
    PROVE  /\ search[<<0, end>>] \in 0 .. end
           /\ file[0] # Zero /\ end # 0 => search[<<0, end>>] # 0
           /\ \A n \in 0 .. end :
                (\A i \in 0 .. end - 1 : file[i] # Zero <=> i < n) => search[<<0, end>>] = n
<1> DEFINE C == Capacity(MaxRows)
           In(a, b) == /\ search[<<a, b>>] \in a .. b
                       /\ a = 0 /\ b # 0 /\ file[0] # Zero => search[<<a, b>>] # 0
                       /\ \A n \in a .. b :
                            (\A i \in a .. b - 1 : file[i] # Zero <=> i < n) => search[<<a, b>>] = n
           S == {k \in 0 .. C : \A a \in Ends : \A b \in Ends : a <= b /\ b - a <= k => In(a, b)}
<1>1. C \in Nat /\ Ends = 0 .. C
  BY RowNumbers, RowsAssumption DEF Rows, Ends
<1> HIDE DEF C
<1>2. 0 \in S
  <2>1. ASSUME NEW a \in Ends, NEW b \in Ends, a <= b, b - a <= 0 PROVE In(a, b)
    <3>1. a \in Nat /\ b = a
      BY <1>1, <2>1
    <3>2. search[<<a, b>>] = SearchStep(search, a, b)
      BY SearchDef
    <3>3. search[<<a, b>>] = a
      BY <3>1, <3>2 DEF SearchStep
    <3> QED BY <3>1, <3>3
  <2> HIDE DEF In
  <2> QED BY <1>1, <2>1
<1>3. ASSUME NEW k \in S, k < C PROVE k + 1 \in S
  <2>0. k \in Nat /\ k + 1 \in 0 .. C /\ \A a \in Ends : \A b \in Ends : a <= b /\ b - a <= k => In(a, b)
    BY <1>1, <1>3
  <2>1. ASSUME NEW a \in Ends, NEW b \in Ends, a <= b, b - a <= k + 1 PROVE In(a, b)
    <3>1. CASE a = b
      <4>2. a \in Nat /\ search[<<a, b>>] = SearchStep(search, a, b)
        BY <1>1, SearchDef
      <4>1. search[<<a, b>>] = a /\ a \in Nat
        BY <3>1, <4>2 DEF SearchStep
      <4> QED BY <3>1, <4>1
    <3>2. CASE a < b
      <4> DEFINE m == a + (b - a) \div 2
      <4>1. m \in Nat /\ a <= m /\ m < b /\ a \in Nat /\ b \in Nat /\ b <= C /\ (a = 0 /\ m = 0 => b = 1)
        BY <1>1, <3>2
      <4>2. search[<<a, b>>] = IF file[m] # Zero THEN search[<<m + 1, b>>] ELSE search[<<a, m>>]
        <5>1. ~(a >= b)
          BY <3>2, <4>1
        <5> QED BY <5>1, SearchDef DEF SearchStep
      <4> HIDE DEF m
      <4>3. CASE file[m] # Zero
        <5>1. search[<<a, b>>] = search[<<m + 1, b>>]
          BY <4>2, <4>3
        <5>2. m + 1 \in Ends /\ m + 1 <= b /\ b - (m + 1) <= k
          BY <1>1, <2>0, <2>1, <4>1
        <5>3. In(m + 1, b)
          BY <2>0, <5>2
        <5>4. search[<<a, b>>] \in m + 1 .. b
          BY <5>1, <5>3
        <5>5. ASSUME NEW n \in a .. b, \A i \in a .. b - 1 : file[i] # Zero <=> i < n
              PROVE  search[<<a, b>>] = n
          <6>1. m \in a .. b - 1 /\ m < n
            BY <4>1, <4>3, <5>5
          <6>2. n \in m + 1 .. b /\ \A i \in m + 1 .. b - 1 : file[i] # Zero <=> i < n
            BY <4>1, <5>5, <6>1
          <6> QED BY <5>1, <5>3, <6>2
        <5> QED BY <4>1, <5>4, <5>5
      <4>4. CASE ~(file[m] # Zero)
        <5>1. search[<<a, b>>] = search[<<a, m>>]
          BY <4>2, <4>4
        <5>2. m \in Ends /\ a <= m /\ m - a <= k
          BY <1>1, <2>0, <2>1, <4>1
        <5>3. In(a, m)
          BY <2>0, <5>2
        <5>4. search[<<a, b>>] \in a .. b
          BY <4>1, <5>1, <5>3
        <5>5. ASSUME NEW n \in a .. b, \A i \in a .. b - 1 : file[i] # Zero <=> i < n
              PROVE  search[<<a, b>>] = n
          <6>1. m \in a .. b - 1 /\ ~(m < n)
            BY <4>1, <4>4, <5>5
          <6>2. n \in a .. m /\ \A i \in a .. m - 1 : file[i] # Zero <=> i < n
            BY <4>1, <5>5, <6>1
          <6> QED BY <5>1, <5>3, <6>2
        <5>6. ASSUME a = 0, b # 0, file[0] # Zero PROVE search[<<a, b>>] # 0
          <6>1. m # 0
            BY <4>4, <5>6
          <6> QED BY <5>1, <5>3, <5>6, <6>1
        <5> QED BY <5>4, <5>5, <5>6
      <4> QED BY <4>3, <4>4
    <3>3. a \in Nat /\ b \in Nat
      BY <1>1
    <3> HIDE DEF In
    <3> QED BY <2>1, <3>1, <3>2, <3>3
  <2> HIDE DEF In
  <2> QED BY <2>0, <2>1
<1>4. C \in S
  <2>1. S \in SUBSET Nat
    BY <1>1
  <2> HIDE DEF S
  <2>2. \A n \in S : n < C => n + 1 \in S
    BY <1>3
  <2>3. \A n \in 0 .. C : n \in S
    BY <1>1, <1>2, <2>1, <2>2, UpTo
  <2> QED BY <1>1, <2>3
<1>5. In(0, end)
  <2>1. 0 \in Ends /\ 0 <= end /\ end - 0 <= C
    BY <1>1
  <2> HIDE DEF In
  <2> QED BY <1>4, <2>1
<1> QED BY <1>5

\* An exact file has as many leaves as the journal says, and a settled one has
\* at least the first.
LEMMA CountedLeaves ==
    ASSUME NEW r \in Rows, NEW n \in Nat, n <= Capacity(r), file = Layout(n, r)
    PROVE  search[<<0, Capacity(r)>>] = n
<1>1. /\ r \in Nat /\ Capacity(r) \in Nat /\ Capacity(r) <= Capacity(MaxRows)
      /\ Capacity(MaxRows) \in Nat /\ forest_capacity(MaxRows) = 2 * Capacity(MaxRows) - 1
      /\ 1 <= Capacity(r)
  BY RowNumbers
<1>2. /\ \A p \in Pos : file[p] = Zero \/ (file[p] \in Nodes(n) /\ place(file[p], r) = p)
      /\ \A node \in Nodes(n) : file[place(node, r)] = node
  BY LayoutAt
<1>3. Nodes(n) \subseteq Frame(r)
  BY NodesInFrame
<1>4. ASSUME NEW i \in 0 .. Capacity(r) - 1 PROVE file[i] # Zero <=> i < n
  <2>1. i \in Nat /\ i \in Pos /\ i < Capacity(r)
    BY <1>1 DEF Pos
  <2>2. ASSUME i < n PROVE file[i] # Zero
    <3>1. <<0, i>> \in Nodes(n) /\ n <= Capacity(MaxRows)
      BY <1>1, <2>1, <2>2, LeafNodes
    <3>2. place(<<0, i>>, r) = i
      <4>1. <<0, i>>[1] = 0 /\ <<0, i>>[2] = i
        OBVIOUS
      <4> QED BY <1>3, <3>1, <4>1, FramePlace
    <3>3. file[i] = <<0, i>>
      BY <1>2, <3>1, <3>2
    <3> QED BY <3>1, <3>3, LeafNodes
  <2>3. ASSUME file[i] # Zero PROVE i < n
    <3> DEFINE v == file[i]
    <3>1. v \in Nodes(n) /\ place(v, r) = i
      BY <1>2, <2>1, <2>3
    <3> HIDE DEF v
    <3>2. v[1] = 0 /\ v[2] = i
      <4>1. /\ v[1] # 0 => Capacity(r) <= place(v, r)
            /\ v[1] = 0 => place(v, r) = v[2]
        BY <1>3, <3>1, FramePlace
      <4> QED BY <1>1, <2>1, <3>1, <4>1
    <3>3. (v[2] + 1) * Pow2[v[1]] <= n
      BY <3>1 DEF Nodes
    <3>4. Pow2[0] = 1
      BY PowDef
    <3> QED BY <2>1, <3>2, <3>3, <3>4
  <2> QED BY <2>2, <2>3
<1>5. Capacity(r) \in Ends /\ n \in 0 .. Capacity(r)
  BY <1>1 DEF Ends
<1> QED BY <1>4, <1>5, SearchFinds

LEMMA CountedFirst ==
    ASSUME NEW r \in Rows, NEW n \in Nat, 1 <= n, n <= Capacity(r), NEW recorded,
           \A p \in Pos : file[p] \in Settled(n, recorded, r)[p]
    PROVE  search[<<0, Capacity(r)>>] \in 1 .. Capacity(r)
<1>1. /\ Capacity(r) \in Nat /\ Capacity(r) <= Capacity(MaxRows) /\ 1 <= Capacity(r)
      /\ Capacity(MaxRows) \in Nat
  BY RowNumbers
<1>2. <<0, 0>> \in Nodes(n)
  BY <1>1, LeafNodes
<1>3. Nodes(n) \subseteq Frame(r)
  BY NodesInFrame
<1>4. place(<<0, 0>>, r) = 0 /\ place(<<0, 0>>, r) \in Pos
  <2>1. <<0, 0>>[1] = 0 /\ <<0, 0>>[2] = 0
    OBVIOUS
  <2> QED BY <1>2, <1>3, <2>1, FramePlace
<1>5. Has(n, r, 0, file[0])
  BY <1>4 DEF Settled
<1>6. file[0] # Zero
  BY <1>2, <1>4, <1>5, LeafNodes DEF Has
<1>7. Capacity(r) \in Ends /\ Capacity(r) # 0
  BY <1>1 DEF Ends
<1>8. search[<<0, Capacity(r)>>] \in 0 .. Capacity(r) /\ search[<<0, Capacity(r)>>] # 0
  BY <1>6, <1>7, SearchFinds
<1> QED BY <1>1, <1>8

-----------------------------------------------------------------------------
(* Steps: what they leave alone *)

\* A step that leaves the journal alone leaves what it describes.
LEMMA JournalKept ==
    ASSUME JournalOK, log' = log, base' = base
    PROVE  /\ JournalOK' /\ Expected' = Expected /\ Recorded' = Recorded
           /\ FittingRows' = FittingRows /\ ForwardRecords' = ForwardRecords
<1>1. ForwardRecords' = ForwardRecords
  BY DEF ForwardRecords
<1>2. latest_forward' = latest_forward
  BY <1>1 DEF latest_forward
<1>3. Expected' = Expected
  BY <1>1, <1>2 DEF Expected
<1>4. Recorded' = Recorded
  BY DEF Recorded, NewNodes
<1>5. FittingRows' = FittingRows
  BY DEF FittingRows, Fits
<1>6. JournalOK'
  BY <1>1 DEF JournalOK, NewNodes
<1> QED BY <1>1, <1>3, <1>4, <1>5, <1>6

\* What each sidecar says of the file.
LEMMA SidecarSays ==
    ASSUME NEW m, Resumable(m)
    PROVE  /\ m \in {NoMarker, EmptyMarker} \/ m.stage \in {Copying, Clearing}
           /\ m = NoMarker => /\ disk_rows = file_rows /\ file_rows \in FittingRows
                              /\ Confined(disk, Settled(base, Recorded, file_rows))
           /\ m.stage \in {Copying, Clearing} =>
                /\ m = ResizeMarker(m.old_rows, m.new_rows, m.stage)
                /\ m.old_rows \in FittingRows /\ m.old_rows \in Rows /\ m.new_rows \in Rows
                /\ m.old_rows < m.new_rows /\ m # NoMarker /\ m # EmptyMarker
           /\ m.stage = Copying =>
                /\ file_rows \in {m.old_rows, m.new_rows} /\ disk_rows \in {m.old_rows, m.new_rows}
                /\ Confined(disk, HalfCopied(Expected, m.old_rows, m.new_rows))
           /\ m.stage = Clearing =>
                /\ file_rows = m.new_rows /\ disk_rows = m.new_rows
                /\ Confined(disk, HalfCleared(Expected, m.old_rows, m.new_rows))
<1>1. CASE m = NoMarker
  <2>1. m.stage = "absent"
    BY <1>1 DEF NoMarker
  <2>2. m.stage \notin {Copying, Clearing} /\ m # EmptyMarker
        /\ \A a, b, c : c \in {Copying, Clearing} => m # ResizeMarker(a, b, c)
    BY <1>1, <2>1 DEF Copying, Clearing, EmptyMarker, ResizeMarker, NoMarker
  <2> QED BY <1>1, <2>2 DEF Resumable, Resumes
<1>2. CASE m = EmptyMarker
  <2>1. m.stage = "empty"
    BY <1>2 DEF EmptyMarker
  <2>2. m.stage \notin {Copying, Clearing} /\ m # NoMarker
    BY <1>2, <2>1 DEF Copying, Clearing, NoMarker
  <2> QED BY <1>2, <2>2
<1>3. CASE m # NoMarker /\ m # EmptyMarker
  <2>1. \A a, b, c : ResizeMarker(a, b, c).stage = c
    BY DEF ResizeMarker
  <2>2. FittingRows \subseteq Rows /\ Copying # Clearing
    BY DEF FittingRows, Copying, Clearing
  <2>3. CASE /\ m = ResizeMarker(m.old_rows, m.new_rows, Copying)
             /\ m.old_rows \in FittingRows /\ m.new_rows \in Rows /\ m.old_rows < m.new_rows
             /\ file_rows \in {m.old_rows, m.new_rows} /\ disk_rows \in {m.old_rows, m.new_rows}
             /\ Confined(disk, HalfCopied(Expected, m.old_rows, m.new_rows))
    <3>1. m.stage = Copying
      BY <2>1, <2>3
    <3> QED BY <1>3, <2>2, <2>3, <3>1
  <2>4. CASE /\ m = ResizeMarker(m.old_rows, m.new_rows, Clearing)
             /\ m.old_rows \in FittingRows /\ m.new_rows \in Rows /\ m.old_rows < m.new_rows
             /\ file_rows = m.new_rows /\ disk_rows = m.new_rows
             /\ Confined(disk, HalfCleared(Expected, m.old_rows, m.new_rows))
    <3>1. m.stage = Clearing
      BY <2>1, <2>4
    <3> QED BY <1>3, <2>2, <2>4, <3>1
  <2> QED BY <1>3, <2>3, <2>4, Zenon DEF Resumable, Resumes
<1> QED BY <1>1, <1>2, <1>3

\* A fitting layout holds the forest.
LEMMA FittingHolds ==
    ASSUME JournalOK, NEW r \in FittingRows
    PROVE  /\ r \in Rows /\ Fits(r) /\ Expected \in Nat /\ base \in Nat /\ 1 <= base
           /\ base <= Expected /\ Expected <= Capacity(r) /\ base <= Capacity(r)
           /\ Expected <= Capacity(MaxRows) /\ Expected # 0
           /\ Nodes(Expected) \subseteq Recorded /\ Nodes(base) \subseteq Nodes(Expected)
           /\ \A larger \in Rows : r <= larger => larger \in FittingRows
<1>1. r \in Rows /\ Fits(r)
  BY DEF FittingRows
<1>2. /\ Expected \in Nat /\ base \in Nat /\ 1 <= base
      /\ base <= Expected /\ Expected <= Capacity(r) /\ base <= Capacity(r)
      /\ Expected <= Capacity(MaxRows)
      /\ Nodes(Expected) \subseteq Recorded /\ Nodes(base) \subseteq Nodes(Expected)
  BY <1>1, ExpectedFits
<1>3. ASSUME NEW larger \in Rows, r <= larger PROVE larger \in FittingRows
  <2>1. r \in Nat /\ larger \in Nat /\ larger <= MaxShift /\ Capacity(r) \in Nat /\ Capacity(larger) \in Nat
    BY <1>1, RowNumbers
  <2>2. Capacity(r) <= Capacity(larger)
    BY <1>3, <2>1, PowGrows DEF Capacity
  <2>3. base <= Capacity(larger)
    BY <1>2, <2>1, <2>2
  <2>4. ASSUME NEW i \in 1 .. Len(log) PROVE log[i].rows <= larger
    <3>1. log[i].rows <= r /\ log[i].rows \in Rows
      BY <1>1, RecordTypes DEF Fits
    <3>2. log[i].rows \in Nat
      BY <3>1, RowNumbers
    <3> QED BY <1>3, <2>1, <3>1, <3>2
  <2> QED BY <2>3, <2>4 DEF FittingRows, Fits
<1>4. Expected # 0
  BY <1>2
<1> QED BY <1>1, <1>2, <1>3, <1>4

\* An exact file resumes without a sidecar, can be copied from, and is what
\* clearing may leave.
LEMMA ExactResumes ==
    ASSUME JournalOK, NEW r \in FittingRows, NEW d, d = OnDisk(Layout(Expected, r))
    PROVE  /\ Confined(d, Settled(base, Recorded, r))
           /\ \A new : Confined(d, HalfCopied(Expected, r, new))
           /\ \A old : Confined(d, HalfCleared(Expected, old, r))
           /\ Confined(d, Anything)
<1> DEFINE L == Layout(Expected, r)
<1>1. /\ r \in Rows /\ Expected \in Nat /\ Expected <= Capacity(r) /\ base \in Nat /\ base <= Expected
      /\ Nodes(Expected) \subseteq Recorded
  BY FittingHolds
<1>2. \A p \in Pos : L[p] \in Settled(base, Recorded, r)[p]
  BY <1>1, LayoutSettled
<1>3. ASSUME NEW new PROVE \A p \in Pos : L[p] \in HalfCopied(Expected, r, new)[p]
  BY <1>1, LayoutHalfCopied
<1>4. ASSUME NEW old PROVE \A p \in Pos : L[p] \in HalfCleared(Expected, old, r)[p]
  BY <1>1, LayoutHalfCleared
<1>5. \A p \in Pos : L[p] \in Anything[p]
  BY <1>1, LayoutAt DEF Anything
<1> HIDE DEF L
<1>6. d = OnDisk(L)
  BY DEF L
<1>7. Confined(d, Settled(base, Recorded, r)) /\ Confined(d, Anything)
  BY <1>2, <1>5, <1>6, SyncConfines
<1>8. ASSUME NEW new PROVE Confined(d, HalfCopied(Expected, r, new))
  BY <1>3, <1>6, SyncConfines
<1>9. ASSUME NEW old PROVE Confined(d, HalfCleared(Expected, old, r))
  BY <1>4, <1>6, SyncConfines
<1> QED BY <1>7, <1>8, <1>9

-----------------------------------------------------------------------------
(* Steps: the sidecar *)

\* A step that changes only the sidecar and the program counter.
LEMMA FileKept ==
    ASSUME IInv, UNCHANGED <<file_vars, rows, leaves, log, base, crashes>>
    PROVE  /\ FileOK' /\ JournalOK' /\ Expected' = Expected /\ Powered' = Powered
           /\ Exact' = Exact /\ FittingRows' = FittingRows
           /\ \A m : Resumes(m, base, Expected, Recorded, FittingRows, disk, file_rows, disk_rows) =
                     Resumes(m, base, Expected, Recorded, FittingRows, disk, file_rows, disk_rows)'
<1>1. JournalOK /\ log' = log /\ base' = base
  BY DEF IInv
<1>2. /\ JournalOK' /\ Expected' = Expected /\ Recorded' = Recorded /\ FittingRows' = FittingRows
  BY <1>1, JournalKept
<1>3. file' = file /\ disk' = disk /\ file_rows' = file_rows /\ disk_rows' = disk_rows
  BY DEF file_vars
<1>4. FileOK'
  BY <1>3 DEF IInv, FileOK
<1>5. Powered' = Powered /\ Exact' = Exact
  BY <1>2, <1>3 DEF Powered, Exact
<1> QED BY <1>1, <1>2, <1>3, <1>4, <1>5

LEMMA MarkerCreateStep ==
    ASSUME IInv, marker_create
    PROVE  IInv'
<1> USE DEF marker_create, memory_vars, run_vars
<1>1. /\ FileOK' /\ JournalOK' /\ Expected' = Expected /\ Powered' = Powered
      /\ Exact' = Exact /\ FittingRows' = FittingRows
  BY FileKept
<1>2. file_rows' = file_rows /\ disk_rows' = disk_rows
  BY DEF file_vars
<1>3. MarkerOK'
  <2>1. Resumable(marker)'
    BY DEF Resumable, Resumes
  <2>2. Powered' => disk_marker' = NoMarker /\ Resumable(disk_marker)'
    BY <1>1, FileKept DEF IInv, MarkerOK, Resumable
  <2> QED BY <2>1, <2>2 DEF MarkerOK
<1>4. StepOK'
  BY <1>1, <1>2 DEF IInv, StepOK
<1> QED BY <1>1, <1>3, <1>4 DEF IInv, Steps

LEMMA MarkerWriteStep ==
    ASSUME IInv, marker_write
    PROVE  IInv'
<1> USE DEF marker_write, memory_vars, run_vars
<1>1. /\ FileOK' /\ JournalOK' /\ Expected' = Expected /\ Powered' = Powered
      /\ Exact' = Exact /\ FittingRows' = FittingRows
  BY FileKept
<1>2. file_rows' = file_rows /\ disk_rows' = disk_rows /\ disk' = disk
  BY DEF file_vars
<1> DEFINE m == ResizeMarker(rows, new_rows, Copying)
<1>3. /\ marker' = m /\ m.old_rows = rows /\ m.new_rows = new_rows /\ m.stage = Copying
      /\ m = ResizeMarker(m.old_rows, m.new_rows, Copying)
  BY DEF ResizeMarker
<1>4. /\ Exact /\ disk_rows = file_rows /\ file_rows \in FittingRows /\ rows = file_rows
      /\ new_rows \in Rows /\ rows < new_rows
  BY DEF IInv, StepOK
<1>5. Confined(disk, HalfCopied(Expected, rows, new_rows))
  BY <1>4, ExactResumes DEF IInv, Exact
<1> HIDE DEF m
<1>6. Resumes(m, base, Expected, Recorded, FittingRows, disk, file_rows, disk_rows)
  BY <1>3, <1>4, <1>5 DEF Resumes
<1>7. Resumable(marker)'
  BY <1>3, <1>6, FileKept DEF Resumable
<1>8. MarkerOK'
  <2>1. Powered' => disk_marker' = NoMarker /\ Resumable(disk_marker)'
    BY <1>1, FileKept DEF IInv, MarkerOK, Resumable
  <2> QED BY <1>3, <1>7, <2>1 DEF MarkerOK
<1>9. StepOK'
  BY <1>1, <1>2, <1>3 DEF IInv, StepOK
<1> QED BY <1>1, <1>8, <1>9 DEF IInv, Steps

LEMMA MarkerSyncStep ==
    ASSUME IInv, marker_sync
    PROVE  IInv'
<1> USE DEF marker_sync, SyncMarker, memory_vars, run_vars
<1>1. /\ FileOK' /\ JournalOK' /\ Expected' = Expected /\ Powered' = Powered
      /\ Exact' = Exact /\ FittingRows' = FittingRows
  BY FileKept
<1>2. file_rows' = file_rows /\ disk_rows' = disk_rows
  BY DEF file_vars
<1>3. Resumable(marker)' /\ Resumable(disk_marker)'
  BY FileKept DEF IInv, MarkerOK, Resumable
<1>4. MarkerOK'
  BY <1>3 DEF IInv, MarkerOK
<1>5. StepOK'
  BY <1>1, <1>2 DEF IInv, StepOK
<1> QED BY <1>1, <1>4, <1>5 DEF IInv, Steps

LEMMA StageWriteStep ==
    ASSUME IInv, update_resize_marker_stage
    PROVE  IInv'
<1> USE DEF update_resize_marker_stage, memory_vars, run_vars
<1>1. /\ FileOK' /\ JournalOK' /\ Expected' = Expected /\ Powered' = Powered
      /\ Exact' = Exact /\ FittingRows' = FittingRows
  BY FileKept
<1>2. file_rows' = file_rows /\ disk_rows' = disk_rows /\ disk' = disk
  BY DEF file_vars
<1>3. Resumable(marker) /\ marker.stage = Copying
  BY DEF IInv, MarkerOK
<1>4. /\ marker = ResizeMarker(marker.old_rows, marker.new_rows, Copying)
      /\ marker.old_rows \in FittingRows /\ marker.old_rows \in Rows
      /\ marker.new_rows \in Rows /\ marker.old_rows < marker.new_rows
  BY <1>3, SidecarSays
<1>5. /\ rows = marker.new_rows /\ rows = file_rows /\ disk_rows = rows
      /\ Confined(disk, Doubled(Expected, marker.old_rows, rows))
  BY DEF IInv, StepOK
<1> DEFINE m == [marker EXCEPT !.stage = Clearing]
<1>6. /\ marker' = m /\ m.old_rows = marker.old_rows /\ m.new_rows = marker.new_rows
      /\ m = ResizeMarker(m.old_rows, m.new_rows, Clearing) /\ m.stage = Clearing
  BY <1>4 DEF ResizeMarker
<1> HIDE DEF m
<1>7. Confined(disk, HalfCleared(Expected, marker.old_rows, marker.new_rows))
  <2>1. Expected \in Nat /\ Expected <= Capacity(marker.old_rows)
    BY <1>4, FittingHolds DEF IInv
  <2>2. \A p \in Pos : Doubled(Expected, marker.old_rows, marker.new_rows)[p] \subseteq
                         HalfCleared(Expected, marker.old_rows, marker.new_rows)[p]
    BY <1>4, <2>1, DoubledServes
  <2> QED BY <1>5, <2>2, ConfinedWider
<1>8. Resumes(m, base, Expected, Recorded, FittingRows, disk, file_rows, disk_rows)
  BY <1>4, <1>5, <1>6, <1>7 DEF Resumes
<1>9. Resumable(marker)'
  BY <1>6, <1>8, FileKept DEF Resumable
<1>10. MarkerOK'
  <2>1. Powered' => Resumable(disk_marker)'
    BY <1>1, FileKept DEF IInv, MarkerOK, Resumable
  <2> QED BY <1>6, <1>9, <2>1 DEF MarkerOK
<1>11. StepOK'
  BY <1>1, <1>2, <1>6 DEF IInv, StepOK
<1> QED BY <1>1, <1>10, <1>11 DEF IInv, Steps

LEMMA StageSyncStep ==
    ASSUME IInv, stage_sync
    PROVE  IInv'
<1> USE DEF stage_sync, SyncMarker, memory_vars, run_vars
<1>1. /\ FileOK' /\ JournalOK' /\ Expected' = Expected /\ Powered' = Powered
      /\ Exact' = Exact /\ FittingRows' = FittingRows
  BY FileKept
<1>2. file_rows' = file_rows /\ disk_rows' = disk_rows
  BY DEF file_vars
<1>3. Resumable(marker)' /\ Resumable(disk_marker)'
  BY FileKept DEF IInv, MarkerOK, Resumable
<1>4. MarkerOK'
  BY <1>3 DEF IInv, MarkerOK
<1>5. StepOK'
  BY <1>1, <1>2 DEF IInv, StepOK
<1> QED BY <1>1, <1>4, <1>5 DEF IInv, Steps

LEMMA MarkerRemoveStep ==
    ASSUME IInv, marker_remove
    PROVE  IInv'
<1> USE DEF marker_remove, memory_vars, run_vars
<1>1. /\ FileOK' /\ JournalOK' /\ Expected' = Expected /\ Powered' = Powered
      /\ Exact' = Exact /\ FittingRows' = FittingRows
  BY FileKept
<1>2. file_rows' = file_rows /\ disk_rows' = disk_rows /\ disk' = disk
  BY DEF file_vars
<1>3. Resumable(marker) /\ marker.stage = Clearing /\ Exact
  BY DEF IInv, MarkerOK, StepOK
<1>4. /\ marker.old_rows \in FittingRows /\ marker.new_rows \in Rows /\ marker.old_rows \in Rows
      /\ marker.old_rows < marker.new_rows /\ file_rows = marker.new_rows /\ disk_rows = marker.new_rows
  BY <1>3, SidecarSays
<1>5. file_rows \in FittingRows
  <2>1. marker.old_rows <= marker.new_rows
    BY <1>4, RowNumbers
  <2> QED BY <1>4, <2>1, FittingHolds DEF IInv
<1>6. Confined(disk, Settled(base, Recorded, file_rows))
  BY <1>3, <1>5, ExactResumes DEF IInv, Exact
<1>7. Resumes(NoMarker, base, Expected, Recorded, FittingRows, disk, file_rows, disk_rows)
  BY <1>4, <1>5, <1>6 DEF Resumes
<1>8. Resumable(marker)'
  BY <1>7, FileKept DEF Resumable
<1>9. MarkerOK'
  <2>1. Powered' => Resumable(disk_marker)'
    BY <1>1, FileKept DEF IInv, MarkerOK, Resumable
  <2> QED BY <1>8, <2>1 DEF MarkerOK
<1>10. StepOK'
  BY <1>1, <1>2 DEF IInv, StepOK
<1> QED BY <1>1, <1>9, <1>10 DEF IInv, Steps

LEMMA RemoveSyncStep ==
    ASSUME IInv, remove_sync
    PROVE  IInv'
<1> USE DEF remove_sync, SyncMarker, memory_vars, run_vars
<1>1. /\ FileOK' /\ JournalOK' /\ Expected' = Expected /\ Powered' = Powered
      /\ Exact' = Exact /\ FittingRows' = FittingRows
  BY FileKept
<1>2. file_rows' = file_rows /\ disk_rows' = disk_rows
  BY DEF file_vars
<1>3. Resumable(marker)' /\ Resumable(disk_marker)' /\ marker = NoMarker /\ Resumable(marker)
  BY FileKept DEF IInv, MarkerOK, Resumable
<1>4. disk_rows = file_rows /\ file_rows \in FittingRows
  BY <1>3, SidecarSays
<1>5. MarkerOK'
  BY <1>3 DEF IInv, MarkerOK
<1>6. StepOK'
  BY <1>1, <1>2, <1>4 DEF IInv, StepOK
<1> QED BY <1>1, <1>5, <1>6 DEF IInv, Steps

-----------------------------------------------------------------------------
(* Steps: the file *)

\* A write of a file of values.
LEMMA FileWritten ==
    ASSUME FileOK, NEW f \in [Pos -> Values], Write(f)
    PROVE  /\ file' = f /\ file' \in [Pos -> Values]
           /\ \A g \in Pages : Content(file', g) \in disk'[g]
           /\ Confined(disk', Anything)
           /\ \A G : Confined(disk, G) /\ (\A p \in Pos : f[p] \in G[p]) => Confined(disk', G)
<1>1. file' = f /\ disk' = [g \in Pages |-> disk[g] \cup {Content(f, g)}]
  BY DEF Write
<1>2. \A g \in Pages : Content(file', g) \in disk'[g]
  BY <1>1
<1>3. ASSUME NEW G, Confined(disk, G), \A p \in Pos : f[p] \in G[p] PROVE Confined(disk', G)
  BY <1>1, <1>3, WriteConfines
<1>4. \A p \in Pos : f[p] \in Anything[p]
  BY DEF Anything
<1>5. Confined(disk', Anything)
  BY <1>3, <1>4 DEF FileOK
<1> QED BY <1>1, <1>2, <1>3, <1>5

\* A sync.
LEMMA FileSynced ==
    ASSUME FileOK, disk' = OnDisk(file), file' = file
    PROVE  /\ file' \in [Pos -> Values]
           /\ \A g \in Pages : Content(file', g) \in disk'[g]
           /\ Confined(disk', Anything)
           /\ \A G : (\A p \in Pos : file[p] \in G[p]) => Confined(disk', G)
<1>1. \A g \in Pages : Content(file', g) \in disk'[g]
  BY DEF OnDisk
<1>2. ASSUME NEW G, \A p \in Pos : file[p] \in G[p] PROVE Confined(disk', G)
  BY <1>2, SyncConfines
<1>3. \A p \in Pos : file[p] \in Anything[p]
  BY DEF Anything, FileOK
<1> QED BY <1>1, <1>2, <1>3 DEF FileOK

\* What the mapping shows, for whatever the medium is confined to.
LEMMA FileSeen ==
    ASSUME FileOK, NEW G, Confined(disk, G)
    PROVE  \A p \in Pos : file[p] \in G[p]
  BY VisibleConfined DEF FileOK

LEMMA GrowStep ==
    ASSUME IInv, grow
    PROVE  IInv'
<1> USE DEF grow, memory_vars, run_vars, marker_vars
<1>0. FileOK /\ JournalOK /\ MarkerOK /\ StepOK
  BY DEF IInv
<1>1. JournalOK' /\ Expected' = Expected /\ Recorded' = Recorded /\ FittingRows' = FittingRows
  BY <1>0, JournalKept
<1>2. Resumable(marker) /\ marker.stage = Copying
  BY <1>0 DEF MarkerOK
<1>3. /\ marker = ResizeMarker(marker.old_rows, marker.new_rows, Copying)
      /\ marker.old_rows \in FittingRows /\ marker.old_rows \in Rows
      /\ marker.new_rows \in Rows /\ marker.old_rows < marker.new_rows
      /\ disk_rows \in {marker.old_rows, marker.new_rows}
      /\ file_rows \in {marker.old_rows, marker.new_rows}
      /\ Confined(disk, HalfCopied(Expected, marker.old_rows, marker.new_rows))
  BY <1>2, SidecarSays
<1>4. rows = file_rows /\ leaves \in {0, Expected}
  BY <1>0 DEF StepOK
<1>5. /\ \A g \in Pages : Content(file', g) \in disk'[g]
      /\ Confined(disk', Anything)
      /\ Confined(disk', HalfCopied(Expected, marker.old_rows, marker.new_rows))
  <2>1. CASE disk' = OnDisk(file)
    BY <1>0, <1>3, <2>1, FileSynced, FileSeen
  <2>2. CASE disk' = disk
    BY <1>0, <1>3, <2>2 DEF FileOK
  <2> QED BY <2>1, <2>2
<1>6. FileOK'
  BY <1>0, <1>3, <1>5 DEF FileOK
<1>7. Resumes(marker, base, Expected, Recorded, FittingRows, disk', marker.new_rows, disk_rows)
  BY <1>3, <1>5 DEF Resumes
<1>8. Resumable(marker)'
  BY <1>1, <1>7 DEF Resumable
<1>9. MarkerOK'
  <2>1. Powered' => Powered
    BY DEF Powered
  <2>2. Powered' => disk_marker' = marker'
    BY <1>0, <2>1 DEF MarkerOK
  <2> QED BY <1>2, <1>8, <2>2 DEF MarkerOK
<1>10. StepOK'
  BY <1>1, <1>3, <1>4 DEF StepOK
<1> QED BY <1>1, <1>6, <1>9, <1>10 DEF IInv, Steps

LEMMA AllocateStep ==
    ASSUME IInv, allocate
    PROVE  IInv'
<1> USE DEF allocate, memory_vars, run_vars, marker_vars, file_vars
<1>0. FileOK /\ JournalOK /\ MarkerOK /\ StepOK
  BY DEF IInv
<1>1. JournalOK' /\ Expected' = Expected /\ Recorded' = Recorded /\ FittingRows' = FittingRows
  BY <1>0, JournalKept
<1>2. Resumable(marker) /\ marker.stage = Copying
  BY <1>0 DEF MarkerOK
<1>3. marker.new_rows \in Rows
  BY <1>2, SidecarSays
<1>4. file_rows = marker.new_rows /\ leaves \in {0, Expected}
  BY <1>0 DEF StepOK
<1>5. FileOK'
  BY <1>0, <1>3 DEF FileOK
<1>6. Resumable(marker)'
  BY <1>1, <1>2 DEF Resumable
<1>7. MarkerOK'
  <2>1. Powered' => Powered
    BY DEF Powered
  <2>2. Powered' => disk_marker' = marker'
    BY <1>0, <2>1 DEF MarkerOK
  <2> QED BY <1>2, <1>6, <2>2 DEF MarkerOK
<1>8. StepOK'
  BY <1>1, <1>4 DEF StepOK
<1> QED BY <1>1, <1>5, <1>7, <1>8 DEF IInv, Steps

LEMMA CopyStep ==
    ASSUME IInv, copy_internal_rows
    PROVE  IInv'
<1> USE DEF copy_internal_rows, memory_vars, run_vars, marker_vars
<1>0. FileOK /\ JournalOK /\ MarkerOK /\ StepOK
  BY DEF IInv
<1>1. JournalOK' /\ Expected' = Expected /\ Recorded' = Recorded /\ FittingRows' = FittingRows
  BY <1>0, JournalKept
<1>2. Resumable(marker) /\ marker.stage = Copying
  BY <1>0 DEF MarkerOK
<1> DEFINE old == marker.old_rows
           new == marker.new_rows
<1>3. /\ marker = ResizeMarker(old, new, Copying)
      /\ old \in FittingRows /\ old \in Rows /\ new \in Rows /\ old < new
      /\ disk_rows \in {old, new} /\ file_rows \in {old, new}
      /\ Confined(disk, HalfCopied(Expected, old, new))
  BY <1>2, SidecarSays
<1>4. Expected \in Nat /\ Expected <= Capacity(old)
  BY <1>0, <1>3, FittingHolds
<1>5. rows = file_rows /\ rows = new /\ leaves \in {0, Expected}
  BY <1>0 DEF StepOK
<1>6. \A p \in Pos : file[p] \in HalfCopied(Expected, old, new)[p]
  BY <1>0, <1>3, FileSeen
<1>7. \A p \in Pos : Copied(marker)[p] \in Doubled(Expected, old, new)[p]
  BY <1>3, <1>4, <1>6, CopyDoubles
<1>8. \A p \in Pos : Copied(marker)[p] \in HalfCopied(Expected, old, new)[p]
  BY <1>3, <1>4, <1>7, DoubledServes
<1>9. Copied(marker) \in [Pos -> Values]
  <2>1. \A p \in Pos : Copied(marker)[p] \in Values
    BY <1>8 DEF HalfCopied
  <2>2. Copied(marker) = [p \in Pos |-> Copied(marker)[p]]
    BY DEF Copied
  <2> QED BY <2>1, <2>2
<1>10. /\ file' = Copied(marker) /\ file' \in [Pos -> Values]
       /\ \A g \in Pages : Content(file', g) \in disk'[g]
       /\ Confined(disk', Anything)
       /\ Confined(disk', HalfCopied(Expected, old, new))
  BY <1>0, <1>3, <1>8, <1>9, FileWritten
<1>11. FileOK'
  BY <1>0, <1>10 DEF FileOK
<1>12. Resumes(marker, base, Expected, Recorded, FittingRows, disk', file_rows, disk_rows)
  BY <1>3, <1>10 DEF Resumes
<1>13. Resumable(marker)'
  BY <1>1, <1>12 DEF Resumable
<1>14. MarkerOK'
  <2>1. Powered' => Powered
    BY DEF Powered
  <2>2. Powered' => disk_marker' = marker'
    BY <1>0, <2>1 DEF MarkerOK
  <2> QED BY <1>2, <1>13, <2>2 DEF MarkerOK
<1>15. \A p \in Pos : file'[p] \in Doubled(Expected, old, rows)[p]
  BY <1>5, <1>7, <1>10
<1> HIDE DEF old, new
<1>16. StepOK'
  BY <1>1, <1>5, <1>15 DEF StepOK, old, new
<1> QED BY <1>1, <1>11, <1>14, <1>16 DEF IInv, Steps

LEMMA CopySyncStep ==
    ASSUME IInv, copy_sync
    PROVE  IInv'
<1> USE DEF copy_sync, SyncForest, memory_vars, run_vars, marker_vars
<1>0. FileOK /\ JournalOK /\ MarkerOK /\ StepOK
  BY DEF IInv
<1>1. JournalOK' /\ Expected' = Expected /\ Recorded' = Recorded /\ FittingRows' = FittingRows
  BY <1>0, JournalKept
<1>2. Resumable(marker) /\ marker.stage = Copying
  BY <1>0 DEF MarkerOK
<1>3. /\ marker = ResizeMarker(marker.old_rows, marker.new_rows, Copying)
      /\ marker.old_rows \in FittingRows /\ marker.old_rows \in Rows
      /\ marker.new_rows \in Rows /\ marker.old_rows < marker.new_rows
      /\ Confined(disk, HalfCopied(Expected, marker.old_rows, marker.new_rows))
  BY <1>2, SidecarSays
<1>4. /\ rows = file_rows /\ rows = marker.new_rows /\ leaves \in {0, Expected}
      /\ \A p \in Pos : file[p] \in Doubled(Expected, marker.old_rows, rows)[p]
  BY <1>0 DEF StepOK
<1>5. /\ file' \in [Pos -> Values] /\ \A g \in Pages : Content(file', g) \in disk'[g]
      /\ Confined(disk', Anything)
      /\ Confined(disk', HalfCopied(Expected, marker.old_rows, marker.new_rows))
      /\ Confined(disk', Doubled(Expected, marker.old_rows, rows))
  BY <1>0, <1>3, <1>4, FileSynced, FileSeen
<1>6. FileOK'
  BY <1>0, <1>5 DEF FileOK
<1>7. Resumes(marker, base, Expected, Recorded, FittingRows, disk', file_rows, file_rows)
  BY <1>3, <1>4, <1>5 DEF Resumes
<1>8. Resumable(marker)'
  BY <1>1, <1>7 DEF Resumable
<1>9. MarkerOK'
  <2>1. Powered' => Powered
    BY DEF Powered
  <2>2. Powered' => disk_marker' = marker'
    BY <1>0, <2>1 DEF MarkerOK
  <2> QED BY <1>2, <1>8, <2>2 DEF MarkerOK
<1>10. StepOK'
  BY <1>1, <1>4, <1>5 DEF StepOK
<1> QED BY <1>1, <1>6, <1>9, <1>10 DEF IInv, Steps

LEMMA ClearStep ==
    ASSUME IInv, clear_new_bottom_range
    PROVE  IInv'
<1> USE DEF clear_new_bottom_range, memory_vars, run_vars, marker_vars
<1>0. FileOK /\ JournalOK /\ MarkerOK /\ StepOK
  BY DEF IInv
<1>1. JournalOK' /\ Expected' = Expected /\ Recorded' = Recorded /\ FittingRows' = FittingRows
  BY <1>0, JournalKept
<1>2. Resumable(marker) /\ marker.stage = Clearing
  BY <1>0 DEF MarkerOK
<1> DEFINE old == marker.old_rows
           new == marker.new_rows
<1>3. /\ marker = ResizeMarker(old, new, Clearing)
      /\ old \in FittingRows /\ old \in Rows /\ new \in Rows /\ old < new
      /\ disk_rows = new /\ file_rows = new
      /\ Confined(disk, HalfCleared(Expected, old, new))
  BY <1>2, SidecarSays
<1>4. Expected \in Nat /\ Expected <= Capacity(old) /\ Expected <= Capacity(new)
  <2>1. Capacity(old) < Capacity(new) /\ Capacity(old) \in Nat /\ Capacity(new) \in Nat
    BY <1>3, LayoutsApart
  <2>2. Expected \in Nat /\ Expected <= Capacity(old)
    BY <1>0, <1>3, FittingHolds
  <2> QED BY <2>1, <2>2
<1>5. rows = file_rows /\ leaves \in {0, Expected}
  BY <1>0 DEF StepOK
<1>6. Cleared(marker) = Layout(Expected, new)
  BY <1>0, <1>3, <1>4, FileSeen, ClearLeaves
<1>7. /\ Layout(Expected, new) \in [Pos -> Values]
      /\ \A p \in Pos : Layout(Expected, new)[p] \in HalfCleared(Expected, old, new)[p]
  BY <1>3, <1>4, LayoutAt, LayoutHalfCleared
<1>8. /\ file' = Layout(Expected, new) /\ file' \in [Pos -> Values]
      /\ \A g \in Pages : Content(file', g) \in disk'[g]
      /\ Confined(disk', Anything)
      /\ Confined(disk', HalfCleared(Expected, old, new))
  BY <1>0, <1>3, <1>6, <1>7, FileWritten
<1>9. FileOK'
  BY <1>0, <1>8 DEF FileOK
<1>10. Resumes(marker, base, Expected, Recorded, FittingRows, disk', file_rows, disk_rows)
  BY <1>3, <1>8 DEF Resumes
<1>11. Resumable(marker)'
  BY <1>1, <1>10 DEF Resumable
<1>12. MarkerOK'
  <2>1. Powered' => Powered
    BY DEF Powered
  <2>2. Powered' => disk_marker' = marker'
    BY <1>0, <2>1 DEF MarkerOK
  <2> QED BY <1>2, <1>11, <2>2 DEF MarkerOK
<1>13. file' = Layout(Expected, rows)
  BY <1>3, <1>5, <1>8
<1> HIDE DEF old, new
<1>14. StepOK'
  BY <1>1, <1>5, <1>13 DEF StepOK
<1> QED BY <1>1, <1>9, <1>12, <1>14 DEF IInv, Steps

LEMMA ClearSyncStep ==
    ASSUME IInv, clear_sync
    PROVE  IInv'
<1> USE DEF clear_sync, SyncForest, memory_vars, run_vars, marker_vars
<1>0. FileOK /\ JournalOK /\ MarkerOK /\ StepOK
  BY DEF IInv
<1>1. JournalOK' /\ Expected' = Expected /\ Recorded' = Recorded /\ FittingRows' = FittingRows
  BY <1>0, JournalKept
<1>2. Resumable(marker) /\ marker.stage = Clearing
  BY <1>0 DEF MarkerOK
<1>3. /\ marker = ResizeMarker(marker.old_rows, marker.new_rows, Clearing)
      /\ marker.old_rows \in FittingRows /\ marker.old_rows \in Rows
      /\ marker.new_rows \in Rows /\ marker.old_rows < marker.new_rows
      /\ file_rows = marker.new_rows
      /\ Confined(disk, HalfCleared(Expected, marker.old_rows, marker.new_rows))
  BY <1>2, SidecarSays
<1>4. rows = file_rows /\ leaves \in {0, Expected} /\ file = Layout(Expected, rows)
  BY <1>0 DEF StepOK
<1>5. /\ file' \in [Pos -> Values] /\ \A g \in Pages : Content(file', g) \in disk'[g]
      /\ Confined(disk', Anything)
      /\ Confined(disk', HalfCleared(Expected, marker.old_rows, marker.new_rows))
  BY <1>0, <1>3, <1>4, FileSynced, FileSeen
<1>6. FileOK'
  BY <1>0, <1>5 DEF FileOK
<1>7. Resumes(marker, base, Expected, Recorded, FittingRows, disk', file_rows, file_rows)
  BY <1>3, <1>4, <1>5 DEF Resumes
<1>8. Resumable(marker)'
  BY <1>1, <1>7 DEF Resumable
<1>9. MarkerOK'
  <2>1. Powered' => Powered
    BY DEF Powered
  <2>2. Powered' => disk_marker' = marker'
    BY <1>0, <2>1 DEF MarkerOK
  <2> QED BY <1>2, <1>8, <2>2 DEF MarkerOK
<1>10. Exact'
  BY <1>1, <1>4 DEF Exact
<1>11. StepOK'
  BY <1>1, <1>4, <1>10 DEF StepOK
<1> QED BY <1>1, <1>6, <1>9, <1>11 DEF IInv, Steps

-----------------------------------------------------------------------------
(* Steps: opening and replay *)

LEMMA OpenStep ==
    ASSUME IInv, open
    PROVE  IInv'
<1>0. FileOK /\ JournalOK /\ MarkerOK /\ StepOK /\ pc \in {"down", "refused"}
  BY DEF IInv, open
<1>u. /\ UNCHANGED <<file, disk, file_rows, disk_rows, marker, disk_marker, leaves, new_rows,
                     undoing, base, needs_replay, crashes, stops, log>>
      /\ rows' = file_rows
  BY DEF open, file_vars, marker_vars, run_vars
<1>1. JournalOK' /\ Expected' = Expected /\ Recorded' = Recorded /\ FittingRows' = FittingRows
  BY <1>0, <1>u, JournalKept
<1>2. FileOK'
  BY <1>0, <1>u DEF FileOK
<1>3. Resumable(marker) /\ Resumable(marker)' /\ (Powered' => disk_marker' = marker')
  BY <1>0, <1>1, <1>u DEF MarkerOK, Resumable, Powered
<1>4. (Powered' => Resumable(disk_marker)') /\ Exact' = Exact
  BY <1>0, <1>1, <1>u DEF MarkerOK, Resumable, Powered, Exact
<1>5. \/ marker = NoMarker /\ pc' = "count"
      \/ marker = EmptyMarker /\ pc' = "refused"
      \/ marker.stage = Copying /\ pc' = "grow"
      \/ marker.stage = Clearing /\ pc' = "clear"
  <2>1. CASE marker = NoMarker
    <3>1. marker.stage # Copying /\ marker.stage # Clearing
      BY <2>1 DEF NoMarker, Copying, Clearing
    <3> QED BY <2>1, <3>1 DEF open
  <2>2. CASE marker = EmptyMarker
    <3>1. marker.stage # Copying /\ marker.stage # Clearing /\ marker # NoMarker
      BY <2>2 DEF NoMarker, EmptyMarker, Copying, Clearing
    <3> QED BY <2>2, <3>1 DEF open
  <2>3. CASE marker.stage = Copying
    <3>1. file_rows \in {marker.old_rows, marker.new_rows} /\ marker # NoMarker /\ Copying # Clearing
      BY <1>3, <2>3, SidecarSays DEF Copying, Clearing
    <3> QED BY <2>3, <3>1 DEF open
  <2>4. CASE marker.stage = Clearing
    <3>1. file_rows = marker.new_rows /\ marker # NoMarker /\ Copying # Clearing
      BY <1>3, <2>4, SidecarSays DEF Copying, Clearing
    <3> QED BY <2>4, <3>1 DEF open
  <2> QED BY <1>3, <2>1, <2>2, <2>3, <2>4, SidecarSays
<1>6. pc = "refused" => marker = EmptyMarker
  BY <1>0 DEF MarkerOK
<1>7. pc' \in {"count", "refused", "grow", "clear"}
  BY <1>5
<1>8. MarkerOK'
  BY <1>3, <1>4, <1>5, <1>u DEF MarkerOK, NoMarker, EmptyMarker, Copying, Clearing
<1>9. pc' # "refused" => pc = "down"
  BY <1>0, <1>5, <1>6 DEF NoMarker, EmptyMarker, Copying, Clearing
<1>10. StepOK'
  <2>1. pc' = "count" => pc = "down" /\ marker = NoMarker
    BY <1>5, <1>9
  <2>2. pc' \in {"grow", "clear"} => leaves' = 0 /\ rows' = file_rows'
    BY <1>0, <1>9, <1>u DEF StepOK
  <2>3. pc' = "count" /\ (~needs_replay' \/ log' = << >>) => Exact'
    BY <1>0, <1>4, <1>u, <2>1 DEF StepOK
  <2>4. rows' = file_rows'
    BY <1>u
  <2> QED BY <1>7, <2>2, <2>3, <2>4 DEF StepOK
<1>11. crashes' = crashes
  BY <1>u
<1> QED BY <1>1, <1>2, <1>7, <1>8, <1>10, <1>11 DEF IInv, Steps

LEMMA CountStep ==
    ASSUME IInv, count_leaves
    PROVE  IInv'
<1>0. FileOK /\ JournalOK /\ MarkerOK /\ StepOK /\ pc = "count"
  BY DEF IInv, count_leaves
<1>u. /\ UNCHANGED <<file, disk, file_rows, disk_rows, marker, disk_marker, rows, new_rows,
                     undoing, base, needs_replay, crashes, stops, log>>
      /\ leaves' = search[<<0, Capacity(rows)>>]
  BY DEF count_leaves, file_vars, marker_vars, run_vars
<1>1. JournalOK' /\ Expected' = Expected /\ Recorded' = Recorded /\ FittingRows' = FittingRows
  BY <1>0, <1>u, JournalKept
<1>2. marker = NoMarker /\ Resumable(marker) /\ (Powered => disk_marker = NoMarker) /\ rows = file_rows
  BY <1>0 DEF MarkerOK, StepOK
<1>3. /\ disk_rows = file_rows /\ file_rows \in FittingRows
      /\ Confined(disk, Settled(base, Recorded, file_rows))
  BY <1>2, SidecarSays
<1>4. /\ rows \in Rows /\ base \in Nat /\ 1 <= base /\ base <= Capacity(rows) /\ Expected \in Nat
      /\ Expected <= Capacity(rows)
  BY <1>0, <1>2, <1>3, FittingHolds
<1>5. leaves' \in 1 .. Capacity(rows)
  BY <1>0, <1>2, <1>3, <1>4, <1>u, FileSeen, CountedFirst
<1>6. leaves' # 0 /\ leaves' \in 0 .. Capacity(MaxRows)
  <2>1. Capacity(rows) <= Capacity(MaxRows) /\ Capacity(rows) \in Nat /\ Capacity(MaxRows) \in Nat
    BY <1>4, RowNumbers
  <2> QED BY <1>5, <2>1
<1>7. FileOK'
  BY <1>0, <1>6, <1>u DEF FileOK
<1>8. Resumable(marker)' /\ marker' = NoMarker
  BY <1>1, <1>2, <1>u DEF Resumable
<1>9. Powered' => disk_marker' = NoMarker /\ Resumable(disk_marker)'
  BY <1>2, <1>8, <1>u DEF Powered
<1>10. \/ pc' = "undo" /\ log # << >>
       \/ pc' = "up" /\ (~needs_replay \/ log = << >>)
  BY <1>6 DEF count_leaves
<1>11. MarkerOK'
  BY <1>8, <1>9, <1>10 DEF MarkerOK
<1>12. ASSUME pc' = "up" PROVE leaves' = Expected' /\ Exact'
  <2>1. Exact
    BY <1>0, <1>2, <1>10, <1>12 DEF StepOK
  <2>2. file = Layout(Expected, rows)
    BY <1>2, <2>1 DEF Exact
  <2>3. leaves' = Expected
    BY <1>4, <1>u, <2>2, CountedLeaves
  <2>4. Exact'
    BY <1>1, <1>u, <2>1 DEF Exact
  <2> QED BY <1>1, <2>3, <2>4
<1>13. StepOK'
  <2>1. rows' = file_rows' /\ disk_rows' = file_rows' /\ file_rows' \in FittingRows'
    BY <1>1, <1>2, <1>3, <1>u
  <2>2. pc' = "undo" => log' # << >>
    BY <1>10, <1>u
  <2> QED BY <1>10, <1>12, <2>1, <2>2 DEF StepOK
<1> QED BY <1>1, <1>7, <1>10, <1>11, <1>13, <1>u DEF IInv, Steps

\* A write in a settled state that keeps to what is recorded.
LEMMA SettledWrite ==
    ASSUME FileOK, JournalOK, rows = file_rows, NEW f \in [Pos -> Values], Write(f),
           Resumable(NoMarker), \A p \in Pos : f[p] \in Settled(base, Recorded, rows)[p],
           UNCHANGED <<log, base, file_rows, disk_rows>>
    PROVE  Resumable(NoMarker)'
<1>1. JournalOK' /\ Expected' = Expected /\ Recorded' = Recorded /\ FittingRows' = FittingRows
  BY JournalKept
<1>2. /\ disk_rows = file_rows /\ file_rows \in FittingRows
      /\ Confined(disk, Settled(base, Recorded, file_rows))
  BY SidecarSays
<1>3. Confined(disk', Settled(base, Recorded, file_rows))
  BY <1>2, FileWritten
<1>4. Resumes(NoMarker, base, Expected, Recorded, FittingRows, disk', file_rows, disk_rows)
  BY <1>2, <1>3 DEF Resumes
<1> QED BY <1>1, <1>4 DEF Resumable

LEMMA ReplayBackwardStep ==
    ASSUME IInv, replay_backward
    PROVE  IInv'
<1> DEFINE f == Undone(file, 1 .. Len(log))
<1>0. FileOK /\ JournalOK /\ MarkerOK /\ StepOK /\ pc = "undo"
  BY DEF IInv, replay_backward
<1>u. /\ UNCHANGED <<file_rows, disk_rows, marker, disk_marker, rows, new_rows,
                     undoing, base, needs_replay, crashes, stops, log>>
      /\ leaves' = log[1].from /\ pc' = "redo" /\ Write(f)
  BY DEF replay_backward, marker_vars, run_vars
<1>1. JournalOK' /\ Expected' = Expected /\ Recorded' = Recorded /\ FittingRows' = FittingRows
  BY <1>0, <1>u, JournalKept
<1>2. marker = NoMarker /\ Resumable(marker) /\ (Powered => disk_marker = NoMarker) /\ rows = file_rows
      /\ log # << >>
  BY <1>0 DEF MarkerOK, StepOK
<1>3. /\ disk_rows = file_rows /\ file_rows \in FittingRows
      /\ Confined(disk, Settled(base, Recorded, file_rows))
  BY <1>2, SidecarSays
<1>4. /\ rows \in Rows /\ Fits(rows) /\ base \in Nat /\ base <= Capacity(rows) /\ base <= Capacity(MaxRows)
  BY <1>0, <1>2, <1>3, FittingHolds, RecordTypes
<1>5. \A p \in Pos : file[p] \in Settled(base, Recorded, rows)[p]
  BY <1>0, <1>2, <1>3, FileSeen
<1>6. file = [p \in Pos |-> file[p]]
  BY <1>0 DEF FileOK
<1>7. f = Layout(base, rows)
  BY <1>0, <1>4, <1>5, <1>6, ReplaySteps
<1>8. f \in [Pos -> Values]
  BY <1>4, <1>7, LayoutAt
<1>9. \A p \in Pos : f[p] \in Settled(base, Recorded, rows)[p]
  BY <1>0, <1>4, <1>5, DeltasSettled
<1> HIDE DEF f
<1>10. /\ file' = Layout(base, rows) /\ file' \in [Pos -> Values]
       /\ \A g \in Pages : Content(file', g) \in disk'[g]
       /\ Confined(disk', Anything)
  BY <1>0, <1>7, <1>8, <1>u, FileWritten
<1>11. leaves' = base
  BY <1>0, <1>2, <1>u DEF JournalOK
<1>12. FileOK'
  <2>1. leaves' \in 0 .. Capacity(MaxRows)
    BY <1>4, <1>11
  <2> QED BY <1>0, <1>10, <1>u, <2>1 DEF FileOK
<1>13. Resumable(NoMarker)'
  BY <1>0, <1>2, <1>8, <1>9, <1>u, SettledWrite
<1>14. marker' = NoMarker /\ (Powered' => disk_marker' = NoMarker)
  BY <1>2, <1>u DEF Powered
<1>15. MarkerOK'
  BY <1>13, <1>14, <1>u DEF MarkerOK, Resumable
<1>16. StepOK'
  BY <1>2, <1>10, <1>11, <1>u DEF StepOK
<1> QED BY <1>1, <1>12, <1>15, <1>16, <1>u DEF IInv, Steps

LEMMA ReplayForwardStep ==
    ASSUME IInv, replay_forward
    PROVE  IInv'
<1> DEFINE f == Applied(file, ForwardRecords)
<1>0. FileOK /\ JournalOK /\ MarkerOK /\ StepOK /\ pc = "redo"
  BY DEF IInv, replay_forward
<1>u. /\ UNCHANGED <<file_rows, disk_rows, marker, disk_marker, rows, new_rows,
                     undoing, base, needs_replay, crashes, stops, log>>
      /\ leaves' = IF ForwardRecords = {} THEN leaves ELSE log[latest_forward].to
      /\ pc' = "sync" /\ Write(f)
  BY DEF replay_forward, marker_vars, run_vars
<1>1. JournalOK' /\ Expected' = Expected /\ Recorded' = Recorded /\ FittingRows' = FittingRows
  BY <1>0, <1>u, JournalKept
<1>2. marker = NoMarker /\ Resumable(marker) /\ (Powered => disk_marker = NoMarker) /\ rows = file_rows
      /\ log # << >> /\ file = Layout(base, rows) /\ leaves = base
  BY <1>0 DEF MarkerOK, StepOK
<1>3. /\ disk_rows = file_rows /\ file_rows \in FittingRows
      /\ Confined(disk, Settled(base, Recorded, file_rows))
  BY <1>2, SidecarSays
<1>4. /\ rows \in Rows /\ Fits(rows) /\ Expected \in Nat /\ Expected <= Capacity(rows)
      /\ Expected <= Capacity(MaxRows)
  BY <1>0, <1>2, <1>3, FittingHolds
<1>5. \A p \in Pos : file[p] \in Settled(base, Recorded, rows)[p]
  BY <1>0, <1>2, <1>3, FileSeen
<1>6. f = Layout(Expected, rows)
  BY <1>0, <1>2, <1>4, ReplaySteps
<1>7. f \in [Pos -> Values]
  BY <1>4, <1>6, LayoutAt
<1>8. \A p \in Pos : f[p] \in Settled(base, Recorded, rows)[p]
  <2>1. ForwardRecords \in SUBSET (1 .. Len(log))
    BY DEF ForwardRecords
  <2> QED BY <1>0, <1>4, <1>5, <2>1, DeltasSettled
<1> HIDE DEF f
<1>9. /\ file' = Layout(Expected, rows) /\ file' \in [Pos -> Values]
      /\ \A g \in Pages : Content(file', g) \in disk'[g]
      /\ Confined(disk', Anything)
  BY <1>0, <1>6, <1>7, <1>u, FileWritten
<1>10. leaves' = Expected
  BY <1>2, <1>u DEF Expected
<1>11. FileOK'
  <2>1. leaves' \in 0 .. Capacity(MaxRows)
    <3>1. Capacity(MaxRows) \in Nat
      BY <1>4, RowNumbers
    <3> QED BY <1>4, <1>10, <3>1
  <2> QED BY <1>0, <1>9, <1>u, <2>1 DEF FileOK
<1>12. Resumable(NoMarker)'
  BY <1>0, <1>2, <1>7, <1>8, <1>u, SettledWrite
<1>13. marker' = NoMarker /\ (Powered' => disk_marker' = NoMarker)
  BY <1>2, <1>u DEF Powered
<1>14. MarkerOK'
  BY <1>12, <1>13, <1>u DEF MarkerOK, Resumable
<1>15. StepOK'
  BY <1>1, <1>2, <1>9, <1>10, <1>u DEF StepOK
<1> QED BY <1>1, <1>11, <1>14, <1>15, <1>u DEF IInv, Steps

-----------------------------------------------------------------------------
(* Steps: blocks *)

\* The record of a block that fits continues the journal.
LEMMA JournalAppends ==
    ASSUME JournalOK, NEW r \in FittingRows, NEW to \in Nat, Expected < to, to <= Capacity(r),
           log' = Append(log, Record(Expected, to, r)), base' = base
    PROVE  /\ JournalOK' /\ Expected' = to /\ Recorded \subseteq Recorded'
           /\ r \in FittingRows' /\ log' # << >> /\ log'[Len(log')].forward
           /\ log'[Len(log')].from = Expected
<1> DEFINE k == Len(log) + 1
           rec == Record(Expected, to, r)
<1>1. /\ r \in Rows /\ Expected \in Nat /\ base \in Nat /\ base <= Expected /\ Fits(r)
      /\ Nodes(Expected) = Nodes(base) \cup UNION {NewNodes(log[i]) : i \in ForwardRecords}
  BY FittingHolds, ExpectedFits
<1>2. rec \in RecordType /\ rec.from = Expected /\ rec.to = to /\ rec.rows = r /\ rec.forward
  BY <1>1 DEF Record, RecordType
<1>3. log \in Seq(RecordType) /\ Len(log) \in Nat /\ DOMAIN log = 1 .. Len(log)
  BY RecordTypes DEF JournalOK
<1> HIDE DEF rec
<1>4. /\ log' \in Seq(RecordType) /\ Len(log') = k /\ log'[k] = rec /\ k \in Nat
      /\ \A i \in 1 .. Len(log) : log'[i] = log[i]
  BY <1>2, <1>3 DEF rec
<1>5. 1 .. Len(log') = (1 .. Len(log)) \cup {k} /\ k \notin 1 .. Len(log)
  BY <1>3, <1>4
<1>6. ForwardRecords' = ForwardRecords \cup {k}
  BY <1>2, <1>4, <1>5 DEF ForwardRecords
<1>7. ForwardRecords \subseteq 1 .. Len(log) /\ \A i \in ForwardRecords : i < k /\ i \in Nat
  BY <1>3 DEF ForwardRecords
<1> HIDE DEF k
<1>8. latest_forward' = k
  <2>1. k \in ForwardRecords' /\ \A j \in ForwardRecords' : j <= k
    BY <1>4, <1>6, <1>7
  <2>2. \A i \in ForwardRecords' : (\A j \in ForwardRecords' : j <= i) => i = k
    BY <1>4, <1>6, <1>7
  <2> QED BY <2>1, <2>2 DEF latest_forward
<1>9. Expected' = to
  BY <1>2, <1>4, <1>6, <1>8 DEF Expected
<1>10. \A i \in 1 .. Len(log) : NewNodes(log[i])' = NewNodes(log[i])
  BY <1>4 DEF NewNodes
<1>11. Recorded \subseteq Recorded'
  <2>1. ASSUME NEW x \in Recorded PROVE x \in Recorded'
    <3>1. CASE x \in Nodes(base)
      BY <3>1 DEF Recorded
    <3>2. CASE \E i \in 1 .. Len(log) : x \in NewNodes(log[i])
      <4>1. PICK i \in 1 .. Len(log) : x \in NewNodes(log[i])
        BY <3>2
      <4>2. i \in 1 .. Len(log') /\ x \in NewNodes(log'[i])
        BY <1>4, <1>5, <4>1
      <4> QED BY <4>2 DEF Recorded, NewNodes
    <3> QED BY <3>1, <3>2 DEF Recorded
  <2> QED BY <2>1
<1>12. r \in FittingRows'
  <2>1. ASSUME NEW i \in 1 .. Len(log') PROVE log'[i].rows <= r
    <3>1. CASE i = k
      <4>1. r <= r
        BY <1>1, RowNumbers
      <4> QED BY <1>2, <1>4, <3>1, <4>1
    <3>2. CASE i \in 1 .. Len(log)
      BY <1>1, <1>4, <3>2 DEF Fits
    <3> QED BY <1>5, <3>1, <3>2
  <2> QED BY <1>1, <2>1 DEF FittingRows, Fits
<1>13. log' # << >> /\ log'[Len(log')].forward /\ log'[Len(log')].from = Expected
  BY <1>2, <1>3, <1>4 DEF k
<1>14. JournalOK'
  <2>1. base' \in 1 .. Capacity(MaxRows) /\ log' \in Seq(RecordType)
    BY <1>4 DEF JournalOK
  <2>2. ASSUME NEW i \in 1 .. Len(log')
        PROVE  /\ base' <= log'[i].from /\ log'[i].from < log'[i].to
               /\ log'[i].to <= Capacity(log'[i].rows)
    <3>1. CASE i = k
      BY <1>1, <1>2, <1>4, <3>1
    <3>2. CASE i \in 1 .. Len(log)
      BY <1>4, <3>2 DEF JournalOK
    <3> QED BY <1>5, <3>1, <3>2
  <2>3. log'[1].from = base'
    <3>1. CASE Len(log) = 0
      <4>1. ForwardRecords = {}
        BY <3>1 DEF ForwardRecords
      <4>2. Expected = base /\ k = 1
        BY <3>1, <4>1 DEF Expected, k
      <4> QED BY <1>2, <1>4, <4>2
    <3>2. CASE Len(log) # 0
      <4>1. 1 \in 1 .. Len(log) /\ log # << >>
        BY <1>3, <3>2
      <4> QED BY <1>4, <4>1 DEF JournalOK
    <3> QED BY <3>1, <3>2
  <2>4. ASSUME NEW i \in ForwardRecords'
        PROVE  /\ (\A j \in ForwardRecords' : i <= j) => log'[i].from = base'
               /\ \A j \in ForwardRecords' :
                    j < i /\ (\A m \in ForwardRecords' : m <= j \/ i <= m) => log'[i].from = log'[j].to
    <3>1. CASE i = k
      <4>1. ASSUME \A j \in ForwardRecords' : i <= j PROVE log'[i].from = base'
        <5>1. ForwardRecords = {}
          BY <1>4, <1>6, <1>7, <3>1, <4>1
        <5> QED BY <1>2, <1>4, <3>1, <5>1 DEF Expected
      <4>2. ASSUME NEW j \in ForwardRecords', j < i, \A m \in ForwardRecords' : m <= j \/ i <= m
            PROVE  log'[i].from = log'[j].to
        <5>1. j \in ForwardRecords /\ \A m \in ForwardRecords : m <= j
          BY <1>4, <1>6, <1>7, <3>1, <4>2
        <5>2. latest_forward = j
          <6>1. latest_forward \in ForwardRecords /\ \A m \in ForwardRecords : m <= latest_forward
            BY <5>1, LatestForward
          <6> QED BY <1>7, <5>1, <6>1
        <5>3. Expected = log[j].to
          BY <5>1, <5>2 DEF Expected
        <5> QED BY <1>2, <1>4, <1>7, <3>1, <5>1, <5>3
      <4> QED BY <4>1, <4>2
    <3>2. CASE i \in ForwardRecords
      <4>1. log'[i] = log[i] /\ i \in Nat /\ i < k
        BY <1>4, <1>7, <3>2
      <4>2. ASSUME \A j \in ForwardRecords' : i <= j PROVE log'[i].from = base'
        BY <1>6, <3>2, <4>1, <4>2 DEF JournalOK
      <4>3. ASSUME NEW j \in ForwardRecords', j < i, \A m \in ForwardRecords' : m <= j \/ i <= m
            PROVE  log'[i].from = log'[j].to
        <5>1. j \in ForwardRecords
          BY <1>4, <1>6, <4>1, <4>3
        <5>2. \A m \in ForwardRecords : m <= j \/ i <= m
          BY <1>6, <4>3
        <5>3. log[i].from = log[j].to
          BY <3>2, <4>3, <5>1, <5>2 DEF JournalOK
        <5> QED BY <1>4, <1>7, <4>1, <5>1, <5>3
      <4> QED BY <4>2, <4>3
    <3> QED BY <1>6, <3>1, <3>2
  <2>5. ASSUME NEW i \in ForwardRecords'
        PROVE  Nodes(log'[i].to) = Nodes(base') \cup
                 UNION {NewNodes(log'[j]) : j \in {m \in ForwardRecords' : m <= i}}
    <3> DEFINE U(F, l) == UNION {Nodes(l[j].to) \ Nodes(l[j].from) : j \in F}
    <3>1. CASE i = k
      <4>0. \A m \in ForwardRecords \cup {k} : m <= k
        BY <1>4, <1>7
      <4>1. {m \in ForwardRecords' : m <= i} = ForwardRecords \cup {k}
        BY <1>6, <3>1, <4>0, Zenon
      <4>2. U(ForwardRecords \cup {k}, log') = U(ForwardRecords, log) \cup (Nodes(to) \ Nodes(Expected))
        <5>1. U(ForwardRecords \cup {k}, log') = U(ForwardRecords, log') \cup
                (Nodes(log'[k].to) \ Nodes(log'[k].from))
          OBVIOUS
        <5>2. \A j \in ForwardRecords : log'[j] = log[j]
          BY <1>4, <1>7
        <5>3. U(ForwardRecords, log') = U(ForwardRecords, log)
          BY <5>2
        <5> QED BY <1>2, <1>4, <5>1, <5>3
      <4>3. Nodes(Expected) = Nodes(base) \cup U(ForwardRecords, log)
        BY <1>1 DEF NewNodes
      <4>4. Nodes(Expected) \subseteq Nodes(to)
        BY <1>1, NodesGrow
      <4>5. Nodes(log'[i].to) = Nodes(base) \cup U(ForwardRecords \cup {k}, log')
        <5> HIDE DEF U
        <5> QED BY <1>2, <1>4, <3>1, <4>2, <4>3, <4>4, ZenonT(30)
      <4> QED BY <4>1, <4>5 DEF NewNodes
    <3>2. CASE i \in ForwardRecords
      <4> DEFINE F == {m \in ForwardRecords : m <= i}
      <4>1. {m \in ForwardRecords' : m <= i} = F
        BY <1>4, <1>6, <1>7, <3>2
      <4>2. Nodes(log[i].to) = Nodes(base) \cup U(F, log)
        BY <3>2 DEF JournalOK, NewNodes
      <4>3. \A j \in F : log'[j] = log[j]
        BY <1>4, <1>7
      <4>4. U(F, log') = U(F, log)
        BY <4>3
      <4>5. log'[i] = log[i]
        BY <1>4, <1>7, <3>2
      <4>6. Nodes(log'[i].to) = Nodes(base) \cup U(F, log')
        <5> HIDE DEF U, F
        <5> QED BY <4>2, <4>4, <4>5
      <4> QED BY <4>1, <4>6 DEF NewNodes
    <3> QED BY <1>6, <3>1, <3>2
  <2> QED BY <2>1, <2>2, <2>3, <2>4, <2>5 DEF JournalOK, NewNodes
<1> QED BY <1>9, <1>11, <1>12, <1>13, <1>14

\* Marking the newest block as rolled back goes back to the leaves before it.
LEMMA JournalMarks ==
    ASSUME JournalOK, ForwardRecords # {}, base' = base,
           log' = [log EXCEPT ![latest_forward].forward = FALSE]
    PROVE  /\ JournalOK' /\ Recorded' = Recorded /\ FittingRows' = FittingRows /\ Len(log') = Len(log)
           /\ latest_forward \in 1 .. Len(log) /\ Expected' = log[latest_forward].from
           /\ log'[latest_forward].from = log[latest_forward].from
           /\ log'[latest_forward].to = log[latest_forward].to /\ Expected = log[latest_forward].to
<1> DEFINE k == latest_forward
<1>1. k \in ForwardRecords /\ (\A j \in ForwardRecords : j <= k) /\ k \in 1 .. Len(log)
  BY LatestForward
<1>2. log' = [log EXCEPT ![k].forward = FALSE]
  OBVIOUS
<1>3. Expected = log[k].to
  BY DEF Expected
<1> HIDE DEF k
<1>4. /\ log \in Seq(RecordType) /\ Len(log) \in Nat /\ DOMAIN log = 1 .. Len(log)
      /\ \A i \in 1 .. Len(log) : log[i] \in RecordType
  BY RecordTypes DEF JournalOK
<1>5. [log[k] EXCEPT !.forward = FALSE] \in RecordType
  BY <1>1, <1>4 DEF RecordType
<1>6. log' = [log EXCEPT ![k] = [log[k] EXCEPT !.forward = FALSE]]
  BY <1>1, <1>2, <1>4
<1>7. log' \in Seq(RecordType) /\ Len(log') = Len(log)
  <2> DEFINE e == [log[k] EXCEPT !.forward = FALSE]
  <2>1. e \in RecordType /\ log' = [log EXCEPT ![k] = e]
    BY <1>5, <1>6
  <2> HIDE DEF e
  <2>2. [log EXCEPT ![k] = e] \in Seq(RecordType) /\ Len([log EXCEPT ![k] = e]) = Len(log)
    BY <1>1, <1>4, <2>1, ExceptSeq
  <2> QED BY <2>1, <2>2
<1>8. /\ \A i \in 1 .. Len(log) : i # k => log'[i] = log[i]
      /\ log'[k] = [log[k] EXCEPT !.forward = FALSE]
  BY <1>1, <1>4, <1>6
<1>9. /\ log'[k].from = log[k].from /\ log'[k].to = log[k].to /\ log'[k].rows = log[k].rows
      /\ log'[k].forward = FALSE
  BY <1>1, <1>4, <1>8 DEF RecordType
<1>10. \A i \in 1 .. Len(log) : /\ log'[i].from = log[i].from /\ log'[i].to = log[i].to
                                /\ log'[i].rows = log[i].rows
  BY <1>8, <1>9
<1>11. ForwardRecords' = ForwardRecords \ {k}
  BY <1>7, <1>8, <1>9 DEF ForwardRecords
<1>12. ForwardRecords \subseteq 1 .. Len(log) /\ \A i \in ForwardRecords : i \in Nat
  BY DEF ForwardRecords
<1>13. Recorded' = Recorded
  <2>1. \A i \in 1 .. Len(log) : NewNodes(log'[i]) = NewNodes(log[i])
    BY <1>10 DEF NewNodes
  <2>2. Recorded' = Nodes(base) \cup UNION {NewNodes(log'[i]) : i \in 1 .. Len(log)}
    BY <1>7, ZenonT(30) DEF Recorded, NewNodes
  <2> QED BY <2>1, <2>2 DEF Recorded
<1>14. FittingRows' = FittingRows
  BY <1>7, <1>10 DEF FittingRows, Fits
<1>15. Expected' = log[k].from
  <2>1. CASE ForwardRecords' = {}
    <3>1. \A j \in ForwardRecords : k <= j
      BY <1>1, <1>11, <1>12, <2>1
    <3>2. log[k].from = base
      BY <1>1, <3>1 DEF JournalOK
    <3> QED BY <2>1, <3>2 DEF Expected
  <2>2. CASE ForwardRecords' # {}
    <3> DEFINE j == latest_forward'
    <3>1. \E i \in ForwardRecords' : \A x \in ForwardRecords' : x <= i
      <4>1. ForwardRecords' \in SUBSET (1 .. Len(log))
        BY <1>11, <1>12
      <4> QED BY <1>4, <2>2, <4>1, LargestNatural
    <3>2. j \in ForwardRecords' /\ \A x \in ForwardRecords' : x <= j
      BY <3>1 DEF latest_forward
    <3>3. Expected' = log'[j].to
      BY <2>2 DEF Expected
    <3> HIDE DEF j
    <3>4. j \in ForwardRecords /\ j < k /\ \A x \in ForwardRecords : x <= j \/ k <= x
      <4>1. j \in ForwardRecords /\ j # k
        BY <1>11, <3>2
      <4>2. j \in Nat /\ k \in Nat /\ j <= k
        BY <1>1, <1>12, <4>1
      <4>3. ASSUME NEW x \in ForwardRecords PROVE x <= j \/ k <= x
        <5>1. CASE x = k
          BY <1>12, <4>2, <5>1
        <5>2. CASE x # k
          BY <1>11, <3>2, <5>2
        <5> QED BY <5>1, <5>2
      <4> QED BY <4>1, <4>2, <4>3
    <3>5. log[k].from = log[j].to
      BY <1>1, <3>4 DEF JournalOK
    <3> QED BY <1>10, <1>12, <3>3, <3>4, <3>5
  <2> QED BY <2>1, <2>2
<1>16. JournalOK'
  <2>1. base' \in 1 .. Capacity(MaxRows) /\ log' \in Seq(RecordType)
    BY <1>7 DEF JournalOK
  <2>2. ASSUME NEW i \in 1 .. Len(log')
        PROVE  /\ base' <= log'[i].from /\ log'[i].from < log'[i].to
               /\ log'[i].to <= Capacity(log'[i].rows)
    BY <1>7, <1>10 DEF JournalOK
  <2>3. log'[1].from = base'
    <3>1. 1 \in 1 .. Len(log) /\ log # << >>
      BY <1>1, <1>4
    <3> QED BY <1>10, <3>1 DEF JournalOK
  <2>4. ASSUME NEW i \in ForwardRecords'
        PROVE  /\ (\A j \in ForwardRecords' : i <= j) => log'[i].from = base'
               /\ \A j \in ForwardRecords' :
                    j < i /\ (\A m \in ForwardRecords' : m <= j \/ i <= m) => log'[i].from = log'[j].to
    <3>1. i \in ForwardRecords /\ i \in 1 .. Len(log) /\ i <= k /\ i \in Nat /\ k \in Nat
      BY <1>1, <1>11, <1>12
    <3>2. ASSUME \A j \in ForwardRecords' : i <= j PROVE log'[i].from = base'
      <4>1. \A j \in ForwardRecords : i <= j
        BY <1>11, <3>1, <3>2
      <4>2. log[i].from = base
        BY <3>1, <4>1 DEF JournalOK
      <4> QED BY <1>10, <3>1, <4>2
    <3>3. ASSUME NEW j \in ForwardRecords', j < i, \A m \in ForwardRecords' : m <= j \/ i <= m
          PROVE  log'[i].from = log'[j].to
      <4>1. j \in ForwardRecords /\ j \in 1 .. Len(log)
        BY <1>11, <1>12
      <4>2. \A m \in ForwardRecords : m <= j \/ i <= m
        BY <1>11, <3>1, <3>3
      <4>3. log[i].from = log[j].to
        BY <3>1, <3>3, <4>1, <4>2 DEF JournalOK
      <4> QED BY <1>10, <3>1, <4>1, <4>3
    <3> QED BY <3>2, <3>3
  <2>5. ASSUME NEW i \in ForwardRecords'
        PROVE  Nodes(log'[i].to) = Nodes(base') \cup
                 UNION {NewNodes(log'[j]) : j \in {m \in ForwardRecords' : m <= i}}
    <3> DEFINE F == {m \in ForwardRecords : m <= i}
               U(l) == UNION {Nodes(l[j].to) \ Nodes(l[j].from) : j \in F}
    <3>1. i \in ForwardRecords /\ i \in 1 .. Len(log) /\ i # k /\ i <= k /\ i \in Nat /\ k \in Nat
      BY <1>1, <1>11, <1>12
    <3>2. {m \in ForwardRecords' : m <= i} = F
      BY <1>11, <3>1
    <3>3. Nodes(log[i].to) = Nodes(base) \cup U(log)
      BY <3>1 DEF JournalOK, NewNodes
    <3>4. \A j \in F : log'[j].from = log[j].from /\ log'[j].to = log[j].to
      BY <1>10, <1>12
    <3>5. U(log') = U(log)
      BY <3>4
    <3>6. Nodes(log'[i].to) = Nodes(base) \cup U(log')
      <4> HIDE DEF U, F
      <4> QED BY <1>10, <3>1, <3>3, <3>5
    <3> QED BY <3>2, <3>6 DEF NewNodes
  <2> QED BY <2>1, <2>2, <2>3, <2>4, <2>5 DEF JournalOK, NewNodes
<1> QED BY <1>1, <1>3, <1>7, <1>9, <1>13, <1>14, <1>15, <1>16 DEF k

\* A settled medium stays settled when more is recorded.
LEMMA SettledGrows ==
    ASSUME NEW built, NEW less, NEW more, less \subseteq more, NEW r, NEW d,
           Confined(d, Settled(built, less, r))
    PROVE  Confined(d, Settled(built, more, r))
<1>1. \A p \in Pos : Settled(built, less, r)[p] \subseteq Settled(built, more, r)[p]
  BY DEF Settled
<1> QED BY <1>1, ConfinedWider

LEMMA ProveBlockStep ==
    ASSUME IInv, NEW additions \in Additions, prove_block(additions)
    PROVE  IInv'
<1> DEFINE to == leaves + additions
<1>0. FileOK /\ JournalOK /\ MarkerOK /\ StepOK /\ pc = "up"
  BY DEF IInv, prove_block
<1>u. UNCHANGED <<file, disk, file_rows, disk_rows, marker, disk_marker, rows, leaves,
                  undoing, base, needs_replay, crashes, stops>>
  BY DEF prove_block, file_vars, marker_vars, run_vars
<1>1. /\ rows = file_rows /\ leaves = Expected /\ Exact /\ disk_rows = file_rows
      /\ file_rows \in FittingRows /\ marker = NoMarker /\ (Powered => disk_marker = NoMarker)
      /\ Resumable(marker)
  BY <1>0 DEF MarkerOK, StepOK
<1>2. /\ rows \in FittingRows /\ rows \in Rows /\ Expected \in Nat /\ Expected # 0
      /\ rows \in Nat /\ Capacity(rows) \in Nat /\ Capacity(MaxRows) \in Nat /\ MaxRows \in Nat
      /\ MaxRows <= MaxShift /\ MaxShift \in Nat /\ rows <= MaxShift
  BY <1>0, <1>1, FittingHolds, RowNumbers, RowsAssumption, ShiftAssumption
<1>3. to \in Nat /\ to # 0 /\ Expected < to /\ to <= Capacity(MaxRows)
  <2>1. additions \in Nat /\ additions # 0
    BY LimitsAssumption
  <2> QED BY <1>1, <1>2, <2>1 DEF prove_block
<1>4. CASE ensure_leaf_capacity(to)
  <2>u. log' = log /\ pc' = "marker_create" /\ new_rows' = tree_rows(to) /\ to > Capacity(rows)
    BY <1>4 DEF ensure_leaf_capacity
  <2>1. JournalOK' /\ Expected' = Expected /\ Recorded' = Recorded /\ FittingRows' = FittingRows
    BY <1>0, <1>u, <2>u, JournalKept
  <2> HIDE DEF to
  <2>2. new_rows' \in Rows /\ rows < new_rows'
    <3>1. /\ tree_rows(to) \in Nat /\ tree_rows(to) <= MaxRows /\ to <= Pow2[tree_rows(to)]
      BY <1>2, <1>3, TreeRows DEF Capacity
    <3>2. ~(tree_rows(to) <= rows)
      <4> SUFFICES ASSUME tree_rows(to) <= rows PROVE FALSE
        OBVIOUS
      <4>1. Pow2[tree_rows(to)] <= Pow2[rows] /\ Pow2[tree_rows(to)] \in Nat
        BY <1>2, <3>1, PowGrows
      <4> QED BY <1>2, <1>3, <2>u, <3>1, <4>1 DEF Capacity
    <3> QED BY <1>2, <2>u, <3>1, <3>2 DEF Rows
  <2>3. FileOK'
    BY <1>0, <1>u DEF FileOK
  <2>4. marker' = NoMarker /\ (Powered' => disk_marker' = NoMarker) /\ Resumable(NoMarker)'
    BY <1>1, <1>u, <2>1 DEF Resumable, Powered
  <2>5. MarkerOK'
    BY <2>4, <2>u DEF MarkerOK, Resumable
  <2>6. Exact'
    BY <1>1, <1>u, <2>1 DEF Exact
  <2>7. StepOK'
    BY <1>1, <1>u, <2>1, <2>2, <2>6, <2>u DEF StepOK
  <2> QED BY <1>u, <2>1, <2>3, <2>5, <2>7, <2>u DEF IInv, Steps
<1>5. CASE to <= Capacity(rows) /\ log' = Append(log, Record(leaves, to, rows)) /\ pc' = "apply"
  <2> HIDE DEF to
  <2>u. to <= Capacity(rows) /\ log' = Append(log, Record(Expected, to, rows)) /\ pc' = "apply"
        /\ base' = base
    BY <1>1, <1>5, <1>u
  <2>1. /\ JournalOK' /\ Expected' = to /\ Recorded \subseteq Recorded'
        /\ rows \in FittingRows' /\ log' # << >> /\ log'[Len(log')].forward
        /\ log'[Len(log')].from = Expected
    BY <1>0, <1>2, <1>3, <2>u, JournalAppends
  <2>2. FileOK'
    BY <1>0, <1>u DEF FileOK
  <2>3. Confined(disk, Settled(base, Recorded, file_rows))
    BY <1>1, SidecarSays
  <2>4. Confined(disk, Settled(base, Recorded', file_rows))
    BY <2>1, <2>3, SettledGrows
  <2>5. Resumable(NoMarker)'
    BY <1>1, <1>u, <2>1, <2>4 DEF Resumable, Resumes
  <2>6. marker' = NoMarker /\ (Powered' => disk_marker' = NoMarker)
    BY <1>1, <1>u DEF Powered
  <2>7. MarkerOK'
    BY <2>5, <2>6, <2>u DEF MarkerOK, Resumable
  <2>8. file' = Layout(log'[Len(log')].from, rows')
    BY <1>1, <1>u, <2>1 DEF Exact
  <2>9. StepOK'
    BY <1>1, <1>u, <2>1, <2>8, <2>u DEF StepOK
  <2> QED BY <1>u, <2>1, <2>2, <2>7, <2>9, <2>u DEF IInv, Steps
<1> QED BY <1>4, <1>5 DEF prove_block

LEMMA MarkRolledBackStep ==
    ASSUME IInv, mark_rolled_back
    PROVE  IInv'
<1>0. FileOK /\ JournalOK /\ MarkerOK /\ StepOK /\ pc = "up"
  BY DEF IInv, mark_rolled_back
<1>u. /\ UNCHANGED <<file, disk, file_rows, disk_rows, marker, disk_marker, rows, leaves, new_rows,
                     base, needs_replay, crashes, stops>>
      /\ ForwardRecords # {} /\ log' = [log EXCEPT ![latest_forward].forward = FALSE]
      /\ undoing' = latest_forward /\ pc' = "unapply"
  BY DEF mark_rolled_back, file_vars, marker_vars, run_vars
<1>1. /\ rows = file_rows /\ leaves = Expected /\ Exact /\ disk_rows = file_rows
      /\ file_rows \in FittingRows /\ marker = NoMarker /\ (Powered => disk_marker = NoMarker)
      /\ Resumable(marker)
  BY <1>0 DEF MarkerOK, StepOK
<1>2. /\ JournalOK' /\ Recorded' = Recorded /\ FittingRows' = FittingRows /\ Len(log') = Len(log)
      /\ latest_forward \in 1 .. Len(log) /\ Expected' = log[latest_forward].from
      /\ log'[latest_forward].from = log[latest_forward].from
      /\ log'[latest_forward].to = log[latest_forward].to /\ Expected = log[latest_forward].to
  BY <1>0, <1>u, JournalMarks
<1>3. FileOK'
  BY <1>0, <1>u DEF FileOK
<1>4. Confined(disk, Settled(base, Recorded, file_rows))
  BY <1>1, SidecarSays
<1>5. Resumable(NoMarker)'
  BY <1>1, <1>2, <1>4, <1>u DEF Resumable, Resumes
<1>6. marker' = NoMarker /\ (Powered' => disk_marker' = NoMarker)
  BY <1>1, <1>u DEF Powered
<1>7. MarkerOK'
  BY <1>5, <1>6, <1>u DEF MarkerOK, Resumable
<1>8. file' = Layout(log'[undoing'].to, rows')
  BY <1>1, <1>2, <1>u DEF Exact
<1>9. StepOK'
  BY <1>1, <1>2, <1>8, <1>u DEF StepOK
<1> QED BY <1>2, <1>3, <1>7, <1>9, <1>u DEF IInv, Steps

LEMMA ApplyForwardStep ==
    ASSUME IInv, apply_forward
    PROVE  IInv'
<1> DEFINE f == Applied(file, {Len(log)})
<1>0. FileOK /\ JournalOK /\ MarkerOK /\ StepOK /\ pc = "apply"
  BY DEF IInv, apply_forward
<1>u. /\ UNCHANGED <<file_rows, disk_rows, marker, disk_marker, rows, new_rows,
                     undoing, base, needs_replay, crashes, stops, log>>
      /\ leaves' = log[Len(log)].to /\ pc' = "sync" /\ Write(f)
  BY DEF apply_forward, marker_vars, run_vars
<1>1. JournalOK' /\ Expected' = Expected /\ Recorded' = Recorded /\ FittingRows' = FittingRows
  BY <1>0, <1>u, JournalKept
<1>2. marker = NoMarker /\ Resumable(marker) /\ (Powered => disk_marker = NoMarker) /\ rows = file_rows
      /\ log # << >> /\ log[Len(log)].forward /\ file = Layout(log[Len(log)].from, rows)
  BY <1>0 DEF MarkerOK, StepOK
<1>3. /\ disk_rows = file_rows /\ file_rows \in FittingRows
      /\ Confined(disk, Settled(base, Recorded, file_rows))
  BY <1>2, SidecarSays
<1>4. /\ rows \in Rows /\ Fits(rows) /\ Expected \in Nat /\ Expected <= Capacity(rows)
      /\ Expected <= Capacity(MaxRows)
  BY <1>0, <1>2, <1>3, FittingHolds
<1>5. \A p \in Pos : file[p] \in Settled(base, Recorded, rows)[p]
  BY <1>0, <1>2, <1>3, FileSeen
<1>6. Len(log) \in 1 .. Len(log)
  <2>1. log \in Seq(RecordType)
    BY <1>0 DEF JournalOK
  <2> QED BY <1>2, <2>1
<1>7. Expected = log[Len(log)].to
  <2>1. Len(log) \in Nat /\ Len(log) \in ForwardRecords /\ \A i \in ForwardRecords : i \in 1 .. Len(log)
    BY <1>2, <1>6 DEF ForwardRecords
  <2>2. latest_forward \in ForwardRecords /\ \A i \in ForwardRecords : i <= latest_forward
    BY <1>0, <2>1, LatestForward
  <2>3. latest_forward = Len(log)
    BY <2>1, <2>2
  <2> QED BY <2>1, <2>3 DEF Expected
<1>8. f = Layout(Expected, rows)
  BY <1>0, <1>2, <1>4, <1>6, <1>7, RecordSteps
<1>9. f \in [Pos -> Values]
  BY <1>4, <1>8, LayoutAt
<1>10. \A p \in Pos : f[p] \in Settled(base, Recorded, rows)[p]
  BY <1>0, <1>4, <1>5, <1>6, DeltasSettled, SMTT(30)
<1> HIDE DEF f
<1>11. /\ file' = Layout(Expected, rows) /\ file' \in [Pos -> Values]
       /\ \A g \in Pages : Content(file', g) \in disk'[g]
       /\ Confined(disk', Anything)
  BY <1>0, <1>8, <1>9, <1>u, FileWritten
<1>12. FileOK'
  <2>1. leaves' \in 0 .. Capacity(MaxRows)
    <3>1. Capacity(MaxRows) \in Nat
      BY <1>4, RowNumbers
    <3> QED BY <1>4, <1>7, <1>u, <3>1
  <2> QED BY <1>0, <1>11, <1>u, <2>1 DEF FileOK
<1>13. Resumable(NoMarker)'
  BY <1>0, <1>2, <1>9, <1>10, <1>u, SettledWrite
<1>14. marker' = NoMarker /\ (Powered' => disk_marker' = NoMarker)
  BY <1>2, <1>u DEF Powered
<1>15. MarkerOK'
  BY <1>13, <1>14, <1>u DEF MarkerOK, Resumable
<1>16. StepOK'
  BY <1>1, <1>2, <1>7, <1>11, <1>u DEF StepOK
<1> QED BY <1>1, <1>12, <1>15, <1>16, <1>u DEF IInv, Steps

LEMMA ApplyBackwardStep ==
    ASSUME IInv, apply_backward
    PROVE  IInv'
<1> DEFINE f == Undone(file, {undoing})
<1>0. FileOK /\ JournalOK /\ MarkerOK /\ StepOK /\ pc = "unapply"
  BY DEF IInv, apply_backward
<1>u. /\ UNCHANGED <<file_rows, disk_rows, marker, disk_marker, rows, new_rows,
                     undoing, base, needs_replay, crashes, stops, log>>
      /\ leaves' = log[undoing].from /\ pc' = "sync" /\ Write(f)
  BY DEF apply_backward, marker_vars, run_vars
<1>1. JournalOK' /\ Expected' = Expected /\ Recorded' = Recorded /\ FittingRows' = FittingRows
  BY <1>0, <1>u, JournalKept
<1>2. /\ marker = NoMarker /\ Resumable(marker) /\ (Powered => disk_marker = NoMarker)
      /\ rows = file_rows /\ undoing \in 1 .. Len(log) /\ Expected = log[undoing].from
      /\ file = Layout(log[undoing].to, rows)
  BY <1>0 DEF MarkerOK, StepOK
<1>3. /\ disk_rows = file_rows /\ file_rows \in FittingRows
      /\ Confined(disk, Settled(base, Recorded, file_rows))
  BY <1>2, SidecarSays
<1>4. /\ rows \in Rows /\ Fits(rows) /\ Expected \in Nat /\ Expected <= Capacity(rows)
      /\ Expected <= Capacity(MaxRows)
  BY <1>0, <1>2, <1>3, FittingHolds
<1>5. \A p \in Pos : file[p] \in Settled(base, Recorded, rows)[p]
  BY <1>0, <1>2, <1>3, FileSeen
<1>6. log # << >>
  <2>1. log \in Seq(RecordType) /\ Len(log) # 0
    BY <1>0, <1>2 DEF JournalOK
  <2> QED BY <2>1
<1>8. f = Layout(Expected, rows)
  BY <1>0, <1>2, <1>4, RecordSteps
<1>9. f \in [Pos -> Values]
  BY <1>4, <1>8, LayoutAt
<1>10. \A p \in Pos : f[p] \in Settled(base, Recorded, rows)[p]
  BY <1>0, <1>2, <1>4, <1>5, DeltasSettled
<1> HIDE DEF f
<1>11. /\ file' = Layout(Expected, rows) /\ file' \in [Pos -> Values]
       /\ \A g \in Pages : Content(file', g) \in disk'[g]
       /\ Confined(disk', Anything)
  BY <1>0, <1>8, <1>9, <1>u, FileWritten
<1>12. FileOK'
  <2>1. leaves' \in 0 .. Capacity(MaxRows)
    <3>1. Capacity(MaxRows) \in Nat
      BY <1>4, RowNumbers
    <3> QED BY <1>2, <1>4, <1>u, <3>1
  <2> QED BY <1>0, <1>11, <1>u, <2>1 DEF FileOK
<1>13. Resumable(NoMarker)'
  BY <1>0, <1>2, <1>9, <1>10, <1>u, SettledWrite
<1>14. marker' = NoMarker /\ (Powered' => disk_marker' = NoMarker)
  BY <1>2, <1>u DEF Powered
<1>15. MarkerOK'
  BY <1>13, <1>14, <1>u DEF MarkerOK, Resumable
<1>16. StepOK'
  BY <1>1, <1>2, <1>6, <1>11, <1>u DEF StepOK
<1> QED BY <1>1, <1>12, <1>15, <1>16, <1>u DEF IInv, Steps

LEMMA SyncStep ==
    ASSUME IInv, sync
    PROVE  IInv'
<1>0. FileOK /\ JournalOK /\ MarkerOK /\ StepOK /\ pc = "sync"
  BY DEF IInv, sync
<1>u. /\ UNCHANGED <<file, file_rows, marker, disk_marker, rows, leaves, new_rows,
                     undoing, base, needs_replay, crashes, stops, log>>
      /\ disk' = OnDisk(file) /\ disk_rows' = file_rows /\ pc' = "up"
  BY DEF sync, SyncForest, marker_vars, memory_vars, run_vars
<1>1. JournalOK' /\ Expected' = Expected /\ Recorded' = Recorded /\ FittingRows' = FittingRows
  BY <1>0, <1>u, JournalKept
<1>2. /\ marker = NoMarker /\ Resumable(marker) /\ (Powered => disk_marker = NoMarker)
      /\ rows = file_rows /\ file = Layout(Expected, rows) /\ leaves = Expected
  BY <1>0 DEF MarkerOK, StepOK
<1>3. /\ disk_rows = file_rows /\ file_rows \in FittingRows
      /\ Confined(disk, Settled(base, Recorded, file_rows))
  BY <1>2, SidecarSays
<1>4. /\ file' \in [Pos -> Values] /\ \A g \in Pages : Content(file', g) \in disk'[g]
      /\ Confined(disk', Anything) /\ Confined(disk', Settled(base, Recorded, file_rows))
  BY <1>0, <1>3, <1>u, FileSynced, FileSeen
<1>5. FileOK'
  BY <1>0, <1>4, <1>u DEF FileOK
<1>6. Resumable(NoMarker)'
  BY <1>1, <1>3, <1>4, <1>u DEF Resumable, Resumes
<1>7. marker' = NoMarker /\ (Powered' => disk_marker' = NoMarker)
  BY <1>2, <1>u DEF Powered
<1>8. MarkerOK'
  BY <1>6, <1>7, <1>u DEF MarkerOK, Resumable
<1>9. Exact'
  BY <1>1, <1>2, <1>u DEF Exact
<1>10. StepOK'
  BY <1>1, <1>2, <1>3, <1>9, <1>u DEF StepOK
<1> QED BY <1>1, <1>5, <1>8, <1>10, <1>u DEF IInv, Steps

-----------------------------------------------------------------------------
(* Steps: the end of a process *)

\* A process has ended, and what it left can be resumed from.
LEMMA Down ==
    ASSUME IInv, forget, file' \in [Pos -> Values],
           \A g \in Pages : Content(file', g) \in disk'[g],
           file_rows' \in Rows, disk_rows' \in Rows, Confined(disk', Anything),
           Resumable(marker)', Powered => disk_marker' = marker',
           marker' = NoMarker /\ (~needs_replay' \/ log = << >>) => Exact'
    PROVE  IInv'
<1>0. FileOK /\ JournalOK /\ MarkerOK /\ StepOK
  BY DEF IInv
<1>u. /\ pc' = "down" /\ rows' = 0 /\ leaves' = 0 /\ log' = log /\ base' = base
      /\ crashes' = crashes
  BY DEF forget
<1>1. JournalOK'
  BY <1>0, <1>u, JournalKept
<1>2. FileOK'
  <2>1. 0 \in Rows /\ 0 \in 0 .. Capacity(MaxRows)
    <3>1. MaxRows \in Nat
      BY RowsAssumption
    <3>2. 0 \in Rows
      BY <3>1 DEF Rows
    <3>3. Capacity(MaxRows) \in Nat
      BY <3>2, RowNumbers
    <3> QED BY <3>2, <3>3
  <2> QED BY <1>u, <2>1 DEF FileOK
<1>3. Powered' = Powered
  BY <1>u DEF Powered
<1>4. MarkerOK'
  BY <1>u, <1>3 DEF MarkerOK
<1>5. StepOK'
  BY <1>u DEF StepOK
<1> QED BY <1>1, <1>2, <1>4, <1>5, <1>u DEF IInv, Steps

LEMMA CloseStep ==
    ASSUME IInv, close
    PROVE  IInv'
<1>0. FileOK /\ JournalOK /\ MarkerOK /\ StepOK /\ pc = "up" /\ forget
  BY DEF IInv, close
<1>u. /\ UNCHANGED <<file, disk, file_rows, disk_rows, marker, disk_marker, log, base, crashes>>
  BY DEF close, forget, file_vars, marker_vars
<1>1. JournalOK' /\ Expected' = Expected /\ Recorded' = Recorded /\ FittingRows' = FittingRows
  BY <1>0, <1>u, JournalKept
<1>2. Resumable(marker) /\ marker = NoMarker /\ (Powered => disk_marker = NoMarker) /\ Exact
  BY <1>0 DEF MarkerOK, StepOK
<1>3. Resumable(marker)'
  BY <1>1, <1>2, <1>u DEF Resumable
<1>4. Exact'
  BY <1>1, <1>2, <1>u DEF Exact
<1>5. Powered => disk_marker' = marker'
  BY <1>2, <1>u
<1>6. /\ file' \in [Pos -> Values] /\ \A g \in Pages : Content(file', g) \in disk'[g]
      /\ file_rows' \in Rows /\ disk_rows' \in Rows /\ Confined(disk', Anything)
  BY <1>0, <1>u DEF FileOK
<1> QED BY <1>0, <1>3, <1>4, <1>5, <1>6, Down

LEMMA AllocateFailStep ==
    ASSUME IInv, allocate_fail
    PROVE  IInv'
<1>0. FileOK /\ JournalOK /\ MarkerOK /\ StepOK /\ pc = "allocate" /\ forget
  BY DEF IInv, allocate_fail, stop
<1>u. /\ UNCHANGED <<file, disk, disk_rows, marker, disk_marker, log, base, crashes>>
      /\ file_rows' \in IF rows = marker.old_rows THEN {rows, file_rows} ELSE {file_rows}
  BY DEF allocate_fail, stop, forget, marker_vars
<1>1. JournalOK' /\ Expected' = Expected /\ Recorded' = Recorded /\ FittingRows' = FittingRows
  BY <1>0, <1>u, JournalKept
<1>2. Resumable(marker) /\ marker.stage = Copying /\ (Powered => disk_marker = marker)
  BY <1>0 DEF MarkerOK
<1>3. /\ marker = ResizeMarker(marker.old_rows, marker.new_rows, Copying)
      /\ marker.old_rows \in FittingRows /\ marker.old_rows \in Rows
      /\ marker.new_rows \in Rows /\ marker.old_rows < marker.new_rows
      /\ disk_rows \in {marker.old_rows, marker.new_rows}
      /\ file_rows \in {marker.old_rows, marker.new_rows}
      /\ Confined(disk, HalfCopied(Expected, marker.old_rows, marker.new_rows))
      /\ marker # NoMarker
  BY <1>2, SidecarSays
<1>4. file_rows' \in {marker.old_rows, marker.new_rows}
  BY <1>3, <1>u
<1>5. Resumes(marker, base, Expected, Recorded, FittingRows, disk, file_rows', disk_rows)
  BY <1>3, <1>4 DEF Resumes
<1>6. Resumable(marker)'
  BY <1>1, <1>5, <1>u DEF Resumable
<1>7. /\ file' \in [Pos -> Values] /\ \A g \in Pages : Content(file', g) \in disk'[g]
      /\ file_rows' \in Rows /\ disk_rows' \in Rows /\ Confined(disk', Anything)
  BY <1>0, <1>3, <1>4, <1>u DEF FileOK
<1>8. (Powered => disk_marker' = marker') /\ marker' # NoMarker
  BY <1>2, <1>3, <1>u
<1> QED BY <1>0, <1>6, <1>7, <1>8, Down

\* A step leaves at each position something that can be resumed from, so it
\* may be interrupted after any of its writes.
LEMMA TargetConfined ==
    ASSUME IInv, pc \notin {"down", "refused"}
    PROVE  /\ \A p \in Pos : Target[p] \in Values
           /\ marker = NoMarker =>
                \A p \in Pos : Target[p] \in Settled(base, Recorded, file_rows)[p]
           /\ marker.stage = Copying =>
                \A p \in Pos : Target[p] \in HalfCopied(Expected, marker.old_rows, marker.new_rows)[p]
           /\ marker.stage = Clearing =>
                \A p \in Pos : Target[p] \in HalfCleared(Expected, marker.old_rows, marker.new_rows)[p]
           /\ marker = NoMarker /\ log = << >> => Target = file
<1>0. FileOK /\ JournalOK /\ MarkerOK /\ StepOK /\ Resumable(marker)
  BY DEF IInv, MarkerOK
<1>1. CASE pc \in {"apply", "unapply", "undo", "redo"}
  <2>1. marker = NoMarker /\ rows = file_rows
    BY <1>0, <1>1 DEF MarkerOK, StepOK
  <2>2. /\ file_rows \in FittingRows /\ Confined(disk, Settled(base, Recorded, file_rows))
        /\ marker.stage \notin {Copying, Clearing}
    BY <1>0, <2>1, SidecarSays
  <2>3. rows \in Rows /\ Fits(rows)
    BY <1>0, <2>1, <2>2, FittingHolds
  <2>4. \A p \in Pos : file[p] \in Settled(base, Recorded, rows)[p]
    BY <1>0, <2>1, <2>2, FileSeen
  <2>5. log # << >> /\ Len(log) \in 1 .. Len(log)
    <3>1. log \in Seq(RecordType)
      BY <1>0 DEF JournalOK
    <3>2. pc \in {"apply", "undo", "redo"} => log # << >>
      BY <1>0 DEF StepOK
    <3>3. pc = "unapply" => undoing \in 1 .. Len(log)
      BY <1>0 DEF StepOK
    <3>4. Len(log) \in Nat /\ (log = << >> => Len(log) = 0)
      BY <3>1
    <3>5. log # << >>
      BY <1>1, <3>2, <3>3, <3>4
    <3> QED BY <3>1, <3>5
  <2>6. PICK records \in SUBSET (1 .. Len(log)) :
          Target \in {Applied(file, records), Undone(file, records)}
    <3>1. CASE pc = "apply"
      BY <2>5, <3>1 DEF Target
    <3>2. CASE pc = "unapply"
      <4>1. undoing \in 1 .. Len(log)
        BY <1>0, <3>2 DEF StepOK
      <4> QED BY <3>2, <4>1 DEF Target
    <3>3. CASE pc = "undo"
      BY <3>3 DEF Target
    <3>4. CASE pc = "redo"
      <4>1. ForwardRecords \in SUBSET (1 .. Len(log))
        BY DEF ForwardRecords
      <4> QED BY <3>4, <4>1 DEF Target
    <3> QED BY <1>1, <3>1, <3>2, <3>3, <3>4
  <2>7. \A p \in Pos : Target[p] \in Settled(base, Recorded, rows)[p]
    BY <1>0, <2>3, <2>4, <2>6, DeltasSettled
  <2>8. \A p \in Pos : Target[p] \in Values
    BY <2>7 DEF Settled
  <2> QED BY <2>1, <2>2, <2>5, <2>7, <2>8
<1>2. CASE pc = "copy"
  <2> DEFINE old == marker.old_rows
             new == marker.new_rows
  <2>1. marker.stage = Copying
    BY <1>0, <1>2 DEF MarkerOK
  <2>2. /\ old \in FittingRows /\ old \in Rows /\ new \in Rows /\ old < new /\ marker # NoMarker
        /\ Confined(disk, HalfCopied(Expected, old, new))
    BY <1>0, <2>1, SidecarSays
  <2>3. Expected \in Nat /\ Expected <= Capacity(old)
    BY <1>0, <2>2, FittingHolds
  <2>4. \A p \in Pos : file[p] \in HalfCopied(Expected, old, new)[p]
    BY <1>0, <2>2, FileSeen
  <2>5. \A p \in Pos : Copied(marker)[p] \in Doubled(Expected, old, new)[p]
    BY <2>2, <2>3, <2>4, CopyDoubles
  <2>6. \A p \in Pos : Copied(marker)[p] \in HalfCopied(Expected, old, new)[p]
    BY <2>2, <2>3, <2>5, DoubledServes
  <2>7. Target = Copied(marker)
    BY <1>2 DEF Target
  <2>8. \A p \in Pos : Target[p] \in Values
    BY <2>6, <2>7 DEF HalfCopied
  <2>9. marker.stage # Clearing
    BY <2>1 DEF Copying, Clearing
  <2> QED BY <2>2, <2>6, <2>7, <2>8, <2>9
<1>3. CASE pc = "clear"
  <2> DEFINE old == marker.old_rows
             new == marker.new_rows
  <2>1. marker.stage = Clearing
    BY <1>0, <1>3 DEF MarkerOK
  <2>2. /\ old \in FittingRows /\ old \in Rows /\ new \in Rows /\ old < new /\ marker # NoMarker
        /\ Confined(disk, HalfCleared(Expected, old, new))
    BY <1>0, <2>1, SidecarSays
  <2>3. Expected \in Nat /\ Expected <= Capacity(old) /\ Expected <= Capacity(new)
    <3>1. Capacity(old) < Capacity(new) /\ Capacity(old) \in Nat /\ Capacity(new) \in Nat
      BY <2>2, LayoutsApart
    <3>2. Expected \in Nat /\ Expected <= Capacity(old)
      BY <1>0, <2>2, FittingHolds
    <3> QED BY <3>1, <3>2
  <2>4. Cleared(marker) = Layout(Expected, new)
    BY <1>0, <2>2, <2>3, FileSeen, ClearLeaves
  <2>5. \A p \in Pos : Layout(Expected, new)[p] \in HalfCleared(Expected, old, new)[p]
    BY <2>2, <2>3, LayoutHalfCleared
  <2>6. Target = Layout(Expected, new)
    BY <1>3, <2>4 DEF Target
  <2>7. \A p \in Pos : Target[p] \in Values
    BY <2>5, <2>6 DEF HalfCleared
  <2>8. marker.stage # Copying
    BY <2>1 DEF Copying, Clearing
  <2> QED BY <2>2, <2>5, <2>6, <2>7, <2>8
<1>4. CASE pc \notin {"apply", "unapply", "undo", "redo", "copy", "clear"}
  <2>1. Target = file
    BY <1>4 DEF Target
  <2>2. \A p \in Pos : file[p] \in Values
    BY <1>0 DEF FileOK
  <2>3. /\ marker = NoMarker => Confined(disk, Settled(base, Recorded, file_rows))
        /\ marker.stage = Copying =>
             Confined(disk, HalfCopied(Expected, marker.old_rows, marker.new_rows))
        /\ marker.stage = Clearing =>
             Confined(disk, HalfCleared(Expected, marker.old_rows, marker.new_rows))
    BY <1>0, SidecarSays
  <2> QED BY <1>0, <2>1, <2>2, <2>3, FileSeen
<1> QED BY <1>1, <1>2, <1>3, <1>4

LEMMA KillStep ==
    ASSUME IInv, kill
    PROVE  IInv'
<1>0. /\ FileOK /\ JournalOK /\ MarkerOK /\ StepOK /\ Resumable(marker) /\ forget
      /\ pc \in Steps \ {"down", "refused"}
  BY DEF IInv, MarkerOK, kill, stop
<1>u. /\ UNCHANGED <<file_rows, disk_rows, marker, disk_marker, log, base, crashes>>
      /\ needs_replay' = TRUE
  BY DEF kill, stop, forget, marker_vars
<1>1. JournalOK' /\ Expected' = Expected /\ Recorded' = Recorded /\ FittingRows' = FittingRows
  BY <1>0, <1>u, JournalKept
<1>2. ~Powered
  <2>1. "kill" \in crashes /\ crashes # {"kill", "power"} /\ crashes \subseteq {"kill", "power"}
    BY DEF IInv, kill
  <2> QED BY <2>1 DEF Powered
<1>3. PICK written \in {p \in Pos : Target[p] # file[p]} \cup {-1} :
        Write([p \in Pos |-> IF p <= written THEN Target[p] ELSE file[p]])
  BY DEF kill
<1> DEFINE f == [p \in Pos |-> IF p <= written THEN Target[p] ELSE file[p]]
<1>4. \A p \in Pos : f[p] \in {Target[p], file[p]}
  OBVIOUS
<1>5. /\ \A p \in Pos : Target[p] \in Values
      /\ marker = NoMarker =>
           \A p \in Pos : Target[p] \in Settled(base, Recorded, file_rows)[p]
      /\ marker.stage = Copying =>
           \A p \in Pos : Target[p] \in HalfCopied(Expected, marker.old_rows, marker.new_rows)[p]
      /\ marker.stage = Clearing =>
           \A p \in Pos : Target[p] \in HalfCleared(Expected, marker.old_rows, marker.new_rows)[p]
      /\ marker = NoMarker /\ log = << >> => Target = file
  BY <1>0, TargetConfined
<1>6. f \in [Pos -> Values]
  <2>1. \A p \in Pos : file[p] \in Values
    BY <1>0 DEF FileOK
  <2> QED BY <1>5, <2>1
<1>7. Target = file => f = file
  <2>1. file = [p \in Pos |-> file[p]]
    BY <1>0 DEF FileOK
  <2> QED BY <2>1
<1> HIDE DEF f
<1>8. Write(f)
  BY <1>3 DEF f
<1>9. /\ file' = f /\ file' \in [Pos -> Values]
      /\ \A g \in Pages : Content(file', g) \in disk'[g]
      /\ Confined(disk', Anything)
  BY <1>0, <1>6, <1>8, FileWritten
<1>10. ASSUME NEW G, Confined(disk, G), \A p \in Pos : Target[p] \in G[p]
       PROVE  Confined(disk', G)
  <2>1. \A p \in Pos : file[p] \in G[p]
    BY <1>0, <1>10, FileSeen
  <2>2. \A p \in Pos : f[p] \in G[p]
    BY <1>4, <1>10, <2>1
  <2> QED BY <1>0, <1>6, <1>8, <1>10, <2>2, FileWritten
<1>11. Resumable(marker)'
  <2>1. CASE marker = NoMarker
    <3>1. /\ disk_rows = file_rows /\ file_rows \in FittingRows
          /\ Confined(disk, Settled(base, Recorded, file_rows))
      BY <1>0, <2>1, SidecarSays
    <3>2. Confined(disk', Settled(base, Recorded, file_rows))
      BY <1>5, <1>10, <2>1, <3>1
    <3>3. Resumes(NoMarker, base, Expected, Recorded, FittingRows, disk', file_rows, disk_rows)
      BY <3>1, <3>2 DEF Resumes
    <3> QED BY <1>1, <1>u, <2>1, <3>3 DEF Resumable
  <2>2. CASE marker = EmptyMarker
    <3>1. Resumes(EmptyMarker, base, Expected, Recorded, FittingRows, disk', file_rows, disk_rows)
      BY DEF Resumes
    <3> QED BY <1>1, <1>u, <2>2, <3>1 DEF Resumable
  <2>3. CASE marker.stage = Copying
    <3>1. /\ marker = ResizeMarker(marker.old_rows, marker.new_rows, Copying)
          /\ marker.old_rows \in FittingRows
          /\ marker.new_rows \in Rows /\ marker.old_rows < marker.new_rows
          /\ disk_rows \in {marker.old_rows, marker.new_rows}
          /\ file_rows \in {marker.old_rows, marker.new_rows}
          /\ Confined(disk, HalfCopied(Expected, marker.old_rows, marker.new_rows))
      BY <1>0, <2>3, SidecarSays
    <3>2. Confined(disk', HalfCopied(Expected, marker.old_rows, marker.new_rows))
      BY <1>5, <1>10, <2>3, <3>1
    <3>3. Resumes(marker, base, Expected, Recorded, FittingRows, disk', file_rows, disk_rows)
      BY <3>1, <3>2 DEF Resumes
    <3> QED BY <1>1, <1>u, <3>3 DEF Resumable
  <2>4. CASE marker.stage = Clearing
    <3>1. /\ marker = ResizeMarker(marker.old_rows, marker.new_rows, Clearing)
          /\ marker.old_rows \in FittingRows
          /\ marker.new_rows \in Rows /\ marker.old_rows < marker.new_rows
          /\ disk_rows = marker.new_rows /\ file_rows = marker.new_rows
          /\ Confined(disk, HalfCleared(Expected, marker.old_rows, marker.new_rows))
      BY <1>0, <2>4, SidecarSays
    <3>2. Confined(disk', HalfCleared(Expected, marker.old_rows, marker.new_rows))
      BY <1>5, <1>10, <2>4, <3>1
    <3>3. Resumes(marker, base, Expected, Recorded, FittingRows, disk', file_rows, disk_rows)
      BY <3>1, <3>2 DEF Resumes
    <3> QED BY <1>1, <1>u, <3>3 DEF Resumable
  <2> QED BY <1>0, <2>1, <2>2, <2>3, <2>4, SidecarSays
<1>12. ASSUME marker = NoMarker, log = << >> PROVE Exact'
  <2>1. marker # EmptyMarker /\ marker.stage \notin {Copying, Clearing}
    <3>1. marker.stage = "absent" /\ EmptyMarker.stage = "empty"
      BY <1>12 DEF NoMarker, EmptyMarker
    <3> QED BY <3>1 DEF Copying, Clearing
  <2>2. pc \in {"up", "marker_create", "count", "remove_sync"}
    <3>1. Len(log) = 0
      BY <1>12
    <3>2. pc \notin {"apply", "sync", "undo", "redo"}
      BY <1>0, <1>12 DEF StepOK
    <3>3. pc # "unapply"
      <4>1. pc = "unapply" => undoing \in 1 .. Len(log)
        BY <1>0 DEF StepOK
      <4> QED BY <3>1, <4>1
    <3>4. pc \notin {"marker_write", "marker_sync", "grow", "allocate", "copy", "copy_sync",
                     "stage_write", "stage_sync", "clear", "clear_sync", "marker_remove"}
      BY <1>0, <2>1 DEF MarkerOK
    <3> QED BY <1>0, <3>2, <3>3, <3>4 DEF Steps
  <2>3. Exact
    BY <1>0, <1>12, <2>2 DEF StepOK
  <2>4. file' = file
    BY <1>5, <1>7, <1>9, <1>12
  <2>5. disk' = OnDisk(file)
    <3>1. disk' = [g \in Pages |-> disk[g] \cup {Content(file, g)}]
      BY <1>8, <1>9, <2>4 DEF Write
    <3>2. \A g \in Pages : disk[g] = {Content(file, g)}
      BY <2>3 DEF Exact, OnDisk
    <3>3. disk' = [g \in Pages |-> {Content(file, g)}]
      BY <3>1, <3>2
    <3> QED BY <3>3 DEF OnDisk
  <2> QED BY <1>1, <1>u, <2>3, <2>4, <2>5 DEF Exact
<1>13. file_rows' \in Rows /\ disk_rows' \in Rows
  BY <1>0, <1>u DEF FileOK
<1> QED BY <1>0, <1>2, <1>9, <1>11, <1>12, <1>13, <1>u, Down

\* What a power loss leaves, with any sidecar that could be resumed before it.
LEMMA LossResumes ==
    ASSUME IInv, NEW m, Resumable(m), NEW r \in {disk_rows, file_rows}, NEW f \in Survivors(r)
    PROVE  /\ f \in [Pos -> Values]
           /\ Resumes(m, base, Expected, Recorded, FittingRows, OnDisk(f), r, r)
           /\ m = NoMarker /\ log = << >> => f = Layout(Expected, r)
<1>0. FileOK /\ JournalOK
  BY DEF IInv
<1>1. f \in [Pos -> Values]
  <2>1. Confined(disk, Anything) /\ \A p \in Pos : Zero \in Anything[p]
    BY <1>0 DEF FileOK, Anything, Values
  <2>2. (\A p \in Pos : f[p] \in Anything[p]) /\ f = [p \in Pos |-> f[p]]
    BY <2>1, SurvivorsConfined
  <2>3. \A p \in Pos : f[p] \in Values
    BY <2>2 DEF Anything
  <2> QED BY <2>2, <2>3
<1>2. CASE m = NoMarker
  <2>1. /\ disk_rows = file_rows /\ file_rows \in FittingRows /\ r = file_rows
        /\ Confined(disk, Settled(base, Recorded, r))
    BY <1>2, SidecarSays
  <2>2. r \in Rows /\ base \in Nat /\ base <= Capacity(r) /\ Expected \in Nat
    BY <1>0, <2>1, FittingHolds
  <2>3. ASSUME NEW p \in Pos, ~(p < forest_capacity(r))
        PROVE  Zero \in Settled(base, Recorded, r)[p]
    <3>1. Has(base, r, p, Zero) /\ Zero \in Values
      BY <2>2, <2>3, BeyondOld
    <3> QED BY <3>1 DEF Settled
  <2>4. (\A p \in Pos : f[p] \in Settled(base, Recorded, r)[p]) /\ f = [p \in Pos |-> f[p]]
    BY <2>1, <2>3, SurvivorsConfined
  <2>5. Confined(OnDisk(f), Settled(base, Recorded, r))
    BY <2>4, SyncConfines
  <2>6. Resumes(m, base, Expected, Recorded, FittingRows, OnDisk(f), r, r)
    BY <1>2, <2>1, <2>5 DEF Resumes
  <2>7. ASSUME log = << >> PROVE f = Layout(Expected, r)
    <3>1. Len(log) = 0
      BY <2>7
    <3>2. Expected = base /\ Recorded = Nodes(base)
      BY <3>1 DEF Expected, ForwardRecords, Recorded
    <3>3. \A p \in Pos : f[p] \in Settled(base, Nodes(base), r)[p]
      BY <2>4, <3>2
    <3>4. f = Layout(base, r)
      BY <2>2, <2>4, <3>3, SettledLayout
    <3> QED BY <3>2, <3>4
  <2> QED BY <1>1, <2>6, <2>7
<1>3. CASE m = EmptyMarker
  <2>1. m # NoMarker
    BY <1>3 DEF NoMarker, EmptyMarker
  <2> QED BY <1>1, <1>3, <2>1 DEF Resumes
<1>4. CASE m.stage = Copying
  <2> DEFINE old == m.old_rows
             new == m.new_rows
             G == HalfCopied(Expected, old, new)
  <2>1. /\ m = ResizeMarker(old, new, Copying) /\ m # NoMarker
        /\ old \in FittingRows /\ old \in Rows /\ new \in Rows /\ old < new
        /\ r \in {old, new} /\ Confined(disk, G)
    BY <1>4, SidecarSays
  <2>2. Expected \in Nat /\ Expected <= Capacity(old)
    BY <1>0, <2>1, FittingHolds
  <2>3. ASSUME NEW p \in Pos, ~(p < forest_capacity(r)) PROVE Zero \in G[p]
    <3>1. ~(p < forest_capacity(old))
      <4>1. forest_capacity(old) < Capacity(new) /\ Capacity(new) <= forest_capacity(new)
            /\ forest_capacity(old) \in Int /\ forest_capacity(new) \in Int /\ Capacity(new) \in Int
        <5>1. forest_capacity(old) < Capacity(new)
          BY <2>1, LayoutsApart
        <5>2. /\ Capacity(old) \in Nat /\ Capacity(new) \in Nat /\ 1 <= Capacity(new)
              /\ forest_capacity(old) = 2 * Capacity(old) - 1
              /\ forest_capacity(new) = 2 * Capacity(new) - 1
          BY <2>1, RowNumbers
        <5> QED BY <5>1, <5>2
      <4>2. p \in Int
        BY DEF Pos
      <4> QED BY <2>1, <2>3, <4>1, <4>2
    <3>2. Has(Expected, old, p, Zero) /\ Zero \in Values
      BY <2>1, <2>2, <3>1, BeyondOld
    <3> QED BY <3>2 DEF HalfCopied
  <2> HIDE DEF G
  <2>4. \A p \in Pos : f[p] \in G[p]
    BY <2>1, <2>3, SurvivorsConfined
  <2>5. Confined(OnDisk(f), G)
    BY <2>4, SyncConfines
  <2> QED BY <1>1, <2>1, <2>5 DEF Resumes, G
<1>5. CASE m.stage = Clearing
  <2> DEFINE old == m.old_rows
             new == m.new_rows
             G == HalfCleared(Expected, old, new)
  <2>1. /\ m = ResizeMarker(old, new, Clearing) /\ m # NoMarker
        /\ old \in FittingRows /\ old \in Rows /\ new \in Rows /\ old < new
        /\ r = new /\ Confined(disk, G)
    BY <1>5, SidecarSays
  <2>2. Expected \in Nat /\ Expected <= Capacity(new)
    <3>1. Capacity(old) < Capacity(new) /\ Capacity(old) \in Nat /\ Capacity(new) \in Nat
      BY <2>1, LayoutsApart
    <3>2. Expected \in Nat /\ Expected <= Capacity(old)
      BY <1>0, <2>1, FittingHolds
    <3> QED BY <3>1, <3>2
  <2>3. ASSUME NEW p \in Pos, ~(p < forest_capacity(r)) PROVE Zero \in G[p]
    <3>1. Has(Expected, new, p, Zero) /\ Zero \in Values
      BY <2>1, <2>2, <2>3, BeyondOld
    <3> QED BY <3>1 DEF HalfCleared
  <2> HIDE DEF G
  <2>4. \A p \in Pos : f[p] \in G[p]
    BY <2>1, <2>3, SurvivorsConfined
  <2>5. Confined(OnDisk(f), G)
    BY <2>4, SyncConfines
  <2> QED BY <1>1, <2>1, <2>5 DEF Resumes, G
<1> QED BY <1>2, <1>3, <1>4, <1>5, SidecarSays

LEMMA PowerLossStep ==
    ASSUME IInv, power_loss
    PROVE  IInv'
<1>0. FileOK /\ JournalOK /\ MarkerOK /\ StepOK /\ forget
  BY DEF IInv, power_loss, stop
<1>u. /\ log' = log /\ base' = base /\ crashes' = crashes /\ needs_replay' = TRUE
      /\ file_rows' \in {disk_rows, file_rows} /\ file' \in Survivors(file_rows')
      /\ disk' = OnDisk(file') /\ disk_rows' = file_rows'
      /\ marker' \in MarkersAfterLoss /\ disk_marker' = marker'
  BY DEF power_loss, stop, forget
<1>1. JournalOK' /\ Expected' = Expected /\ Recorded' = Recorded /\ FittingRows' = FittingRows
  BY <1>0, <1>u, JournalKept
<1>2. Powered /\ Resumable(marker) /\ Resumable(disk_marker)
  BY <1>0 DEF power_loss, Powered, MarkerOK
<1>3. Resumable(EmptyMarker)
  BY DEF Resumable, Resumes
<1>4. Resumable(marker')
  <2>1. marker' \in {disk_marker, marker, EmptyMarker}
    BY <1>u DEF MarkersAfterLoss
  <2> QED BY <1>2, <1>3, <2>1
<1>5. /\ file' \in [Pos -> Values]
      /\ Resumes(marker', base, Expected, Recorded, FittingRows, OnDisk(file'), file_rows', file_rows')
      /\ marker' = NoMarker /\ log = << >> => file' = Layout(Expected, file_rows')
  BY <1>4, <1>u, LossResumes
<1>6. Resumable(marker)'
  BY <1>1, <1>5, <1>u DEF Resumable
<1>7. Confined(disk', Anything) /\ \A g \in Pages : Content(file', g) \in disk'[g]
  <2>1. \A p \in Pos : file'[p] \in Anything[p]
    BY <1>5 DEF Anything
  <2>2. Confined(disk', Anything)
    BY <1>u, <2>1, SyncConfines
  <2> QED BY <1>u, <2>2 DEF OnDisk
<1>8. file_rows' \in Rows /\ disk_rows' \in Rows
  BY <1>0, <1>u DEF FileOK
<1>9. marker' = NoMarker /\ log = << >> => Exact'
  BY <1>1, <1>5, <1>u DEF Exact
<1> QED BY <1>0, <1>5, <1>6, <1>7, <1>8, <1>9, <1>u, Down

-----------------------------------------------------------------------------
(* The specification *)

\* A behaviour has kills or power losses, not both.
OneKindOfCrash == {"kill", "power"} \notin CrashMixes

\* The file that the bootstrap built.
LEMMA InitialState ==
    ASSUME OneKindOfCrash, Init
    PROVE  IInv
<1>u. /\ base \in 1 .. Capacity(InitialRows)
      /\ file = Layout(base, InitialRows) /\ disk = OnDisk(file)
      /\ file_rows = InitialRows /\ disk_rows = InitialRows
      /\ marker = NoMarker /\ disk_marker = NoMarker /\ log = << >> /\ pc = "down"
      /\ rows = 0 /\ leaves = 0 /\ needs_replay = TRUE /\ crashes \in CrashMixes
  BY DEF Init
<1>1. InitialRows \in Rows /\ 0 \in Rows
  BY RowsAssumption DEF Rows
<1>2. /\ Capacity(InitialRows) \in Nat /\ Capacity(InitialRows) <= Capacity(MaxRows)
      /\ Capacity(MaxRows) \in Nat
  BY <1>1, RowNumbers
<1>3. Len(log) = 0 /\ ForwardRecords = {}
  BY <1>u DEF ForwardRecords
<1>4. Expected = base
  BY <1>3 DEF Expected
<1>5. JournalOK
  <2>1. base \in 1 .. Capacity(MaxRows)
    BY <1>u, <1>2
  <2>2. log \in Seq(RecordType)
    BY <1>u
  <2> QED BY <1>u, <1>3, <2>1, <2>2 DEF JournalOK
<1>6. InitialRows \in FittingRows
  <2>1. base <= Capacity(InitialRows)
    BY <1>u, <1>2
  <2> QED BY <1>1, <1>3, <2>1 DEF FittingRows, Fits
<1>7. disk = OnDisk(Layout(Expected, InitialRows))
  BY <1>u, <1>4
<1>8. Confined(disk, Settled(base, Recorded, InitialRows)) /\ Confined(disk, Anything)
  BY <1>5, <1>6, <1>7, ExactResumes
<1>9. FileOK
  <2>1. Expected \in Nat /\ Expected <= Capacity(InitialRows)
    BY <1>5, <1>6, FittingHolds
  <2>2. file \in [Pos -> Values]
    BY <1>u, <1>1, <1>4, <2>1, LayoutAt
  <2>3. \A g \in Pages : Content(file, g) \in disk[g]
    BY <1>u DEF OnDisk
  <2>4. leaves \in 0 .. Capacity(MaxRows)
    BY <1>u, <1>2
  <2> QED BY <1>u, <1>1, <1>8, <2>2, <2>3, <2>4 DEF FileOK
<1>10. Resumable(NoMarker)
  BY <1>u, <1>6, <1>8 DEF Resumable, Resumes
<1>11. MarkerOK
  BY <1>u, <1>10 DEF MarkerOK
<1>12. Exact
  BY <1>u, <1>4 DEF Exact
<1>13. StepOK
  BY <1>u, <1>12 DEF StepOK
<1>14. crashes # {"kill", "power"} /\ crashes \subseteq {"kill", "power"}
  BY <1>u, CrashAssumption DEF OneKindOfCrash
<1> QED BY <1>u, <1>5, <1>9, <1>11, <1>13, <1>14 DEF IInv, Steps

\* Every step keeps the inductive invariant.
LEMMA StepsKeep ==
    ASSUME IInv, [Next]_vars
    PROVE  IInv'
<1>1. CASE \E additions \in Additions : prove_block(additions)
  BY <1>1, ProveBlockStep
<1>2. CASE apply_forward
  BY <1>2, ApplyForwardStep
<1>3. CASE mark_rolled_back
  BY <1>3, MarkRolledBackStep
<1>4. CASE apply_backward
  BY <1>4, ApplyBackwardStep
<1>5. CASE sync
  BY <1>5, SyncStep
<1>6. CASE marker_create
  BY <1>6, MarkerCreateStep
<1>7. CASE marker_write
  BY <1>7, MarkerWriteStep
<1>8. CASE marker_sync
  BY <1>8, MarkerSyncStep
<1>9. CASE grow
  BY <1>9, GrowStep
<1>10. CASE allocate
  BY <1>10, AllocateStep
<1>11. CASE copy_internal_rows
  BY <1>11, CopyStep
<1>12. CASE copy_sync
  BY <1>12, CopySyncStep
<1>13. CASE update_resize_marker_stage
  BY <1>13, StageWriteStep
<1>14. CASE stage_sync
  BY <1>14, StageSyncStep
<1>15. CASE clear_new_bottom_range
  BY <1>15, ClearStep
<1>16. CASE clear_sync
  BY <1>16, ClearSyncStep
<1>17. CASE marker_remove
  BY <1>17, MarkerRemoveStep
<1>18. CASE remove_sync
  BY <1>18, RemoveSyncStep
<1>19. CASE open
  BY <1>19, OpenStep
<1>20. CASE count_leaves
  BY <1>20, CountStep
<1>21. CASE replay_backward
  BY <1>21, ReplayBackwardStep
<1>22. CASE replay_forward
  BY <1>22, ReplayForwardStep
<1>23. CASE close
  BY <1>23, CloseStep
<1>24. CASE kill
  BY <1>24, KillStep
<1>25. CASE allocate_fail
  BY <1>25, AllocateFailStep
<1>26. CASE power_loss
  BY <1>26, PowerLossStep
<1>27. CASE UNCHANGED vars
  <2>u. UNCHANGED <<file, disk, file_rows, disk_rows, marker, disk_marker, rows, leaves, new_rows,
                    undoing, base, needs_replay, crashes, stops, log, pc>>
    BY <1>27 DEF vars, file_vars, marker_vars, memory_vars, run_vars
  <2>0. FileOK /\ JournalOK /\ MarkerOK /\ StepOK /\ log' = log /\ base' = base
    BY <2>u DEF IInv
  <2>1. JournalOK' /\ Expected' = Expected /\ Recorded' = Recorded /\ FittingRows' = FittingRows
    BY <2>0, JournalKept
  <2>2. FileOK'
    BY <2>0, <2>u DEF FileOK
  <2>3. MarkerOK'
    BY <2>0, <2>1, <2>u DEF MarkerOK, Resumable, Powered
  <2>4. StepOK'
    BY <2>0, <2>1, <2>u DEF StepOK, Exact
  <2> QED BY <2>1, <2>2, <2>3, <2>4, <2>u DEF IInv
<1> QED BY <1>1, <1>2, <1>3, <1>4, <1>5, <1>6, <1>7, <1>8, <1>9, <1>10, <1>11, <1>12, <1>13, <1>14,
           <1>15, <1>16, <1>17, <1>18, <1>19, <1>20, <1>21, <1>22, <1>23, <1>24, <1>25, <1>26, <1>27
        DEF Next

\* The invariant IInv holds whatever is interrupted: every write of a block, a
\* roll back, a replay or a resize (parallel_forest.rs, FlatForest and
\* SteadyStateForest) leaves the medium confined to what the sidecar and the
\* journal say of it.
THEOREM ResizeInductive ==
    ASSUME OneKindOfCrash
    PROVE  Spec => []IInv
<1>1. Init => IInv
  BY InitialState
<1>2. IInv /\ [Next]_vars => IInv'
  BY StepsKeep
<1> QED BY <1>1, <1>2, PTL DEF Spec

\* The file, the medium and the worker's memory keep their types: no
\* relocation or replay writes outside the file or a value that is no node.
THEOREM ResizeTypes ==
    ASSUME OneKindOfCrash
    PROVE  Spec => []TypeOK
<1>1. IInv => TypeOK
  BY DEF IInv, FileOK, JournalOK, TypeOK, Values
<1> QED BY <1>1, ResizeInductive, PTL

\* Whenever the forest is open, every node is at its place in the current
\* layout and nothing is anywhere else, on the medium too: neither
\* resize_to_rows, nor a resumed resize, nor a replay of records of an older
\* layout misplaces, loses or leaves a node.
THEOREM ResizeWellPlaced ==
    ASSUME OneKindOfCrash
    PROVE  Spec => []WellPlaced
<1>1. IInv => WellPlaced
  BY DEF IInv, StepOK, Exact, WellPlaced
<1> QED BY <1>1, ResizeInductive, PTL

\* While copy_internal_rows and clear_new_bottom_range work, the layout that
\* the sidecar on the medium names as the source is complete in everything
\* that a power loss may leave.
THEOREM ResizeSourceIntact ==
    ASSUME OneKindOfCrash
    PROVE  Spec => []SourceIntact
<1>1. ASSUME IInv, Powered, disk_marker.stage \in {Copying, Clearing},
             NEW node \in Nodes(Expected),
             NEW r, r = IF disk_marker.stage = Copying THEN disk_marker.old_rows
                        ELSE disk_marker.new_rows,
             NEW content \in disk[PageOf(place(node, r))]
      PROVE  content[place(node, r)] = node
  <2> DEFINE old == disk_marker.old_rows
             new == disk_marker.new_rows
             p == place(node, r)
  <2>0. JournalOK /\ Resumable(disk_marker)
    BY <1>1 DEF IInv, MarkerOK
  <2>1. /\ old \in FittingRows /\ old \in Rows /\ new \in Rows /\ old < new
        /\ disk_marker.stage = Copying => Confined(disk, HalfCopied(Expected, old, new))
        /\ disk_marker.stage = Clearing => Confined(disk, HalfCleared(Expected, old, new))
    BY <1>1, <2>0, SidecarSays
  <2>2. node \in Frame(old) /\ node \in Frame(new)
    <3>1. Expected \in Nat /\ Expected <= Capacity(old)
      BY <2>0, <2>1, FittingHolds
    <3>2. node \in Frame(old)
      BY <2>1, <3>1, NodesInFrame
    <3> QED BY <2>1, <3>2, TwoPlaces
  <2>3. p \in Pos
    BY <1>1, <2>1, <2>2, FramePlace
  <2>4. Has(Expected, r, p, content[p])
    <3>1. CASE disk_marker.stage = Copying
      <4>1. content[p] \in HalfCopied(Expected, old, new)[p] /\ r = old
        BY <1>1, <2>1, <2>3, <3>1 DEF Confined
      <4> HIDE DEF p
      <4> QED BY <2>3, <4>1 DEF HalfCopied
    <3>2. CASE disk_marker.stage = Clearing
      <4>1. content[p] \in HalfCleared(Expected, old, new)[p] /\ r = new
        BY <1>1, <2>1, <2>3, <3>2 DEF Confined, Copying, Clearing
      <4> HIDE DEF p
      <4> QED BY <2>3, <4>1 DEF HalfCleared
    <3> QED BY <1>1, <3>1, <3>2
  <2> QED BY <2>4 DEF Has
<1>2. IInv => SourceIntact
  BY <1>1 DEF SourceIntact, Powered
<1> QED BY <1>2, ResizeInductive, PTL

\* FlatForest::open refuses the forest only when the sidecar is empty: any
\* other stop in the middle of a resize is resumed.
THEOREM ResizeResumes ==
    ASSUME OneKindOfCrash
    PROVE  Spec => []ResumesUnlessTorn
<1>1. IInv => ResumesUnlessTorn
  BY DEF IInv, MarkerOK, ResumesUnlessTorn
<1> QED BY <1>1, ResizeInductive, PTL
=============================================================================
