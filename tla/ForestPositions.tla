-------------------------- MODULE ForestPositions --------------------------
(***************************************************************************)
(* The position arithmetic of the flat forest (parallel_forest.rs).  A     *)
(* forest of `rows` rows above the leaves numbers its nodes row by row,    *)
(* the leaves first; the file is an array in that order, so a node moves   *)
(* when the forest gets more rows.                                         *)
(***************************************************************************)
EXTENDS Integers

CONSTANT MaxShift    \* bound: the largest shift, 64 in the code

ASSUME ShiftAssumption == MaxShift \in Nat

\* 1 << n, as a table.
Power[n \in 0 .. MaxShift] == IF n = 0 THEN 1 ELSE 2 * Power[n - 1]
Pow2 == [n \in 0 .. MaxShift |-> Power[n]]

\* Mutant: one row more than the leaves need.
tree_rows_spare(leaves) ==
    1 + CHOOSE r \in 0 .. MaxShift : Pow2[r] >= leaves /\ \A q \in 0 .. r - 1 : Pow2[q] < leaves

\* Rows needed for that many leaves.
tree_rows(leaves) ==
    IF leaves = 0 THEN 0
    ELSE CHOOSE r \in 0 .. MaxShift : Pow2[r] >= leaves /\ \A q \in 0 .. r - 1 : Pow2[q] < leaves

\* Nodes of a full forest.
forest_capacity(rows) == Pow2[rows + 1] - 1

start_position_at_row(row, rows) == Pow2[rows + 1] - Pow2[rows + 1 - row]

Bit(position, n) == (position \div Pow2[n]) % 2

\* The row is the number of leading ones.
detect_row(position, rows) ==
    CHOOSE row \in 0 .. rows : /\ Bit(position, rows - row) = 0
                               /\ \A q \in 0 .. row - 1 : Bit(position, rows - q) = 1

parent(position, rows) == position \div 2 + Pow2[rows]

left_child(position, rows) == (2 * position) % Pow2[rows + 1]

Sibling(position) == IF position % 2 = 0 THEN position + 1 ELSE position - 1

\* The rows that have a root are the ones in the binary number of leaves.
HasRoot(leaves, row) == Bit(leaves, row) = 1

root_position(leaves, row, rows) ==
    start_position_at_row(row, rows) + 2 * (leaves \div Pow2[row + 1])

is_root_position(position, leaves, rows) ==
    LET row == detect_row(position, rows) IN
    HasRoot(leaves, row) /\ root_position(leaves, row, rows) = position

\* Mutant: the offset in the row is kept as a distance from the file's start.
translate_position_unshifted(position, from_rows, to_rows) ==
    IF detect_row(position, from_rows) = 0 THEN position
    ELSE position + start_position_at_row(1, to_rows) - start_position_at_row(1, from_rows)

translate_position(position, from_rows, to_rows) ==
    LET row == detect_row(position, from_rows) IN
    start_position_at_row(row, to_rows) + (position - start_position_at_row(row, from_rows))
=============================================================================
