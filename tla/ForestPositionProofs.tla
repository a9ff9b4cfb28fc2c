------------------------ MODULE ForestPositionProofs ------------------------
(***************************************************************************)
(* Facts about the position arithmetic of the flat forest, for every       *)
(* number of rows: rows follow one another without overlap, the row of a   *)
(* position can be read off its leading ones, and translation between two  *)
(* layouts keeps row and index.                                            *)
(***************************************************************************)
EXTENDS ForestPositions, WellFoundedInduction, TLAPS

-----------------------------------------------------------------------------
(* Induction over numbers *)

Less == {p \in Nat \X Nat : p[1] < p[2]}

\* A nonempty set of naturals has a least element.
LEMMA LeastNatural ==
    ASSUME NEW T \in SUBSET Nat, T # {}
    PROVE  \E x \in T : \A y \in T : x <= y
<1>1. IsWellFoundedOn(OpToRel(<, Nat), Nat)
  BY NatLessThanWellFounded, Zenon
<1>2. OpToRel(<, Nat) = Less
  BY DEF OpToRel, Less
<1>3. IsWellFoundedOn(Less, Nat)
  BY <1>1, <1>2, Zenon
<1>4. \E x \in T : \A y \in T : ~(<<y, x>> \in Less)
  BY <1>3, WFMin, Zenon
<1>5. PICK x \in T : \A y \in T : ~(<<y, x>> \in Less)
  BY <1>4
<1>6. ASSUME NEW y \in T PROVE x <= y
  <2>1. x \in Nat /\ y \in Nat
    OBVIOUS
  <2>2. ~(y < x)
    BY <1>5, <2>1 DEF Less
  <2> QED BY <2>1, <2>2
<1> QED BY <1>6

\* A set of naturals with 0 that is closed under successors up to a bound has
\* every number up to the bound.
LEMMA UpTo ==
    ASSUME NEW k \in Nat, NEW S \in SUBSET Nat, 0 \in S,
           \A n \in S : n < k => n + 1 \in S
    PROVE  \A n \in 0 .. k : n \in S
<1> DEFINE T == {n \in 0 .. k : n \notin S}
<1> SUFFICES ASSUME T # {} PROVE FALSE
  OBVIOUS
<1>1. T \in SUBSET Nat
  OBVIOUS
<1>2. PICK n \in T : \A m \in T : n <= m
  BY <1>1, LeastNatural
<1>3. n \in Nat /\ n # 0 /\ n <= k /\ n \notin S
  OBVIOUS
<1>4. n - 1 \in 0 .. k /\ n - 1 \notin T
  BY <1>2, <1>3
<1>5. n - 1 \in S
  BY <1>4
<1> QED BY <1>3, <1>5

-----------------------------------------------------------------------------
(* Powers *)

\* The recursion that defines the powers has a solution.
LEMMA PowerExists ==
    \E f \in [0 .. MaxShift -> Nat] :
        f = [n \in 0 .. MaxShift |-> IF n = 0 THEN 1 ELSE 2 * f[n - 1]]
<1> DEFINE Good(f, k) == /\ f \in [0 .. MaxShift -> Nat]
                         /\ \A n \in 0 .. k : f[n] = IF n = 0 THEN 1 ELSE 2 * f[n - 1]
           S == {k \in 0 .. MaxShift : \E f : Good(f, k)}
<1>0. MaxShift \in Nat
  BY ShiftAssumption
<1>1. 0 \in S
  <2>1. Good([n \in 0 .. MaxShift |-> 1], 0)
    BY <1>0
  <2> HIDE DEF Good
  <2>2. \E f : Good(f, 0)
    BY <2>1
  <2> QED BY <1>0, <2>2
<1>2. ASSUME NEW k \in S, k < MaxShift PROVE k + 1 \in S
  <2>1. PICK f : Good(f, k)
    OBVIOUS
  <2> DEFINE g == [n \in 0 .. MaxShift |-> IF n = k + 1 THEN 2 * f[k] ELSE f[n]]
  <2>2. g \in [0 .. MaxShift -> Nat]
    BY <1>0, <2>1
  <2>3. ASSUME NEW n \in 0 .. k + 1 PROVE g[n] = IF n = 0 THEN 1 ELSE 2 * g[n - 1]
    BY <1>0, <1>2, <2>1
  <2>4. Good(g, k + 1)
    BY <2>2, <2>3
  <2> HIDE DEF Good, g
  <2>5. \E f0 : Good(f0, k + 1)
    BY <2>4
  <2> QED BY <1>0, <1>2, <2>5
<1>3. MaxShift \in S
  <2>1. S \in SUBSET Nat /\ \A n \in S : n < MaxShift => n + 1 \in S
    BY <1>2
  <2> HIDE DEF S
  <2>2. \A n \in 0 .. MaxShift : n \in S
    BY <1>0, <1>1, <2>1, UpTo
  <2> QED BY <1>0, <2>2
<1>4. PICK f : Good(f, MaxShift)
  BY <1>3
<1>5. f = [n \in 0 .. MaxShift |-> IF n = 0 THEN 1 ELSE 2 * f[n - 1]]
  BY <1>4
<1> QED BY <1>4, <1>5

\* A power is twice the one before it.
LEMMA PowDef ==
    /\ Pow2 \in [0 .. MaxShift -> Nat]
    /\ Pow2[0] = 1
    /\ \A n \in Nat : n + 1 <= MaxShift => Pow2[n + 1] = 2 * Pow2[n]
<1> DEFINE D(f) == [n \in 0 .. MaxShift |-> IF n = 0 THEN 1 ELSE 2 * f[n - 1]]
<1>0. MaxShift \in Nat
  BY ShiftAssumption
<1>1. PICK f \in [0 .. MaxShift -> Nat] : f = D(f)
  BY PowerExists
<1>2. Power = CHOOSE g : g = D(g)
  BY DEF Power
<1>3. Power = D(Power)
  <2> HIDE DEF D
  <2> QED BY <1>1, <1>2
<1>4. /\ DOMAIN Power = 0 .. MaxShift /\ Power[0] = 1
      /\ \A n \in 0 .. MaxShift : n # 0 => Power[n] = 2 * Power[n - 1]
  <2>1. /\ DOMAIN D(Power) = 0 .. MaxShift /\ D(Power)[0] = 1
        /\ \A n \in 0 .. MaxShift : n # 0 => D(Power)[n] = 2 * Power[n - 1]
    BY <1>0
  <2> HIDE DEF D
  <2> QED BY <1>3, <2>1, Zenon
<1> DEFINE S == {n \in 0 .. MaxShift : Power[n] \in Nat}
<1>5. \A n \in 0 .. MaxShift : n \in S
  <2>1. S \in SUBSET Nat /\ 0 \in S
    BY <1>0, <1>4
  <2>2. \A n \in S : n < MaxShift => n + 1 \in S
    BY <1>0, <1>4
  <2> HIDE DEF S
  <2> QED BY <1>0, <2>1, <2>2, UpTo
<1>6. \A n \in 0 .. MaxShift : Pow2[n] = Power[n] /\ Power[n] \in Nat
  BY <1>5 DEF Pow2
<1>7. Pow2 \in [0 .. MaxShift -> Nat]
  BY <1>5 DEF Pow2
<1>8. ASSUME NEW n \in Nat, n + 1 <= MaxShift PROVE Pow2[n + 1] = 2 * Pow2[n]
  <2>1. n \in 0 .. MaxShift /\ n + 1 \in 0 .. MaxShift /\ n + 1 # 0 /\ (n + 1) - 1 = n
    BY <1>0, <1>8
  <2>2. Power[n + 1] = 2 * Power[n]
    BY <1>4, <2>1
  <2> QED BY <1>6, <2>1, <2>2
<1> QED BY <1>0, <1>4, <1>6, <1>7, <1>8

\* Powers grow.
LEMMA PowGrows ==
    ASSUME NEW a \in Nat, NEW b \in Nat, a <= b, b <= MaxShift
    PROVE  Pow2[a] \in Nat /\ Pow2[b] \in Nat /\ 1 <= Pow2[a] /\ Pow2[a] <= Pow2[b]
<1> DEFINE S == {n \in 0 .. b : 1 <= Pow2[n]}
           T == {n \in Nat : a + n <= b => Pow2[a] <= Pow2[a + n]}
<1>0. MaxShift \in Nat /\ \A n \in 0 .. MaxShift : Pow2[n] \in Nat
  BY PowDef, ShiftAssumption
<1>1. \A n \in 0 .. b : n \in S
  <2>1. S \in SUBSET Nat /\ 0 \in S
    BY PowDef
  <2>2. ASSUME NEW n \in S, n < b PROVE n + 1 \in S
    <3>1. Pow2[n + 1] = 2 * Pow2[n] /\ Pow2[n] \in Nat /\ 1 <= Pow2[n]
      BY <1>0, <2>2, PowDef
    <3> QED BY <2>2, <3>1
  <2> HIDE DEF S
  <2> QED BY <2>1, <2>2, UpTo
<1>2. \A n \in 0 .. b - a : n \in T
  <2>1. T \in SUBSET Nat /\ 0 \in T
    BY <1>0
  <2>2. ASSUME NEW n \in T, n < b - a PROVE n + 1 \in T
    <3>1. a + n \in Nat /\ (a + n) + 1 <= MaxShift /\ a + n <= b /\ a + (n + 1) = (a + n) + 1
      BY <1>0, <2>2
    <3>2. Pow2[(a + n) + 1] = 2 * Pow2[a + n] /\ Pow2[a + n] \in Nat /\ Pow2[a] \in Nat
      BY <1>0, <3>1, PowDef
    <3>3. Pow2[a] <= Pow2[a + n]
      BY <3>1
    <3>4. Pow2[a] <= Pow2[a + (n + 1)]
      BY <3>1, <3>2, <3>3
    <3> QED BY <2>2, <3>4
  <2> HIDE DEF T
  <2>3. b - a \in Nat
    OBVIOUS
  <2> QED BY <2>1, <2>2, <2>3, UpTo
<1>3. a \in S /\ b - a \in T
  BY <1>1, <1>2
<1>4. a + (b - a) = b /\ a \in 0 .. MaxShift /\ b \in 0 .. MaxShift
  BY <1>0
<1> QED BY <1>0, <1>3, <1>4

\* A smaller power fits twice into a larger one.
LEMMA PowDoubles ==
    ASSUME NEW a \in Nat, NEW b \in Nat, a < b, b <= MaxShift
    PROVE  2 * Pow2[a] <= Pow2[b]
<1>1. a + 1 \in Nat /\ a + 1 <= b /\ MaxShift \in Nat /\ a + 1 <= MaxShift
  BY ShiftAssumption
<1>2. Pow2[a + 1] <= Pow2[b]
  BY <1>1, PowGrows
<1>3. Pow2[a + 1] = 2 * Pow2[a]
  BY <1>1, PowDef
<1> QED BY <1>2, <1>3

\* Powers multiply as exponents add.
LEMMA PowSplit ==
    ASSUME NEW a \in Nat, NEW b \in Nat, a + b <= MaxShift
    PROVE  Pow2[a + b] = Pow2[a] * Pow2[b]
<1> DEFINE S == {n \in Nat : n <= b => Pow2[a + n] = Pow2[a] * Pow2[n]}
<1>0. MaxShift \in Nat /\ \A n \in 0 .. MaxShift : Pow2[n] \in Nat
  BY PowDef, ShiftAssumption
<1>1. S \in SUBSET Nat /\ 0 \in S
  <2>1. Pow2[0] = 1 /\ Pow2[a] \in Nat /\ a + 0 = a
    BY <1>0, PowDef
  <2> QED BY <2>1
<1>2. ASSUME NEW n \in S, n < b PROVE n + 1 \in S
  <2>1. /\ a + n \in Nat /\ (a + n) + 1 <= MaxShift /\ n + 1 <= MaxShift
        /\ a + (n + 1) = (a + n) + 1
    BY <1>0, <1>2
  <2>2. Pow2[(a + n) + 1] = 2 * Pow2[a + n] /\ Pow2[n + 1] = 2 * Pow2[n]
    BY <2>1, PowDef
  <2>3. Pow2[a + n] = Pow2[a] * Pow2[n]
    BY <1>2
  <2>4. Pow2[a] \in Nat /\ Pow2[n] \in Nat
    BY <1>0, <2>1
  <2>5. 2 * (Pow2[a] * Pow2[n]) = Pow2[a] * (2 * Pow2[n])
    BY <2>4
  <2> QED BY <2>1, <2>2, <2>3, <2>5
<1>3. b \in S
  <2> HIDE DEF S
  <2>1. \A n \in 0 .. b : n \in S
    BY <1>1, <1>2, UpTo
  <2> QED BY <2>1
<1> QED BY <1>3

-----------------------------------------------------------------------------
(* Division *)

\* The quotient of a multiple and a rest.
LEMMA Quotient ==
    ASSUME NEW a \in Nat, NEW b \in Nat, NEW j \in Nat, j < b
    PROVE  (b * a + j) \div b = a
<1> DEFINE p == b * a + j
           q == p \div b
<1>1. p \in Nat /\ b > 0 /\ q \in Int /\ b * q <= p /\ p < b * q + b
  OBVIOUS
<1> HIDE DEF p, q
<1>2. b * (q - a) <= j /\ b * (a - q) < b
  BY <1>1 DEF p
<1>3. ~(q >= a + 1)
  <2> SUFFICES ASSUME q >= a + 1 PROVE FALSE
    OBVIOUS
  <2>1. b * (q - a) >= b
    BY <1>1
  <2> QED BY <1>1, <1>2, <2>1
<1>4. ~(a >= q + 1)
  <2> SUFFICES ASSUME a >= q + 1 PROVE FALSE
    OBVIOUS
  <2>1. b * (a - q) >= b
    BY <1>1
  <2> QED BY <1>1, <1>2, <2>1
<1> QED BY <1>1, <1>3, <1>4 DEF p, q

\* Even and odd.
LEMMA Parity ==
    ASSUME NEW a \in Nat
    PROVE  (2 * a) % 2 = 0 /\ (2 * a + 1) % 2 = 1
  OBVIOUS

-----------------------------------------------------------------------------
(* Rows *)

\* The length of a row, its start and its end.
LEMMA RowBounds ==
    ASSUME NEW r \in Nat, r + 1 <= MaxShift, NEW row \in 0 .. r
    PROVE  /\ r - row \in Nat /\ Pow2[r - row] \in Nat /\ 1 <= Pow2[r - row]
           /\ Pow2[r + 1] \in Nat /\ start_position_at_row(row, r) \in Nat
           /\ start_position_at_row(row, r) + 2 * Pow2[r - row] = Pow2[r + 1]
<1>1. /\ r - row \in Nat /\ (r - row) + 1 \in Nat /\ r + 1 \in Nat /\ (r - row) + 1 <= r + 1
      /\ r - row <= r + 1 /\ MaxShift \in Nat /\ (r - row) + 1 <= MaxShift /\ r + 1 - row = (r - row) + 1
  BY ShiftAssumption
<1>2. Pow2[r - row] \in Nat /\ 1 <= Pow2[r - row] /\ Pow2[r + 1] \in Nat
  BY <1>1, PowGrows
<1>3. Pow2[(r - row) + 1] = 2 * Pow2[r - row] /\ Pow2[(r - row) + 1] <= Pow2[r + 1]
  BY <1>1, PowDef, PowGrows
<1> QED BY <1>1, <1>2, <1>3 DEF start_position_at_row

\* The leaves are the first row.
LEMMA LeafRow ==
    ASSUME NEW r \in Nat, r + 1 <= MaxShift
    PROVE  start_position_at_row(0, r) = 0 /\ r - 0 = r
<1>1. Pow2[r + 1] \in Nat
  BY RowBounds, 0 \in 0 .. r
<1> QED BY <1>1 DEF start_position_at_row

\* A row ends where a higher one starts, or before.
LEMMA RowsApart ==
    ASSUME NEW r \in Nat, r + 1 <= MaxShift, NEW low \in 0 .. r, NEW high \in 0 .. r, low < high
    PROVE  start_position_at_row(low, r) + Pow2[r - low] <= start_position_at_row(high, r)
<1>1. r - high \in Nat /\ r - low \in Nat /\ r - high < r - low /\ r - low <= MaxShift
  BY ShiftAssumption
<1>2. 2 * Pow2[r - high] <= Pow2[r - low]
  BY <1>1, PowDoubles
<1>3. /\ start_position_at_row(low, r) + 2 * Pow2[r - low] = Pow2[r + 1]
      /\ start_position_at_row(high, r) + 2 * Pow2[r - high] = Pow2[r + 1]
      /\ Pow2[r - low] \in Nat /\ Pow2[r - high] \in Nat
      /\ start_position_at_row(low, r) \in Nat /\ start_position_at_row(high, r) \in Nat
  BY RowBounds
<1> QED BY <1>2, <1>3

\* Row and index of a position are unique.
LEMMA PositionsApart ==
    ASSUME NEW r \in Nat, r + 1 <= MaxShift, NEW row \in 0 .. r, NEW other \in 0 .. r,
           NEW i \in Nat, NEW j \in Nat, i < Pow2[r - row], j < Pow2[r - other],
           start_position_at_row(row, r) + i = start_position_at_row(other, r) + j
    PROVE  row = other /\ i = j
<1>1. /\ start_position_at_row(row, r) \in Nat /\ start_position_at_row(other, r) \in Nat
      /\ Pow2[r - row] \in Nat /\ Pow2[r - other] \in Nat
  BY RowBounds
<1>2. ~(row < other)
  <2> SUFFICES ASSUME row < other PROVE FALSE
    OBVIOUS
  <2>1. start_position_at_row(row, r) + Pow2[r - row] <= start_position_at_row(other, r)
    BY RowsApart
  <2> QED BY <1>1, <2>1
<1>3. ~(other < row)
  <2> SUFFICES ASSUME other < row PROVE FALSE
    OBVIOUS
  <2>1. start_position_at_row(other, r) + Pow2[r - other] <= start_position_at_row(row, r)
    BY RowsApart
  <2> QED BY <1>1, <2>1
<1>4. row = other
  BY <1>2, <1>3
<1> QED BY <1>1, <1>4

\* detect_row finds the row of a position.
LEMMA DetectedRow ==
    ASSUME NEW r \in Nat, r + 1 <= MaxShift, NEW row \in 0 .. r, NEW i \in Nat, i < Pow2[r - row]
    PROVE  detect_row(start_position_at_row(row, r) + i, r) = row
<1> DEFINE s == start_position_at_row(row, r)
           p == s + i
           P == Pow2[r - row]
<1>1. /\ s \in Nat /\ P \in Nat /\ 1 <= P /\ s + 2 * P = Pow2[r + 1] /\ Pow2[r + 1] \in Nat
      /\ MaxShift \in Nat
  BY RowBounds, ShiftAssumption
<1>2. ASSUME NEW q \in 0 .. r
      PROVE  /\ Pow2[r - q] \in Nat /\ Pow2[q] \in Nat /\ 1 <= Pow2[q]
             /\ Pow2[r + 1] = Pow2[r - q] * (2 * Pow2[q])
  <2>1. /\ r - q \in Nat /\ q + 1 \in Nat /\ (r - q) + (q + 1) = r + 1 /\ q + 1 <= MaxShift
        /\ q <= MaxShift /\ r - q <= MaxShift /\ q \in Nat
    BY <1>1
  <2>2. Pow2[(r - q) + (q + 1)] = Pow2[r - q] * Pow2[q + 1]
    BY <2>1, PowSplit
  <2>3. Pow2[q + 1] = 2 * Pow2[q]
    BY <2>1, PowDef
  <2>4. Pow2[r - q] \in Nat /\ Pow2[q] \in Nat /\ 1 <= Pow2[q]
    BY <2>1, PowGrows
  <2> QED BY <2>1, <2>2, <2>3, <2>4
<1>3. Bit(p, r - row) = 0
  <2>1. Pow2[row] \in Nat /\ 1 <= Pow2[row] /\ Pow2[r + 1] = P * (2 * Pow2[row])
    BY <1>2
  <2>2. 2 * (Pow2[row] - 1) \in Nat /\ Pow2[row] - 1 \in Nat
    BY <2>1
  <2>3. P * (2 * Pow2[row]) = P * (2 * (Pow2[row] - 1)) + 2 * P
    BY <1>1, <2>1
  <2>4. p = P * (2 * (Pow2[row] - 1)) + i
    BY <1>1, <2>1, <2>2, <2>3
  <2> HIDE DEF p, P
  <2>5. p \div P = 2 * (Pow2[row] - 1)
    BY <1>1, <2>2, <2>4, Quotient DEF P
  <2> QED BY <2>2, <2>5, Parity DEF Bit, P
<1>4. ASSUME NEW q \in 0 .. row - 1 PROVE Bit(p, r - q) = 1
  <2> DEFINE Q == Pow2[r - q]
  <2>1. q \in 0 .. r /\ r - row \in Nat /\ r - q \in Nat /\ r - row < r - q /\ r - q <= MaxShift
    BY <1>1
  <2>2. Q \in Nat /\ Pow2[q] \in Nat /\ 1 <= Pow2[q] /\ Pow2[r + 1] = Q * (2 * Pow2[q])
    BY <1>2, <2>1
  <2>3. 2 * P <= Q
    BY <2>1, PowDoubles
  <2> DEFINE a == 2 * (Pow2[q] - 1) + 1
             j == p - (Pow2[r + 1] - Q)
  <2>4. a \in Nat /\ j \in Nat /\ j < Q
    BY <1>1, <2>2, <2>3
  <2>5. Q * (2 * Pow2[q]) = Q * a + Q
    BY <2>2
  <2>6. p = Q * a + j
    BY <1>1, <2>2, <2>4, <2>5
  <2>7. a % 2 = 1
    BY <2>2, Parity
  <2> HIDE DEF p, Q, a, j
  <2>8. p \div Q = a
    BY <2>2, <2>4, <2>6, Quotient
  <2> QED BY <2>7, <2>8 DEF Bit, Q
<1> HIDE DEF p
<1>5. ASSUME NEW k \in 0 .. r, Bit(p, r - k) = 0, \A q \in 0 .. k - 1 : Bit(p, r - q) = 1
      PROVE  k = row
  BY <1>3, <1>4, <1>5
<1>6. detect_row(p, r) = row
  BY <1>3, <1>4, <1>5 DEF detect_row
<1> QED BY <1>6 DEF p

\* translate_position keeps the row and the index of a node: detect_row finds
\* the row of every position of the old layout, and the position in the other
\* layout is the one of the same node there.
THEOREM Translated ==
    ASSUME NEW r \in Nat, r + 1 <= MaxShift, NEW t, NEW row \in 0 .. r, NEW i \in Nat,
           i < Pow2[r - row], start_position_at_row(row, t) \in Int
    PROVE  translate_position(start_position_at_row(row, r) + i, r, t) =
              start_position_at_row(row, t) + i
<1>1. detect_row(start_position_at_row(row, r) + i, r) = row
  BY DetectedRow
<1>2. start_position_at_row(row, r) \in Nat
  BY RowBounds
<1> QED BY <1>1, <1>2 DEF translate_position

\* tree_rows is the smallest layout that holds the leaves.
LEMMA TreeRows ==
    ASSUME NEW n \in Nat \ {0}, NEW m \in Nat, m <= MaxShift, n <= Pow2[m]
    PROVE  /\ tree_rows(n) \in Nat /\ tree_rows(n) <= m /\ n <= Pow2[tree_rows(n)]
           /\ \A q \in Nat : q < tree_rows(n) => Pow2[q] < n
<1> DEFINE T == {r \in 0 .. MaxShift : n <= Pow2[r]}
<1>0. MaxShift \in Nat /\ \A r \in 0 .. MaxShift : Pow2[r] \in Nat
  BY PowDef, ShiftAssumption
<1>1. m \in T /\ T \in SUBSET Nat
  BY <1>0
<1>2. PICK r \in T : \A x \in T : r <= x
  BY <1>1, LeastNatural
<1>3. r \in 0 .. MaxShift /\ Pow2[r] >= n /\ \A q \in 0 .. r - 1 : Pow2[q] < n
  BY <1>0, <1>2
<1>4. /\ tree_rows(n) \in 0 .. MaxShift /\ Pow2[tree_rows(n)] >= n
      /\ \A q \in 0 .. tree_rows(n) - 1 : Pow2[q] < n
  BY <1>3 DEF tree_rows
<1>5. tree_rows(n) <= m
  BY <1>0, <1>4
<1> QED BY <1>0, <1>4, <1>5
=============================================================================
