---------------------- MODULE PersistenceThreadProofs ----------------------
(***************************************************************************)
(* Proofs about Persistence, for any block tree, window size, retention    *)
(* and any number of reorganizations, stops, losses and requests: the      *)
(* protocol between the producer and the worker, the journal and the       *)
(* forest.  First the facts about the block tree that these and the later  *)
(* proofs rest on: heights, branches and unbroken runs of blocks, for any  *)
(* tree in which every block descends from the root.                       *)
(***************************************************************************)
EXTENDS Persistence, FiniteSetTheorems, SequenceTheorems, WellFoundedInduction,
        TLAPS

-----------------------------------------------------------------------------
(* Recursion along Parent *)

\* f has the value z at the root and follows the step s from a parent to a child.
Recurs(f, V, z, s) ==
    /\ f \in [Blocks -> V]
    /\ f[Root] = z
    /\ \A b \in Blocks \ {Root} : f[b] = s[<<b, f[Parent[b]]>>]

\* A function can be defined by what it is at the root and by a step from a
\* block's parent to the block.
LEMMA TreeRecursion ==
    ASSUME NEW V, NEW z \in V, NEW s \in [Blocks \X V -> V]
    PROVE  \E f : Recurs(f, V, z, s)
<1> DEFINE Closed(X) ==
             /\ <<Root, z>> \in X
             /\ \A b \in Blocks \ {Root}, v \in V :
                   <<Parent[b], v>> \in X => <<b, s[<<b, v>>]>> \in X
           R == {p \in Blocks \X V : \A X \in SUBSET (Blocks \X V) : Closed(X) => p \in X}
           Only(b, v) == <<b, v>> \in R /\ \A w \in V : <<b, w>> \in R => w = v
           S == {b \in Blocks : \E v \in V : Only(b, v)}
<1>1. R \in SUBSET (Blocks \X V)
  OBVIOUS
<1>2. Closed(R)
  <2>1. <<Root, z>> \in R
    BY TreeAssumption
  <2>2. ASSUME NEW b \in Blocks \ {Root}, NEW v \in V, <<Parent[b], v>> \in R
        PROVE  <<b, s[<<b, v>>]>> \in R
    <3>1. <<b, s[<<b, v>>]>> \in Blocks \X V
      OBVIOUS
    <3>2. ASSUME NEW X \in SUBSET (Blocks \X V), Closed(X)
          PROVE  <<b, s[<<b, v>>]>> \in X
      BY <2>2, <3>2
    <3> QED BY <3>1, <3>2
  <2> HIDE DEF R
  <2> QED BY <2>1, <2>2
<1>3. ASSUME NEW X \in SUBSET (Blocks \X V), Closed(X)
      PROVE  R \subseteq X
  BY <1>3
<1>4. Only(Root, z)
  <2>1. ASSUME NEW w \in V, <<Root, w>> \in R, w # z
        PROVE  FALSE
    <3> DEFINE X == R \ {<<Root, w>>}
    <3>1. X \in SUBSET (Blocks \X V)
      BY <1>1
    <3>2. Closed(X)
      <4> HIDE DEF R
      <4> QED BY <1>2, <2>1
    <3>3. R \subseteq X
      <4> HIDE DEF R, X
      <4> QED BY <1>3, <3>1, <3>2
    <3> HIDE DEF R
    <3> QED BY <2>1, <3>3
  <2> HIDE DEF R
  <2> QED BY <1>2, <2>1
<1>5. ASSUME NEW b \in Blocks \ {Root}, NEW v \in V, Only(Parent[b], v)
      PROVE  Only(b, s[<<b, v>>])
  <2>1. ASSUME NEW w \in V, <<b, w>> \in R, w # s[<<b, v>>]
        PROVE  FALSE
    <3> DEFINE X == R \ {<<b, w>>}
    <3>1. X \in SUBSET (Blocks \X V)
      BY <1>1
    <3>2. Closed(X)
      <4> HIDE DEF R
      <4>1. <<Root, z>> \in X
        BY <1>2
      <4>2. ASSUME NEW c \in Blocks \ {Root}, NEW u \in V, <<Parent[c], u>> \in X
            PROVE  <<c, s[<<c, u>>]>> \in X
        <5>1. <<c, s[<<c, u>>]>> \in R
          BY <1>2, <4>2
        <5>2. ~(c = b /\ s[<<c, u>>] = w)
          BY <1>5, <2>1, <4>2
        <5> QED BY <5>1, <5>2
      <4> HIDE DEF X
      <4> QED BY <4>1, <4>2
    <3>3. R \subseteq X
      <4> HIDE DEF R, X
      <4> QED BY <1>3, <3>1, <3>2
    <3> HIDE DEF R
    <3> QED BY <2>1, <3>3
  <2> HIDE DEF R
  <2> QED BY <1>2, <1>5, <2>1
<1>6. S = Blocks
  <2> HIDE DEF Only
  <2>1. Root \in S
    BY <1>4, TreeAssumption
  <2>2. ASSUME NEW b \in Blocks \ {Root}, Parent[b] \in S
        PROVE  b \in S
    <3>1. PICK v \in V : Only(Parent[b], v)
      BY <2>2
    <3>2. s[<<b, v>>] \in V
      OBVIOUS
    <3> QED BY <1>5, <3>1, <3>2
  <2>3. S \in SUBSET Blocks
    OBVIOUS
  <2> HIDE DEF S
  <2> QED BY <2>1, <2>2, <2>3, DescentAssumption
<1> DEFINE f == [b \in Blocks |-> CHOOSE v \in V : Only(b, v)]
<1>7. ASSUME NEW b \in Blocks
      PROVE  f[b] \in V /\ Only(b, f[b])
  <2> HIDE DEF Only
  <2> QED BY <1>6
<1>8. ASSUME NEW b \in Blocks, NEW v \in V, NEW w \in V, Only(b, v), Only(b, w)
      PROVE  v = w
  <2> HIDE DEF R
  <2> QED BY <1>8
<1>9. f \in [Blocks -> V]
  <2> HIDE DEF Only
  <2> QED BY <1>7
<1> HIDE DEF f, Only
<1>10. f[Root] = z
  BY <1>4, <1>7, <1>8, TreeAssumption
<1>11. ASSUME NEW b \in Blocks \ {Root}
       PROVE  f[b] = s[<<b, f[Parent[b]]>>]
  <2>1. Parent[b] \in Blocks
    BY TreeAssumption
  <2>2. s[<<b, f[Parent[b]]>>] \in V
    BY <2>1, <1>9
  <2> QED BY <1>5, <1>7, <1>8, <2>1, <2>2
<1> QED BY <1>9, <1>10, <1>11 DEF Recurs

\* The height of a block is one more than its parent's.
LEMMA HeightDef ==
    /\ Height \in [Blocks -> Nat]
    /\ Height[Root] = 0
    /\ \A b \in Blocks \ {Root} : Height[b] = Height[Parent[b]] + 1
<1> DEFINE s == [p \in Blocks \X Nat |-> p[2] + 1]
           D(f) == [b \in Blocks |-> IF b = Root THEN 0 ELSE f[Parent[b]] + 1]
<1>1. s \in [Blocks \X Nat -> Nat]
  OBVIOUS
<1>2. PICK f : Recurs(f, Nat, 0, s)
  <2> HIDE DEF s
  <2> QED BY <1>1, 0 \in Nat, TreeRecursion, Zenon
<1>3. ASSUME NEW b \in Blocks \ {Root} PROVE f[b] = f[Parent[b]] + 1
  BY <1>2, TreeAssumption DEF Recurs
<1>4. f = D(f)
  BY <1>2, <1>3 DEF Recurs
<1>5. Height = CHOOSE g : g = D(g)
  BY DEF Height
<1>6. Height = D(Height)
  <2> HIDE DEF D
  <2> QED BY <1>4, <1>5
<1>7. DOMAIN Height = Blocks /\ Height[Root] = 0
  BY <1>6, TreeAssumption
<1>8. \A b \in Blocks \ {Root} : Height[b] = Height[Parent[b]] + 1
  BY <1>6, TreeAssumption
<1> DEFINE S == {b \in Blocks : Height[b] \in Nat}
<1>9. S = Blocks
  <2>1. Root \in S
    BY <1>7, TreeAssumption
  <2>2. \A b \in Blocks \ {Root} : Parent[b] \in S => b \in S
    BY <1>8
  <2> QED BY <2>1, <2>2, DescentAssumption
<1>10. Height = [b \in Blocks |-> Height[b]]
  BY <1>6
<1> QED BY <1>7, <1>8, <1>9, <1>10

\* The branch of a block is its parent's branch and the block itself.
LEMMA BranchDef ==
    /\ Branch \in [Blocks -> SUBSET Blocks]
    /\ Branch[Root] = {Root}
    /\ \A b \in Blocks \ {Root} : Branch[b] = Branch[Parent[b]] \cup {b}
<1> DEFINE s == [p \in Blocks \X SUBSET Blocks |-> p[2] \cup {p[1]}]
           D(f) == [b \in Blocks |-> IF b = Root THEN {Root} ELSE f[Parent[b]] \cup {b}]
<1>1. s \in [Blocks \X SUBSET Blocks -> SUBSET Blocks]
  OBVIOUS
<1>2. PICK f : Recurs(f, SUBSET Blocks, {Root}, s)
  <2>1. {Root} \in SUBSET Blocks
    BY TreeAssumption
  <2> HIDE DEF s
  <2> QED BY <1>1, <2>1, TreeRecursion, Zenon
<1>3. ASSUME NEW b \in Blocks \ {Root} PROVE f[b] = f[Parent[b]] \cup {b}
  BY <1>2, TreeAssumption DEF Recurs
<1>4. f = D(f)
  BY <1>2, <1>3 DEF Recurs
<1>5. Branch = CHOOSE g : g = D(g)
  BY DEF Branch
<1>6. Branch = D(Branch)
  <2> HIDE DEF D
  <2> QED BY <1>4, <1>5
<1>7. DOMAIN Branch = Blocks /\ Branch[Root] = {Root}
  BY <1>6, TreeAssumption
<1>8. \A b \in Blocks \ {Root} : Branch[b] = Branch[Parent[b]] \cup {b}
  BY <1>6, TreeAssumption
<1> DEFINE S == {b \in Blocks : Branch[b] \in SUBSET Blocks}
<1>9. S = Blocks
  <2>1. Root \in S
    BY <1>7, TreeAssumption
  <2>2. \A b \in Blocks \ {Root} : Parent[b] \in S => b \in S
    BY <1>8
  <2> QED BY <2>1, <2>2, DescentAssumption
<1>10. Branch = [b \in Blocks |-> Branch[b]]
  BY <1>6
<1> QED BY <1>7, <1>8, <1>9, <1>10

-----------------------------------------------------------------------------
(* Branches *)

\* A block above the root has a parent one below it.
LEMMA ParentFacts ==
    ASSUME NEW b \in Blocks \ {Root}
    PROVE  /\ Parent[b] \in Blocks
           /\ Height[b] = Height[Parent[b]] + 1
           /\ Branch[b] = Branch[Parent[b]] \cup {b}
  BY TreeAssumption, HeightDef, BranchDef

\* Types of heights and branches.
LEMMA HeightTypes ==
    ASSUME NEW b \in Blocks
    PROVE  /\ Height[b] \in Nat /\ Height[b] \in Heights \cup {0}
           /\ Height[b] = 0 <=> b = Root
           /\ b # Root => Height[b] \in Heights
           /\ Branch[b] \subseteq Blocks
<1>1. Height[b] \in Nat /\ Branch[b] \subseteq Blocks
  BY HeightDef, BranchDef
<1>2. CASE b = Root
  BY <1>1, <1>2, HeightDef
<1>3. CASE b # Root
  BY <1>1, <1>3, HeightDef, ParentFacts DEF Heights
<1> QED BY <1>2, <1>3

\* A branch runs from the root to its block.
LEMMA BranchEnds ==
    ASSUME NEW b \in Blocks
    PROVE  b \in Branch[b] /\ Root \in Branch[b]
<1> DEFINE S == {c \in Blocks : Root \in Branch[c]}
<1>1. Root \in S
  BY TreeAssumption, BranchDef
<1>2. \A c \in Blocks \ {Root} : Parent[c] \in S => c \in S
  BY ParentFacts
<1>3. S = Blocks
  BY <1>1, <1>2, DescentAssumption
<1>4. b \in Branch[b]
  BY BranchDef
<1> QED BY <1>3, <1>4

\* A block of a branch has its own branch in it, and only the last block has
\* the last one's height.
LEMMA BranchBelow ==
    ASSUME NEW b \in Blocks, NEW c \in Branch[b]
    PROVE  /\ c \in Blocks /\ Branch[c] \subseteq Branch[b]
           /\ Height[c] <= Height[b]
           /\ Height[c] = Height[b] => c = b
<1> DEFINE P(a, d) == /\ Branch[d] \subseteq Branch[a]
                      /\ Height[d] <= Height[a]
                      /\ Height[d] = Height[a] => d = a
           S == {a \in Blocks : \A d \in Branch[a] : P(a, d)}
<1>1. Root \in S
  BY TreeAssumption, BranchDef, HeightDef
<1>2. ASSUME NEW a \in Blocks \ {Root}, Parent[a] \in S
      PROVE  a \in S
  <2>1. /\ Parent[a] \in Blocks
        /\ Height[a] = Height[Parent[a]] + 1
        /\ Branch[a] = Branch[Parent[a]] \cup {a}
        /\ Height[Parent[a]] \in Nat
        /\ Branch[Parent[a]] \subseteq Blocks
    BY ParentFacts, HeightTypes
  <2>2. ASSUME NEW d \in Branch[a]
        PROVE  P(a, d)
    <3>1. CASE d = a
      BY <3>1, <2>1
    <3>2. CASE d # a
      <4>1. d \in Branch[Parent[a]] /\ d \in Blocks
        BY <2>1, <3>2
      <4>2. Height[d] \in Nat
        BY <4>1, HeightTypes
      <4>3. P(Parent[a], d)
        BY <1>2, <4>1
      <4> QED BY <2>1, <4>2, <4>3
    <3> QED BY <3>1, <3>2
  <2> QED BY <2>2
<1>3. S = Blocks
  <2>1. S \in SUBSET Blocks
    OBVIOUS
  <2> HIDE DEF S
  <2> QED BY <1>1, <1>2, <2>1, DescentAssumption
<1>4. P(b, c)
  BY <1>3
<1>5. c \in Blocks
  BY HeightTypes
<1> QED BY <1>4, <1>5

\* A branch has one block at each height, in line.
LEMMA BranchLine ==
    ASSUME NEW b \in Blocks, NEW c \in Branch[b], NEW d \in Branch[b]
    PROVE  /\ Height[c] = Height[d] => c = d
           /\ Height[c] <= Height[d] => c \in Branch[d]
<1> DEFINE S == {a \in Blocks : \A x, y \in Branch[a] : Height[x] <= Height[y] => x \in Branch[y]}
<1>1. Root \in S
  BY TreeAssumption, BranchDef, HeightDef
<1>2. ASSUME NEW a \in Blocks \ {Root}, Parent[a] \in S
      PROVE  a \in S
  <2>1. /\ Parent[a] \in Blocks
        /\ Height[a] = Height[Parent[a]] + 1
        /\ Branch[a] = Branch[Parent[a]] \cup {a}
    BY ParentFacts
  <2>2. ASSUME NEW x \in Branch[a], NEW y \in Branch[a], Height[x] <= Height[y]
        PROVE  x \in Branch[y]
    <3>1. CASE y = a
      BY <3>1
    <3>2. CASE y # a /\ x # a
      BY <1>2, <2>1, <2>2, <3>2
    <3>3. CASE y # a /\ x = a
      <4>1. y \in Branch[Parent[a]]
        BY <2>1, <3>3
      <4>2. y \in Blocks /\ Height[y] <= Height[Parent[a]]
        BY <2>1, <4>1, BranchBelow
      <4>3. Height[y] \in Nat /\ Height[Parent[a]] \in Nat
        BY <2>1, <4>2, HeightTypes
      <4> QED BY <2>1, <2>2, <3>3, <4>2, <4>3
    <3> QED BY <3>1, <3>2, <3>3
  <2> QED BY <2>2
<1>3. S = Blocks
  <2>1. S \in SUBSET Blocks
    OBVIOUS
  <2> HIDE DEF S
  <2> QED BY <1>1, <1>2, <2>1, DescentAssumption
<1>4. \A x, y \in Branch[b] : Height[x] <= Height[y] => x \in Branch[y]
  BY <1>3
<1>5. c \in Blocks /\ d \in Blocks
  BY HeightTypes
<1>6. ASSUME Height[c] = Height[d] PROVE c = d
  <2>1. Height[c] \in Nat
    BY <1>5, HeightTypes
  <2>2. c \in Branch[d]
    BY <1>4, <1>6, <2>1
  <2> QED BY <1>5, <1>6, <2>2, BranchBelow
<1> QED BY <1>4, <1>6

\* A branch has a block at each height.
LEMMA BranchFull ==
    ASSUME NEW b \in Blocks, NEW h \in Nat, h <= Height[b]
    PROVE  \E c \in Branch[b] : Height[c] = h
<1> DEFINE S == {a \in Blocks : \A n \in Nat : n <= Height[a] => \E c \in Branch[a] : Height[c] = n}
<1>1. Root \in S
  BY TreeAssumption, BranchDef, HeightDef
<1>2. ASSUME NEW a \in Blocks \ {Root}, Parent[a] \in S
      PROVE  a \in S
  <2>1. /\ Parent[a] \in Blocks
        /\ Height[a] = Height[Parent[a]] + 1
        /\ Branch[a] = Branch[Parent[a]] \cup {a}
        /\ Height[Parent[a]] \in Nat
    BY ParentFacts, HeightTypes
  <2>2. ASSUME NEW n \in Nat, n <= Height[a]
        PROVE  \E c \in Branch[a] : Height[c] = n
    <3>1. CASE n = Height[a]
      BY <2>1, <3>1
    <3>2. CASE n # Height[a]
      BY <1>2, <2>1, <2>2, <3>2
    <3> QED BY <3>1, <3>2
  <2> QED BY <2>2
<1>3. S = Blocks
  <2>1. S \in SUBSET Blocks
    OBVIOUS
  <2> HIDE DEF S
  <2> QED BY <1>1, <1>2, <2>1, DescentAssumption
<1> QED BY <1>3

\* Core's answer for a height up to its tip is the block of its branch there.
LEMMA BlockHash ==
    ASSUME active \in Blocks, NEW h \in Nat, h <= Height[active]
    PROVE  /\ get_block_hash(h) \in Branch[active]
           /\ get_block_hash(h) \in Blocks
           /\ Height[get_block_hash(h)] = h
<1>1. \E c \in Branch[active] : Height[c] = h
  BY BranchFull
<1>2. get_block_hash(h) \in Branch[active] /\ Height[get_block_hash(h)] = h
  BY <1>1 DEF get_block_hash
<1> QED BY <1>2, HeightTypes

\* The only block at height zero is the root.
LEMMA RootHash ==
    ASSUME active \in Blocks
    PROVE  get_block_hash(0) = Root
<1>1. Height[active] \in Nat
  BY HeightTypes
<1> QED BY <1>1, BlockHash, HeightTypes

\* A branch determines its last block.
LEMMA BranchInjective ==
    ASSUME NEW b \in Blocks, NEW c \in Blocks, Branch[b] = Branch[c]
    PROVE  b = c
<1>1. b \in Branch[c] /\ c \in Branch[b]
  BY BranchEnds
<1>2. Height[b] <= Height[c] /\ Height[c] <= Height[b]
  BY <1>1, BranchBelow
<1> QED BY <1>1, <1>2, BranchBelow, HeightTypes

\* The parent's branch is the branch without its block.
LEMMA BranchParent ==
    ASSUME NEW b \in Blocks \ {Root}
    PROVE  /\ b \notin Branch[Parent[b]]
           /\ Branch[Parent[b]] = Branch[b] \ {b}
<1>1. Height[b] = Height[Parent[b]] + 1 /\ Parent[b] \in Blocks
  BY ParentFacts
<1>2. b \notin Branch[Parent[b]]
  BY <1>1, BranchBelow, HeightTypes
<1> QED BY <1>2, ParentFacts

-----------------------------------------------------------------------------
(* Least and greatest numbers *)

Smaller == {p \in Nat \X Nat : p[1] < p[2]}

\* A nonempty set of naturals has a least element.
LEMMA LeastNumber ==
    ASSUME NEW T \in SUBSET Nat, T # {}
    PROVE  \E x \in T : \A y \in T : x <= y
<1>1. IsWellFoundedOn(OpToRel(<, Nat), Nat)
  BY NatLessThanWellFounded, Zenon
<1>2. OpToRel(<, Nat) = Smaller
  BY DEF OpToRel, Smaller
<1>3. IsWellFoundedOn(Smaller, Nat)
  BY <1>1, <1>2, Zenon
<1>4. \E x \in T : \A y \in T : ~(<<y, x>> \in Smaller)
  BY <1>3, WFMin, Zenon
<1>5. PICK x \in T : \A y \in T : ~(<<y, x>> \in Smaller)
  BY <1>4
<1>6. ASSUME NEW y \in T PROVE x <= y
  <2>1. x \in Nat /\ y \in Nat
    OBVIOUS
  <2>2. ~(y < x)
    BY <1>5, <2>1 DEF Smaller
  <2> QED BY <2>1, <2>2
<1> QED BY <1>6

\* A nonempty bounded set of naturals has a greatest element.
LEMMA GreatestNumber ==
    ASSUME NEW n \in Nat, NEW T \in SUBSET (0 .. n), T # {}
    PROVE  \E x \in T : \A y \in T : y <= x
<1> DEFINE D == {d \in Nat : \E x \in T : d = n - x}
<1>1. D \in SUBSET Nat /\ D # {}
  <2>1. PICK x \in T : TRUE
    OBVIOUS
  <2>2. n - x \in Nat
    OBVIOUS
  <2> QED BY <2>1, <2>2
<1>2. PICK d \in D : \A e \in D : d <= e
  <2> HIDE DEF D
  <2> QED BY <1>1, LeastNumber
<1>3. PICK x \in T : d = n - x
  BY <1>2
<1>4. ASSUME NEW y \in T PROVE y <= x
  <2>1. n - y \in Nat
    OBVIOUS
  <2>2. d <= n - y
    BY <1>2, <2>1
  <2> QED BY <1>3, <2>2
<1> QED BY <1>4

\* The rank of i in a set of numbers.
Rank(S, i) == Cardinality({j \in S : j <= i})

\* Ranks grow with the numbers, from one to the size of the set.
LEMMA RankGrows ==
    ASSUME NEW m \in Nat, NEW S \in SUBSET (1 .. m)
    PROVE  /\ IsFiniteSet(S) /\ Cardinality(S) \in Nat
           /\ \A i \in S : Rank(S, i) \in 1 .. Cardinality(S)
           /\ \A i, k \in S : i < k => Rank(S, i) < Rank(S, k)
<1>1. IsFiniteSet(1 .. m)
  BY FS_Interval
<1>2. IsFiniteSet(S) /\ Cardinality(S) \in Nat
  BY <1>1, FS_Subset, FS_CardinalityType
<1>3. ASSUME NEW i \in S
      PROVE  /\ IsFiniteSet({j \in S : j <= i}) /\ Rank(S, i) \in Nat
             /\ Rank(S, i) <= Cardinality(S) /\ Rank(S, i) # 0
  <2> DEFINE T == {j \in S : j <= i}
  <2>1. T \in SUBSET S /\ i \in T
    OBVIOUS
  <2> HIDE DEF T
  <2>2. IsFiniteSet(T) /\ Cardinality(T) <= Cardinality(S) /\ Cardinality(T) \in Nat
    BY <1>2, <2>1, FS_Subset, FS_CardinalityType
  <2>3. Cardinality(T) # 0
    BY <2>1, <2>2, FS_EmptySet
  <2> QED BY <2>2, <2>3 DEF T, Rank
<1>4. ASSUME NEW i \in S, NEW k \in S, i < k
      PROVE  Rank(S, i) < Rank(S, k)
  <2> DEFINE T == {j \in S : j <= i}
             U == {j \in S : j <= k}
  <2>1. T \in SUBSET U /\ k \in U /\ k \notin T
    <3>1. \A j \in S : j \in Nat
      OBVIOUS
    <3>2. k <= k /\ ~(k <= i) /\ \A j \in S : j <= i => j <= k
      BY <1>4, <3>1
    <3> QED BY <3>2
  <2>2. IsFiniteSet(U) /\ Cardinality(U) \in Nat /\ Cardinality(T) \in Nat
    BY <1>3 DEF Rank
  <2> HIDE DEF T, U
  <2>3. Cardinality(T) <= Cardinality(U) /\ (Cardinality(U) = Cardinality(T) => U = T)
    BY <2>1, <2>2, FS_Subset
  <2>4. Cardinality(T) < Cardinality(U)
    BY <2>1, <2>2, <2>3
  <2> QED BY <2>4 DEF T, U, Rank
<1>5. ASSUME NEW i \in S PROVE Rank(S, i) \in 1 .. Cardinality(S)
  <2>1. Rank(S, i) \in Nat /\ Rank(S, i) <= Cardinality(S) /\ Rank(S, i) # 0
    BY <1>3
  <2> QED BY <1>2, <2>1
<1>6. \A i, k \in S : i < k => Rank(S, i) < Rank(S, k)
  BY <1>4
<1> QED BY <1>2, <1>5, <1>6

\* Every number up to the size of the set is a rank.
LEMMA RankOnto ==
    ASSUME NEW m \in Nat, NEW S \in SUBSET (1 .. m), NEW n \in 1 .. Cardinality(S)
    PROVE  \E i \in S : Rank(S, i) = n
<1> DEFINE c == Cardinality(S)
<1>1. /\ IsFiniteSet(S) /\ c \in Nat
      /\ \A i \in S : Rank(S, i) \in 1 .. c
  BY RankGrows
<1>2. S # {}
  BY <1>1, FS_EmptySet
<1>3. PICK g \in S : \A j \in S : j <= g
  <2>1. S \in SUBSET (0 .. m)
    OBVIOUS
  <2> QED BY <1>2, <2>1, GreatestNumber
<1>4. Rank(S, g) = c
  <2>1. {j \in S : j <= g} = S
    BY <1>3
  <2> QED BY <2>1 DEF Rank
<1> DEFINE U == {i \in S : Rank(S, i) >= n}
<1>5. U \in SUBSET Nat /\ U # {}
  <2>1. c >= n /\ \A j \in S : j \in Nat
    BY <1>1
  <2>2. g \in U
    BY <1>3, <1>4, <2>1
  <2> QED BY <2>1, <2>2
<1>6. PICK i \in U : \A k \in U : i <= k
  <2> HIDE DEF U
  <2> QED BY <1>5, LeastNumber
<1>7. i \in S /\ i \in Nat /\ Rank(S, i) \in Nat /\ Rank(S, i) >= n
  BY <1>1, <1>6
<1>8. Rank(S, i) = n
  <2> SUFFICES ASSUME Rank(S, i) # n PROVE FALSE
    OBVIOUS
  <2> DEFINE A == {j \in S : j <= i}
             B == A \ {i}
  <2>1. IsFiniteSet(A) /\ i \in A /\ Cardinality(A) = Rank(S, i)
    BY <1>1, <1>7, FS_Subset DEF Rank
  <2>2. B = {j \in S : j < i}
    <3>1. \A j \in S : j \in Nat
      OBVIOUS
    <3>2. \A j \in S : j < i <=> j <= i /\ j # i
      BY <1>7, <3>1
    <3> QED BY <3>2
  <2>3. IsFiniteSet(B) /\ Cardinality(B) = Rank(S, i) - 1
    <3> HIDE DEF A
    <3> QED BY <2>1, FS_RemoveElement
  <2>4. Cardinality(B) >= n /\ Cardinality(B) \in Nat
    BY <1>7, <2>3
  <2>5. B # {}
    <3> HIDE DEF B
    <3> QED BY <2>4, FS_EmptySet
  <2>6. PICK p \in B : \A j \in B : j <= p
    <3>0. \A j \in S : j \in 0 .. m
      OBVIOUS
    <3>1. B \in SUBSET (0 .. m)
      BY <3>0
    <3> HIDE DEF B
    <3> QED BY <2>5, <3>1, GreatestNumber
  <2>7. p \in S /\ p < i /\ p \in Nat
    BY <2>2, <2>6
  <2>8. {j \in S : j <= p} = B
    <3>1. \A j \in S : j \in Nat /\ (j <= p <=> j < i)
      BY <1>7, <2>2, <2>6, <2>7
    <3> HIDE DEF B
    <3> QED BY <2>2, <3>1
  <2>9. Rank(S, p) >= n
    BY <2>4, <2>8 DEF Rank
  <2>10. i <= p
    BY <1>6, <2>7, <2>9
  <2> QED BY <1>7, <2>7, <2>10
<1> QED BY <1>7, <1>8

-----------------------------------------------------------------------------
(* Runs: sequences of blocks each of which is the child of the one before *)

\* s continues the chain that ends with b.
Extends(b, s) ==
    \A i \in 1 .. Len(s) :
        /\ s[i] \in Blocks \ {Root}
        /\ Parent[s[i]] = IF i = 1 THEN b ELSE s[i - 1]

\* The end of the chain that s continues from b.
EndOf(b, s) == IF Len(s) = 0 THEN b ELSE s[Len(s)]

\* The branches and heights along a run.
LEMMA RunBranches ==
    ASSUME NEW b \in Blocks, NEW s \in Seq(Blocks), Extends(b, s),
           NEW i \in 1 .. Len(s)
    PROVE  /\ Height[s[i]] = Height[b] + i
           /\ Branch[s[i]] = Branch[b] \cup {s[j] : j \in 1 .. i}
<1> DEFINE P(k) == /\ Height[s[k]] = Height[b] + k
                   /\ Branch[s[k]] = Branch[b] \cup {s[j] : j \in 1 .. k}
           T == {k \in 1 .. Len(s) : ~P(k)}
<1>1. SUFFICES ASSUME T # {} PROVE FALSE
  OBVIOUS
<1>2. T \in SUBSET Nat
  OBVIOUS
<1>3. PICK k \in T : \A y \in T : k <= y
  <2> HIDE DEF T
  <2> QED BY <1>1, <1>2, LeastNumber
<1>4. /\ k \in 1 .. Len(s) /\ s[k] \in Blocks \ {Root}
      /\ Parent[s[k]] = IF k = 1 THEN b ELSE s[k - 1]
  BY DEF Extends
<1>5. /\ Height[s[k]] = Height[Parent[s[k]]] + 1
      /\ Branch[s[k]] = Branch[Parent[s[k]]] \cup {s[k]}
  BY <1>4, ParentFacts
<1>6. CASE k = 1
  <2>1. {s[j] : j \in 1 .. k} = {s[k]}
    BY <1>6
  <2>2. P(k)
    BY <1>4, <1>5, <1>6, <2>1
  <2> QED BY <2>2
<1>7. CASE k # 1
  <2>1. k - 1 \in 1 .. Len(s) /\ k - 1 \notin T
    BY <1>3, <1>7
  <2>2. P(k - 1)
    BY <2>1
  <2>3. {s[j] : j \in 1 .. k} = {s[j] : j \in 1 .. k - 1} \cup {s[k]}
    BY <1>4
  <2>4. Height[b] \in Nat
    BY HeightTypes
  <2>5. P(k)
    BY <1>4, <1>5, <1>7, <2>2, <2>3, <2>4
  <2> QED BY <2>5
<1> QED BY <1>6, <1>7

\* The blocks of a run are new, different and rise with their places.
LEMMA RunDistinct ==
    ASSUME NEW b \in Blocks, NEW s \in Seq(Blocks), Extends(b, s)
    PROVE  /\ \A i \in 1 .. Len(s) : s[i] \notin Branch[b]
           /\ \A i, j \in 1 .. Len(s) : s[i] = s[j] => i = j
<1>1. ASSUME NEW i \in 1 .. Len(s) PROVE s[i] \notin Branch[b]
  <2>1. Height[s[i]] = Height[b] + i
    BY RunBranches
  <2> QED BY <2>1, BranchBelow, HeightTypes
<1>2. ASSUME NEW i \in 1 .. Len(s), NEW j \in 1 .. Len(s), s[i] = s[j]
      PROVE  i = j
  <2>1. Height[s[i]] = Height[b] + i /\ Height[s[j]] = Height[b] + j
    BY RunBranches
  <2> QED BY <1>2, <2>1, HeightTypes
<1> QED BY <1>1, <1>2

\* The branch that a run ends.
LEMMA RunEnd ==
    ASSUME NEW b \in Blocks, NEW s \in Seq(Blocks), Extends(b, s)
    PROVE  /\ EndOf(b, s) \in Blocks
           /\ Height[EndOf(b, s)] = Height[b] + Len(s)
           /\ Branch[EndOf(b, s)] = Branch[b] \cup SetOf(s)
<1>1. CASE Len(s) = 0
  <2>1. SetOf(s) = {}
    BY <1>1 DEF SetOf
  <2> QED BY <1>1, <2>1, HeightTypes DEF EndOf
<1>2. CASE Len(s) # 0
  <2>1. Len(s) \in 1 .. Len(s)
    BY <1>2
  <2> QED BY <1>2, <2>1, RunBranches DEF EndOf, SetOf
<1> QED BY <1>1, <1>2

\* A run goes on with a child of its end.
LEMMA RunAppend ==
    ASSUME NEW b \in Blocks, NEW s \in Seq(Blocks), Extends(b, s),
           NEW c \in Blocks \ {Root}, Parent[c] = EndOf(b, s)
    PROVE  Extends(b, Append(s, c)) /\ EndOf(b, Append(s, c)) = c
  BY DEF Extends, EndOf

\* A run without its first n blocks continues from the last of these.
LEMMA RunDrop ==
    ASSUME NEW b \in Blocks, NEW s \in Seq(Blocks), Extends(b, s),
           NEW n \in 1 .. Len(s)
    PROVE  /\ Extends(s[n], SubSeq(s, n + 1, Len(s)))
           /\ EndOf(s[n], SubSeq(s, n + 1, Len(s))) = EndOf(b, s)
<1> DEFINE t == SubSeq(s, n + 1, Len(s))
<1>1. /\ t \in Seq(Blocks) /\ Len(t) = Len(s) - n
      /\ \A i \in 1 .. Len(t) : t[i] = s[n + i]
  OBVIOUS
<1> HIDE DEF t
<1>2. Extends(s[n], t)
  <2>1. ASSUME NEW i \in 1 .. Len(t)
        PROVE  /\ t[i] \in Blocks \ {Root}
               /\ Parent[t[i]] = IF i = 1 THEN s[n] ELSE t[i - 1]
    <3>1. n + i \in 1 .. Len(s) /\ n + i # 1
      BY <1>1
    <3>2. s[n + i] \in Blocks \ {Root} /\ Parent[s[n + i]] = s[n + i - 1]
      BY <3>1 DEF Extends
    <3>3. i # 1 => t[i - 1] = s[n + i - 1]
      BY <1>1
    <3> QED BY <1>1, <3>2, <3>3
  <2> QED BY <2>1 DEF Extends
<1>3. EndOf(s[n], t) = EndOf(b, s)
  BY <1>1 DEF EndOf
<1> QED BY <1>2, <1>3 DEF t

\* The first n blocks of a run are a run.
LEMMA RunTake ==
    ASSUME NEW b \in Blocks, NEW s \in Seq(Blocks), Extends(b, s),
           NEW t \in Seq(Blocks), Len(t) <= Len(s),
           \A i \in 1 .. Len(t) : t[i] = s[i]
    PROVE  Extends(b, t)
<1> SUFFICES ASSUME NEW i \in 1 .. Len(t)
             PROVE  /\ t[i] \in Blocks \ {Root}
                    /\ Parent[t[i]] = IF i = 1 THEN b ELSE t[i - 1]
  BY DEF Extends
<1>1. i \in 1 .. Len(s) /\ t[i] = s[i]
  OBVIOUS
<1>2. i # 1 => t[i - 1] = s[i - 1]
  OBVIOUS
<1> QED BY <1>1, <1>2 DEF Extends

-----------------------------------------------------------------------------
(* The two threads *)

\* The two threads run.
Up == pc \notin RecoverySteps

ProducerSteps == {"idle", "reconcile", "reconcile_drain", "reconciling", "range", "reserve",
                  "fetch", "publish", "drain", "syncing", "exiting"}

\* Steps of a publication after the journal has it and before the tip moves.
StoreSteps == {"append", "proof_sync", "put_headers", "header_sync", "append_batch",
               "index_flush", "apply", "forest_sync", "update_height"}
PublishSteps == {"idle", "publish", "prune"} \cup StoreSteps
UndoSteps == {"apply_backward", "backward_sync", "remove_header", "remove_header_sync",
              "remove_index", "truncate", "rollback_height"}
RollbackSteps == {"idle"} \cup UndoSteps

StoreTypes ==
    /\ log \in Seq([block : Blocks, status : {Forward, RolledBack}])
    /\ floor \in 1 .. Len(log) + 1
    /\ tail \in Seq(Blocks)
    /\ forest_tip \in Blocks /\ touched \subseteq Blocks
    /\ headers \in [Heights -> Blocks \cup {NoBlock}]
    /\ headers_disk \in [Heights -> Blocks \cup {NoBlock}]
    /\ proofs \in Seq(Blocks \cup {Garbage})
    /\ proofs_synced \in 0 .. Len(proofs)
    /\ index \in [Blocks -> Nat] /\ index_disk \in [Blocks -> Nat]
    /\ committed \in Heights \cup {0}
    /\ clean \in BOOLEAN /\ needs_replay \in BOOLEAN

ThreadTypes ==
    /\ active \in Blocks
    /\ tip \in Blocks /\ dtip \in Blocks /\ goal \in Heights \cup {0}
    /\ window \in Seq(Blocks) /\ pending \in Seq(Blocks)
    /\ submitted \in Nat /\ completed \in Nat
    /\ command \in [kind : Commands, blocks : Seq(Blocks)]
    /\ indexes \in [Blocks -> Nat]
    /\ reply \in BOOLEAN /\ shutdown \in BOOLEAN
    /\ peer \in Blocks \cup {NoBlock} /\ heights_open \in BOOLEAN
    /\ asked \in [block : Blocks \cup {NoBlock}, place : Nat]
    /\ pc \in ProducerSteps \cup RecoverySteps
    /\ after \in {"range", "bail", "sync", "shutdown"}
    /\ wpc \in PublishSteps \cup RollbackSteps \cup {"failed"}

\* The block that the pending ones continue.
Below == IF Len(pending) = 0 THEN tip ELSE Parent[pending[1]]

\* Without threads nothing is under way.
InvIdle ==
    ~Up =>
        /\ command = NoCommand /\ wpc = "idle" /\ window = << >> /\ pending = << >>
        /\ submitted = 0 /\ completed = 0 /\ reply = FALSE /\ after = "range"
        /\ pc # "down" => tail = << >>
        /\ pc = "recover_height" => tip = dtip

\* The pending blocks are a run up to the producer's tip: the submitted window
\* and then the one being filled.
InvPending ==
    Up =>
        /\ Extends(Below, pending) /\ EndOf(Below, pending) = tip
        /\ Len(pending) = submitted + Len(window)
        /\ \A i \in 1 .. Len(window) : window[i] = pending[submitted + i]
        /\ submitted <= PublicationBlocks
        /\ Len(window) <= PublicationBlocks
        /\ pc \notin {"publish", "exiting"} => Len(window) < PublicationBlocks

\* What the producer's step says about its windows.
InvPhases ==
    /\ pc \in {"idle", "range", "drain", "syncing"} => window = << >>
    /\ pc \in {"idle", "range", "reconciling", "syncing"} => submitted = 0
    /\ pc \in {"reconcile", "reconcile_drain", "reconciling"} =>
          /\ after \in {"range", "bail"}
          /\ after = "range" => window = << >> /\ submitted = 0
    /\ pc \in {"range", "reserve", "fetch"} => after = "range"
    /\ pc = "publish" => after \in {"range", "sync", "shutdown"}
    /\ pc \in {"drain", "syncing"} => after \in {"sync", "shutdown"}

\* The channels: one command, one completion or one reply at a time, each for
\* the step at which the producer expects it.
InvChannel ==
    Up =>
        /\ command.kind = "none" =>
              /\ command = NoCommand /\ wpc = "idle" /\ completed = submitted
        /\ command.kind # "none" => completed = 0 /\ reply = FALSE
        /\ command.kind = "publish" =>
              /\ wpc \in PublishSteps \cup {"failed"}
              /\ submitted # 0 /\ Len(command.blocks) = submitted
              /\ \A i \in 1 .. submitted : command.blocks[i] = pending[i]
        /\ command.kind \notin {"none", "publish"} => submitted = 0
        /\ command.kind = "rollback" =>
              /\ wpc \in RollbackSteps \cup {"failed"}
              /\ command.blocks = <<tip>> /\ window = << >>
        /\ command.kind \in {"discard", "sync", "shutdown"} => wpc \in {"idle", "failed"}
        /\ command.kind \in {"discard", "rollback"} =>
              pc = "reconciling" \/ (wpc = "failed" /\ pc = "exiting")
        /\ command.kind \in {"sync", "shutdown"} =>
              /\ command.kind = after
              /\ pc = "syncing" \/ (wpc = "failed" /\ pc = "exiting")
        /\ reply = TRUE => pc \in {"reconciling", "syncing"}
        /\ pc = "reconciling" => reply = TRUE \/ command.kind \in {"discard", "rollback"}
        /\ pc = "syncing" => reply = TRUE \/ command.kind \in {"sync", "shutdown"}

\* A barrier has been answered that makes the producer start again from the
\* worker's tip.
Restored == reply = TRUE /\ pc = "reconciling"

Working == Up /\ wpc # "failed"

\* The worker's tip and the journal's tail, as the producer's windows imply them.
InvDurable ==
    Working =>
        /\ Restored => tail = << >>
        /\ ~Restored =>
              /\ dtip = IF submitted # 0 /\ (command.kind = "none" \/ wpc = "prune")
                        THEN pending[submitted] ELSE Below
              /\ tail = IF command.kind = "publish" /\ wpc \in {"idle", "publish"}
                        THEN pending ELSE window

Threads == InvIdle /\ InvPending /\ InvPhases /\ InvChannel /\ InvDurable

thread_vars == <<pc, after, tip, window, pending, submitted, command, wpc, dtip, completed,
                 reply, tail>>

-----------------------------------------------------------------------------

\* The protocol's invariant depends on the threads' variables alone.
LEMMA ThreadsFrame ==
    ASSUME Threads, UNCHANGED thread_vars
    PROVE  Threads'
  BY DEF Threads, InvIdle, InvPending, InvPhases, InvChannel, InvDurable, Up, Working,
     Restored, Below, Extends, EndOf, thread_vars

\* A sequence without elements.
LEMMA NoElements ==
    ASSUME NEW s \in Seq(Blocks)
    PROVE  s = << >> <=> Len(s) = 0
  BY EmptySeq

\* A step of the worker that changes neither what is under way nor the tips.
LEMMA WorkerMoves ==
    ASSUME ThreadTypes, Threads,
           UNCHANGED <<pc, after, tip, window, pending, submitted, command, dtip, completed,
                       reply, tail>>,
           command.kind # "none", wpc # "failed",
           \/ command.kind = "publish" /\ wpc = "idle" /\ wpc' = "publish"
           \/ command.kind = "publish" /\ wpc \in StoreSteps /\ wpc' \in StoreSteps
           \/ command.kind = "rollback" /\ wpc' \in RollbackSteps
           \/ wpc' = "failed"
    PROVE  Threads'
<1>1. Up /\ Up'
  BY DEF Threads, InvIdle, Up, NoCommand
<1>2. InvIdle' /\ InvPhases'
  BY <1>1 DEF Threads, InvIdle, InvPhases, Up
<1>3. InvPending'
  BY <1>1 DEF Threads, InvPending, Below, Extends, EndOf
<1>4. InvChannel'
  BY <1>1 DEF Threads, InvChannel, PublishSteps, StoreSteps, RollbackSteps, UndoSteps, Up
<1>5. InvDurable'
  BY <1>1 DEF Threads, InvDurable, InvChannel, Working, Restored, Below, PublishSteps, StoreSteps,
     RollbackSteps, UndoSteps
<1> QED BY <1>2, <1>3, <1>4, <1>5 DEF Threads

USE DEF PublishSteps, StoreSteps, RollbackSteps, UndoSteps

\* The worker's steps that move the tail, the tip or the channels.
LEMMA PublishThreads ==
    ASSUME StoreTypes, ThreadTypes, Threads, publish
    PROVE  Threads'
<1>1. /\ command.kind = "publish" /\ wpc = "publish" /\ wpc' = "append"
      /\ tail' = SubSeq(tail, Len(command.blocks) + 1, Len(tail))
      /\ UNCHANGED <<pc, after, tip, window, pending, submitted, command, dtip, completed, reply>>
  BY DEF publish, Running, worker_step, producer_vars
<1>2. Up /\ Up' /\ Working /\ Working' /\ ~Restored /\ ~Restored'
  BY <1>1 DEF Threads, InvIdle, Up, NoCommand, Working, Restored, InvChannel
<1>3. InvIdle' /\ InvPhases'
  BY <1>1, <1>2 DEF Threads, InvIdle, InvPhases
<1>4. InvPending'
  BY <1>1, <1>2 DEF Threads, InvPending, Below, Extends, EndOf
<1>5. InvChannel'
  BY <1>1, <1>2 DEF Threads, InvChannel
<1>6. tail' = window
  <2>1. /\ tail = pending /\ Len(command.blocks) = submitted
        /\ Len(pending) = submitted + Len(window)
        /\ \A i \in 1 .. Len(window) : window[i] = pending[submitted + i]
    BY <1>1, <1>2 DEF Threads, InvDurable, InvChannel, InvPending
  <2>2. tail' = SubSeq(pending, submitted + 1, Len(pending))
    BY <1>1, <2>1
  <2>3. /\ tail' \in Seq(Blocks) /\ Len(tail') = Len(window)
        /\ \A i \in 1 .. Len(window) : tail'[i] = window[i]
    BY <2>1, <2>2 DEF ThreadTypes
  <2> QED BY <2>3, SeqEqual DEF ThreadTypes
<1>7. InvDurable'
  BY <1>1, <1>2, <1>6 DEF Threads, InvDurable, Below
<1> QED BY <1>3, <1>4, <1>5, <1>7 DEF Threads

\* The durable tip becomes the end of the window.
LEMMA UpdateHeightThreads ==
    ASSUME ThreadTypes, Threads, update_height
    PROVE  Threads'
<1>1. /\ command.kind = "publish" /\ wpc = "update_height" /\ wpc' = "prune"
      /\ dtip' = LastBlock(command.blocks)
      /\ UNCHANGED <<pc, after, tip, window, pending, submitted, command, tail, completed, reply>>
  BY DEF update_height, Running, worker_step, producer_vars, journal_vars
<1>2. Up /\ Up' /\ Working /\ Working' /\ ~Restored /\ ~Restored'
  BY <1>1 DEF Threads, InvIdle, Up, NoCommand, Working, Restored, InvChannel
<1>3. InvIdle' /\ InvPhases'
  BY <1>1, <1>2 DEF Threads, InvIdle, InvPhases
<1>4. InvPending'
  BY <1>1, <1>2 DEF Threads, InvPending, Below, Extends, EndOf
<1>5. InvChannel'
  BY <1>1, <1>2 DEF Threads, InvChannel
<1>6. dtip' = pending[submitted]
  BY <1>1, <1>2 DEF Threads, InvChannel, LastBlock, ThreadTypes
<1>7. InvDurable'
  BY <1>1, <1>2, <1>6 DEF Threads, InvDurable, InvChannel, Below
<1> QED BY <1>3, <1>4, <1>5, <1>7 DEF Threads

\* The completed window leaves the pending blocks.
LEMMA CompleteThreads ==
    ASSUME ThreadTypes, Threads, complete
    PROVE  Threads'
<1>1. /\ command.kind = "publish" /\ wpc = "prune" /\ wpc' = "idle"
      /\ completed' = Len(command.blocks) /\ command' = NoCommand
      /\ UNCHANGED <<pc, after, tip, window, pending, submitted, dtip, tail, reply>>
  BY DEF complete, Running, worker_step, producer_vars, Completion
<1>2. Up /\ Up' /\ Working /\ Working' /\ ~Restored /\ ~Restored'
  BY <1>1 DEF Threads, InvIdle, Up, NoCommand, Working, Restored, InvChannel
<1>3. InvIdle' /\ InvPhases'
  BY <1>1, <1>2 DEF Threads, InvIdle, InvPhases
<1>4. InvPending'
  BY <1>1, <1>2 DEF Threads, InvPending, Below, Extends, EndOf
<1>5. InvChannel'
  BY <1>1, <1>2 DEF Threads, InvChannel, NoCommand, InvPhases
<1>6. InvDurable'
  BY <1>1, <1>2 DEF Threads, InvDurable, InvChannel, Below, NoCommand
<1> QED BY <1>3, <1>4, <1>5, <1>6 DEF Threads

\* A discard leaves no unpublished blocks.
LEMMA DiscardThreads ==
    ASSUME ThreadTypes, Threads, discard_unpublished
    PROVE  Threads'
<1>1. /\ command.kind = "discard" /\ wpc = "idle" /\ wpc' = "idle"
      /\ reply' = TRUE /\ command' = NoCommand /\ tail' = << >>
      /\ UNCHANGED <<pc, after, tip, window, pending, submitted, dtip, completed>>
  BY DEF discard_unpublished, Running, answer, worker_step, producer_vars
<1>2. Up /\ Up' /\ Working /\ Working' /\ Restored'
  BY <1>1 DEF Threads, InvIdle, Up, NoCommand, Working, Restored, InvChannel
<1>3. InvIdle' /\ InvPhases'
  BY <1>1, <1>2 DEF Threads, InvIdle, InvPhases
<1>4. InvPending'
  BY <1>1, <1>2 DEF Threads, InvPending, Below, Extends, EndOf
<1>5. InvChannel'
  BY <1>1, <1>2 DEF Threads, InvChannel, NoCommand, Restored
<1>6. InvDurable'
  BY <1>1, <1>2 DEF Threads, InvDurable
<1> QED BY <1>3, <1>4, <1>5, <1>6 DEF Threads

\* A sync answers with the durable tip.
LEMMA SyncThreads ==
    ASSUME ThreadTypes, Threads, sync_barrier
    PROVE  Threads'
<1>1. /\ command.kind \in {"sync", "shutdown"} /\ wpc = "idle" /\ wpc' = "idle"
      /\ reply' = TRUE /\ command' = NoCommand
      /\ UNCHANGED <<pc, after, tip, window, pending, submitted, dtip, completed, tail>>
  BY DEF sync_barrier, Running, producer_vars, journal_vars
<1>2. Up /\ Up' /\ Working /\ Working' /\ pc = "syncing" /\ ~Restored /\ ~Restored'
  BY <1>1 DEF Threads, InvIdle, Up, NoCommand, Working, Restored, InvChannel
<1>3. InvIdle' /\ InvPhases'
  BY <1>1, <1>2 DEF Threads, InvIdle, InvPhases
<1>4. InvPending'
  BY <1>1, <1>2 DEF Threads, InvPending, Below, Extends, EndOf
<1>5. InvChannel'
  BY <1>1, <1>2 DEF Threads, InvChannel, NoCommand
<1>6. InvDurable'
  BY <1>1, <1>2 DEF Threads, InvDurable, InvChannel, NoCommand, Below
<1> QED BY <1>3, <1>4, <1>5, <1>6 DEF Threads

\* A roll back answers with the parent.
LEMMA RollbackHeightThreads ==
    ASSUME ThreadTypes, Threads, rollback_height
    PROVE  Threads'
<1>1. /\ command.kind = "rollback" /\ wpc = "rollback_height" /\ wpc' = "idle"
      /\ reply' = TRUE /\ command' = NoCommand
      /\ UNCHANGED <<pc, after, tip, window, pending, submitted, completed, tail>>
  BY DEF rollback_height, Running, answer, worker_step, producer_vars, journal_vars
<1>2. Up /\ Up' /\ Working /\ Working' /\ pc = "reconciling" /\ ~Restored /\ Restored'
  BY <1>1 DEF Threads, InvIdle, Up, NoCommand, Working, Restored, InvChannel
<1>3. InvIdle' /\ InvPhases'
  BY <1>1, <1>2 DEF Threads, InvIdle, InvPhases
<1>4. InvPending'
  BY <1>1, <1>2 DEF Threads, InvPending, Below, Extends, EndOf
<1>5. InvChannel'
  BY <1>1, <1>2 DEF Threads, InvChannel, NoCommand
<1>6. InvDurable'
  BY <1>1, <1>2 DEF Threads, InvDurable, InvChannel
<1> QED BY <1>3, <1>4, <1>5, <1>6 DEF Threads

\* Every step of the worker keeps the protocol.
LEMMA WorkerThreads ==
    ASSUME StoreTypes, ThreadTypes, Threads, Worker
    PROVE  Threads'
<1>1. CASE persist \/ append \/ proof_sync \/ put \/ header_sync \/ index_set \/ index_flush
           \/ apply_forward_batch \/ forest_sync
  <2>1. /\ UNCHANGED <<pc, after, tip, window, pending, submitted, command, dtip, completed,
                       reply, tail>>
        /\ command.kind = "publish"
        /\ \/ wpc = "idle" /\ wpc' = "publish"
           \/ wpc \in StoreSteps /\ wpc' \in StoreSteps
    BY <1>1 DEF persist, append, proof_sync, put, header_sync, index_set, index_flush,
       apply_forward_batch, forest_sync, Running, worker_step, producer_vars, store_vars,
       journal_vars
  <2> QED BY <2>1, WorkerMoves
<1>2. CASE mark_rolled_back \/ apply_backward \/ backward_sync \/ remove_header
           \/ remove_header_sync \/ remove_index \/ truncate
  <2>1. /\ UNCHANGED <<pc, after, tip, window, pending, submitted, command, dtip, completed,
                       reply, tail>>
        /\ command.kind = "rollback" /\ wpc # "failed" /\ wpc' \in RollbackSteps
    BY <1>2 DEF mark_rolled_back, apply_backward, backward_sync, remove_header,
       remove_header_sync, remove_index, truncate, Running, worker_step, producer_vars,
       journal_vars
  <2> QED BY <2>1, WorkerMoves
<1>3. CASE reorg_too_deep \/ header_unavailable
  <2>1. /\ UNCHANGED <<pc, after, tip, window, pending, submitted, command, dtip, completed,
                       reply, tail>>
        /\ wpc # "failed" /\ wpc' = "failed"
        /\ command.kind # "none"
    <3>1. CASE reorg_too_deep
      BY <3>1 DEF reorg_too_deep, Running, worker_step, producer_vars, store_vars, journal_vars
    <3>2. CASE header_unavailable
      <4>1. /\ UNCHANGED <<pc, after, tip, window, pending, submitted, command, dtip, completed,
                           reply, tail>>
            /\ wpc' = "failed"
            /\ \/ command.kind \in {"sync", "shutdown"} /\ wpc = "idle"
               \/ wpc \in {"put_headers", "header_sync", "remove_header", "remove_header_sync"}
        BY <3>2 DEF header_unavailable, worker_step, producer_vars, store_vars, journal_vars
      <4>2. command.kind = "none" => wpc = "idle"
        BY DEF Threads, InvIdle, InvChannel
      <4> QED BY <4>1, <4>2
    <3> QED BY <1>3, <3>1, <3>2
  <2> QED BY <2>1, WorkerMoves
<1> QED BY <1>1, <1>2, <1>3, PublishThreads, UpdateHeightThreads, CompleteThreads, DiscardThreads,
           SyncThreads, RollbackHeightThreads DEF Worker

-----------------------------------------------------------------------------
(* The producer *)

\* A completion that has arrived, or none, leaves the overlay as it should be.
LEMMA Retires ==
    ASSUME ThreadTypes, Threads, Up, wpc # "failed", ~Restored, retire_apply,
           UNCHANGED <<tip, window, dtip>>
    PROVE  /\ pending' \in Seq(Blocks) /\ submitted' \in Nat /\ completed' = 0
           /\ Extends(Below', pending') /\ EndOf(Below', pending') = tip
           /\ Len(pending') = submitted' + Len(window)
           /\ \A i \in 1 .. Len(window) : window[i] = pending'[submitted' + i]
           /\ submitted' <= PublicationBlocks
           /\ command.kind = "none" => submitted' = 0 /\ dtip = Below'
           /\ command.kind # "none" =>
                 pending' = pending /\ submitted' = submitted /\ Below' = Below
<1> USE DEF ThreadTypes
<1>0. /\ Extends(Below, pending) /\ EndOf(Below, pending) = tip
      /\ Len(pending) = submitted + Len(window)
      /\ \A i \in 1 .. Len(window) : window[i] = pending[submitted + i]
      /\ submitted <= PublicationBlocks
      /\ completed = 0 \/ (completed = submitted /\ command.kind = "none")
      /\ command.kind = "none" => completed = submitted
      /\ command.kind = "none" =>
            dtip = IF submitted # 0 THEN pending[submitted] ELSE Below
  BY DEF Threads, InvPending, InvChannel, InvDurable, Working
<1>1. /\ pending' = SubSeq(pending, completed + 1, Len(pending))
      /\ submitted' = submitted - completed /\ completed' = 0
  BY DEF retire_apply, retired_pending
<1>2. Below \in Blocks
  <2>1. CASE Len(pending) = 0
    BY <2>1 DEF Below
  <2>2. CASE Len(pending) # 0
    <3>1. 1 \in 1 .. Len(pending)
      BY <2>2
    <3> QED BY <1>0, <2>2, <3>1, ParentFacts DEF Below, Extends
  <2> QED BY <2>1, <2>2
<1>3. CASE completed = 0
  <2>1. pending' = pending
    <3>1. Len(pending') = Len(pending) /\ \A i \in 1 .. Len(pending) : pending'[i] = pending[i]
      BY <1>1, <1>3
    <3>2. pending' \in Seq(Blocks)
      BY <1>1, <1>3
    <3> QED BY <3>1, <3>2, SeqEqual
  <2>2. submitted' = submitted /\ Below' = Below
    BY <1>1, <1>3, <2>1 DEF Below
  <2> QED BY <1>0, <1>1, <1>3, <2>1, <2>2
<1>4. CASE completed # 0
  <2>1. completed = submitted /\ command.kind = "none" /\ submitted \in 1 .. Len(pending)
    BY <1>0, <1>4
  <2>2. /\ Extends(pending[submitted], SubSeq(pending, submitted + 1, Len(pending)))
        /\ EndOf(pending[submitted], SubSeq(pending, submitted + 1, Len(pending))) = tip
    BY <1>0, <1>2, <2>1, RunDrop
  <2>3. /\ pending' = SubSeq(pending, submitted + 1, Len(pending)) /\ submitted' = 0
        /\ pending' \in Seq(Blocks) /\ Len(pending') = Len(window)
        /\ \A i \in 1 .. Len(window) : pending'[i] = pending[submitted + i]
    BY <1>0, <1>1, <2>1, SMTT(30)
  <2>4. Below' = pending[submitted]
    <3>1. CASE Len(pending') = 0
      BY <2>2, <2>3, <3>1 DEF EndOf, Below
    <3>2. CASE Len(pending') # 0
      <4>1. 1 \in 1 .. Len(pending')
        BY <2>3, <3>2
      <4> QED BY <2>2, <2>3, <3>2, <4>1 DEF Extends, Below
    <3> QED BY <3>1, <3>2
  <2>5. ASSUME NEW i \in 1 .. Len(window) PROVE window[i] = pending'[submitted' + i]
    <3>1. submitted' + i = i
      BY <2>3
    <3>2. pending'[i] = pending[submitted + i]
      BY <2>3
    <3>3. window[i] = pending[submitted + i]
      BY <1>0
    <3> QED BY <3>1, <3>2, <3>3
  <2>6. Extends(Below', pending') /\ EndOf(Below', pending') = tip
    BY <2>2, <2>3, <2>4
  <2>7. submitted' = 0 /\ completed' = 0 /\ Len(pending') = submitted' + Len(window)
    <3>1. submitted' = 0 /\ completed' = 0 /\ Len(pending') = Len(window)
      BY <1>1, <2>3
    <3>2. Len(window) \in Nat
      OBVIOUS
    <3> QED BY <3>1, <3>2
  <2>8. dtip = Below'
    BY <1>0, <1>4, <2>1, <2>4
  <2>9. pending' \in Seq(Blocks)
    BY <2>3
  <2> QED BY <2>1, <2>5, <2>6, <2>7, <2>8, <2>9, SizeAssumption
<1> QED BY <1>3, <1>4

\* The producer's steps are not steps of the recovery.
LEMMA StepNames ==
    /\ \A p \in ProducerSteps : p \notin RecoverySteps
    /\ \A p \in RecoverySteps : p \notin ProducerSteps
  BY DEF ProducerSteps, RecoverySteps

\* A step of the producer that only goes from one place to another.
LEMMA ProducerMoves ==
    ASSUME ThreadTypes, Threads,
           UNCHANGED <<tip, window, pending, submitted, command, wpc, dtip, completed, reply,
                       tail>>,
           pc \in ProducerSteps, pc' \in ProducerSteps, InvPhases',
           \/ pc \notin {"publish", "exiting"}
           \/ pc' \in {"publish", "exiting"}
           \/ Len(window) = 0,
           \/ pc \notin {"reconciling", "syncing", "exiting"} /\ pc' \notin {"reconciling", "syncing"}
           \/ wpc = "failed" /\ pc' = "exiting" /\ UNCHANGED after
    PROVE  Threads'
<1>1. Up /\ Up'
  BY StepNames DEF Up
<1>2. InvIdle'
  BY <1>1 DEF InvIdle
<1>3. InvPending'
  BY <1>1, SizeAssumption DEF Threads, InvPending, Below, Extends, EndOf
<1>4. InvChannel'
  BY <1>1 DEF Threads, InvChannel
<1>5. InvDurable'
  BY <1>1 DEF Threads, InvDurable, InvChannel, Working, Restored, Below
<1> QED BY <1>2, <1>3, <1>4, <1>5 DEF Threads

\* A step of the producer that takes a completion, if there is one.
LEMMA RetireMoves ==
    ASSUME ThreadTypes, Threads, retire_apply,
           UNCHANGED <<tip, window, command, wpc, dtip, reply, tail, after>>,
           pc \in ProducerSteps \ {"reconciling", "syncing", "exiting"},
           pc' \in ProducerSteps \ {"reconciling", "syncing"}, InvPhases',
           \/ pc # "publish"
           \/ pc' \in {"publish", "exiting"},
           wpc # "failed"
    PROVE  Threads'
<1>1. Up /\ Up' /\ ~Restored /\ ~Restored'
  BY StepNames DEF Up, Restored
<1>2. /\ pending' \in Seq(Blocks) /\ submitted' \in Nat /\ completed' = 0
      /\ Extends(Below', pending') /\ EndOf(Below', pending') = tip
      /\ Len(pending') = submitted' + Len(window)
      /\ \A i \in 1 .. Len(window) : window[i] = pending'[submitted' + i]
      /\ submitted' <= PublicationBlocks
      /\ command.kind = "none" => submitted' = 0 /\ dtip = Below'
      /\ command.kind # "none" =>
            pending' = pending /\ submitted' = submitted /\ Below' = Below
  BY <1>1, Retires
<1>3. InvIdle'
  BY <1>1 DEF InvIdle
<1>4. InvPending'
  BY <1>1, <1>2 DEF Threads, InvPending
<1>5. InvChannel'
  BY <1>1, <1>2 DEF Threads, InvChannel
<1>6. InvDurable'
  BY <1>1, <1>2 DEF Threads, InvDurable, InvChannel, Working
<1> QED BY <1>3, <1>4, <1>5, <1>6 DEF Threads

\* With nothing submitted, the pending blocks are the window.
LEMMA NothingSubmitted ==
    ASSUME ThreadTypes, Threads, Up, submitted = 0
    PROVE  pending = window
<1>1. Len(pending) = Len(window) /\ \A i \in 1 .. Len(window) : window[i] = pending[i]
  <2>1. /\ Len(pending) = submitted + Len(window)
        /\ \A i \in 1 .. Len(window) : window[i] = pending[submitted + i]
    BY DEF Threads, InvPending
  <2>2. Len(window) \in Nat /\ \A i \in 1 .. Len(window) : submitted + i = i
    BY DEF ThreadTypes
  <2> QED BY <2>1, <2>2
<1> QED BY <1>1, SeqEqual DEF ThreadTypes

\* The producer sends a barrier and waits for it.
LEMMA BarrierThreads ==
    ASSUME ThreadTypes, Threads, reconcile_barrier \/ sync
    PROVE  Threads'
<1>1. /\ wpc # "failed" /\ submitted = 0
      /\ UNCHANGED <<after, tip, window, pending, submitted, wpc, dtip, completed, reply, tail>>
  BY DEF reconcile_barrier, sync, WorkerAlive, store_vars, journal_vars
<1>2. \/ /\ pc = "reconcile_drain" /\ pc' = "reconciling"
         /\ \/ window # << >> /\ command' = [kind |-> "discard", blocks |-> << >>]
            \/ window = << >> /\ command' = [kind |-> "rollback", blocks |-> <<tip>>]
      \/ pc = "drain" /\ pc' = "syncing" /\ command' = [kind |-> after, blocks |-> << >>]
  BY DEF reconcile_barrier, sync, send
<1>3. Up /\ Up' /\ Working /\ Working' /\ ~Restored
  BY <1>1, <1>2 DEF Up, RecoverySteps, Working, Restored
<1>4. command.kind = "none" /\ completed = 0 /\ wpc = "idle" /\ reply = FALSE
  BY <1>1, <1>2, <1>3 DEF Threads, InvChannel, ThreadTypes, Commands
<1>5. pending = window
  BY <1>1, <1>3, NothingSubmitted
<1>6. InvIdle' /\ InvPhases'
  BY <1>1, <1>2, <1>3 DEF Threads, InvIdle, InvPhases
<1>7. InvPending'
  BY <1>1, <1>2, <1>3 DEF Threads, InvPending, Below, Extends, EndOf
<1>8. InvChannel'
  <2>1. command'.kind \in {"discard", "rollback", "sync", "shutdown"}
    BY <1>2 DEF Threads, InvPhases
  <2>2. command'.kind = "rollback" => command'.blocks = <<tip>> /\ window = << >>
    BY <1>2 DEF Threads, InvPhases
  <2>3. /\ command'.kind \in {"discard", "rollback"} => pc' = "reconciling"
        /\ command'.kind \in {"sync", "shutdown"} => pc' = "syncing" /\ command'.kind = after
        /\ pc' = "reconciling" => command'.kind \in {"discard", "rollback"}
        /\ pc' = "syncing" => command'.kind \in {"sync", "shutdown"}
    BY <1>2 DEF Threads, InvPhases
  <2> QED BY <1>1, <1>2, <1>3, <1>4, <2>1, <2>2, <2>3 DEF InvChannel
<1>9. InvDurable'
  <2>1. command'.kind # "publish" /\ command'.kind # "none"
    BY <1>2 DEF Threads, InvPhases
  <2>2. dtip = Below /\ tail = window
    BY <1>1, <1>3, <1>4 DEF Threads, InvDurable
  <2> QED BY <1>1, <1>3, <1>4, <2>1, <2>2 DEF InvDurable, Below, Restored
<1> QED BY <1>6, <1>7, <1>8, <1>9 DEF Threads

\* The producer starts again from the worker's tip.
LEMMA ReconciledThreads ==
    ASSUME ThreadTypes, Threads, reconciled
    PROVE  Threads'
<1>1. /\ pc = "reconciling" /\ pc' = "reconcile" /\ reply = TRUE /\ reply' = FALSE
      /\ window' = << >> /\ pending' = << >> /\ tip' = dtip
      /\ UNCHANGED <<after, submitted, command, wpc, dtip, completed, tail>>
  BY DEF reconciled, RestoredTip, store_vars, journal_vars, ThreadTypes
<1>2. Up /\ Up' /\ Restored /\ ~Restored'
  BY <1>1 DEF Up, RecoverySteps, Restored
<1>3. command.kind = "none" /\ submitted = 0 /\ completed = 0 /\ wpc = "idle"
  BY <1>1, <1>2 DEF Threads, InvChannel, InvPhases
<1>4. tail = << >>
  BY <1>2, <1>3 DEF Threads, InvDurable, Working
<1>5. InvIdle' /\ InvPhases'
  BY <1>1, <1>2, <1>3 DEF Threads, InvIdle, InvPhases
<1>6. InvPending'
  BY <1>1, <1>2, <1>3, SizeAssumption DEF InvPending, Below, Extends, EndOf
<1>7. InvChannel'
  BY <1>1, <1>2, <1>3 DEF Threads, InvChannel
<1>8. InvDurable'
  BY <1>1, <1>2, <1>3, <1>4 DEF InvDurable, Below, Working
<1> QED BY <1>5, <1>6, <1>7, <1>8 DEF Threads

\* The block that prove_block takes from Core.
LEMMA ProvedBlock ==
    ASSUME ThreadTypes, prove_block
    PROVE  \E b \in Blocks \ {Root} :
             /\ b = get_block_hash(Height[tip] + 1) /\ b \in Branch[active]
             /\ Parent[b] = tip /\ Height[b] = Height[tip] + 1
             /\ tail' = Append(tail, b) /\ window' = Append(window, b)
             /\ pending' = Append(pending, b) /\ tip' = b
<1> DEFINE h == Height[tip] + 1
           b == get_block_hash(h)
<1>1. h \in Nat /\ h # 0
  BY HeightTypes DEF ThreadTypes
<1>2. h <= Height[active] /\ active \in Blocks
  BY DEF prove_block, ThreadTypes
<1>3. b \in Branch[active] /\ b \in Blocks /\ Height[b] = h
  <2> HIDE DEF h
  <2> QED BY <1>1, <1>2, BlockHash
<1>4. b # Root
  BY <1>1, <1>3, HeightTypes
<1>5. /\ Parent[b] = tip
      /\ tail' = Append(tail, b) /\ window' = Append(window, b)
      /\ pending' = Append(pending, b) /\ tip' = b
  BY DEF prove_block
<1> HIDE DEF b
<1> QED BY <1>3, <1>4, <1>5 DEF b

\* A proved block extends the producer's tip.
LEMMA ProveBlockThreads ==
    ASSUME StoreTypes, ThreadTypes, Threads, prove_block
    PROVE  Threads'
<1> USE DEF ThreadTypes
<1>1. PICK b \in Blocks \ {Root} :
         /\ Parent[b] = tip
         /\ tail' = Append(tail, b) /\ window' = Append(window, b)
         /\ pending' = Append(pending, b) /\ tip' = b
  BY ProvedBlock
<1>2. /\ pc = "fetch"
      /\ \/ Len(window') = PublicationBlocks /\ pc' = "publish" /\ after' = "range"
         \/ Len(window') # PublicationBlocks /\ pc' = "reserve" /\ after' = after
      /\ UNCHANGED <<submitted, command, wpc, dtip, completed, reply>>
  BY DEF prove_block, worker_vars
<1>3. Up /\ Up' /\ ~Restored /\ ~Restored' /\ after = "range"
  BY <1>2 DEF Up, RecoverySteps, Restored, Threads, InvPhases
<1>4. /\ Extends(Below, pending) /\ EndOf(Below, pending) = tip
      /\ Len(pending) = submitted + Len(window)
      /\ \A i \in 1 .. Len(window) : window[i] = pending[submitted + i]
      /\ submitted <= PublicationBlocks
      /\ Len(window) < PublicationBlocks
  BY <1>2, <1>3 DEF Threads, InvPending
<1>5. Below \in Blocks /\ Below' = Below
  <2>1. CASE Len(pending) = 0
    <3>1. Len(pending') # 0 /\ pending'[1] = b
      BY <1>1, <2>1
    <3> QED BY <1>1, <2>1, <3>1 DEF Below
  <2>2. CASE Len(pending) # 0
    <3>1. Len(pending') # 0 /\ pending'[1] = pending[1] /\ 1 \in 1 .. Len(pending)
      BY <1>1, <2>2
    <3> QED BY <1>4, <2>2, <3>1, ParentFacts DEF Below, Extends
  <2> QED BY <2>1, <2>2
<1>6. Extends(Below, pending') /\ EndOf(Below, pending') = tip'
  BY <1>1, <1>4, <1>5, RunAppend
<1>7. /\ Len(pending') = Len(pending) + 1 /\ Len(window') = Len(window) + 1
      /\ \A i \in 1 .. Len(pending) : pending'[i] = pending[i]
      /\ \A i \in 1 .. Len(window) : window'[i] = window[i]
      /\ pending'[Len(pending) + 1] = b /\ window'[Len(window) + 1] = b
      /\ Len(pending) \in Nat /\ Len(window) \in Nat /\ submitted \in Nat
  BY <1>1
<1> HIDE DEF ThreadTypes
<1>8. InvPending'
  <2>1. Len(pending') = submitted' + Len(window')
    BY <1>2, <1>4, <1>7
  <2>2. ASSUME NEW i \in 1 .. Len(window')
        PROVE  window'[i] = pending'[submitted' + i]
    <3>1. CASE i = Len(window')
      <4>1. submitted + i = Len(pending) + 1 /\ i = Len(window) + 1
        BY <1>4, <1>7, <3>1
      <4> QED BY <1>2, <1>7, <4>1
    <3>2. CASE i # Len(window')
      <4>1. i \in 1 .. Len(window) /\ submitted + i \in 1 .. Len(pending)
        BY <1>4, <1>7, <3>2
      <4>2. window'[i] = window[i] /\ pending'[submitted + i] = pending[submitted + i]
        BY <1>7, <4>1
      <4>3. window[i] = pending[submitted + i] /\ submitted' = submitted
        BY <1>2, <1>4, <4>1
      <4> QED BY <4>2, <4>3
    <3> QED BY <3>1, <3>2
  <2>3. /\ submitted' <= PublicationBlocks /\ Len(window') <= PublicationBlocks
        /\ pc' # "publish" => Len(window') < PublicationBlocks
    BY <1>2, <1>4, <1>7, SizeAssumption
  <2> QED BY <1>3, <1>5, <1>6, <2>1, <2>2, <2>3 DEF InvPending
<1> USE DEF ThreadTypes
<1>9. InvIdle' /\ InvPhases'
  BY <1>2, <1>3 DEF Threads, InvIdle, InvPhases
<1>10. command.kind \in {"none", "publish"}
  BY <1>2, <1>3 DEF Threads, InvChannel, Commands
<1>11. InvChannel'
  <2>1. command.kind = "publish" => \A i \in 1 .. submitted : command.blocks[i] = pending'[i]
    BY <1>3, <1>4, <1>7 DEF Threads, InvChannel
  <2> QED BY <1>2, <1>3, <1>10, <2>1 DEF Threads, InvChannel
<1>12. InvDurable'
  <2>1. ASSUME wpc # "failed"
        PROVE  /\ dtip = IF submitted # 0 /\ (command.kind = "none" \/ wpc = "prune")
                         THEN pending[submitted] ELSE Below
               /\ tail = IF command.kind = "publish" /\ wpc \in {"idle", "publish"}
                         THEN pending ELSE window
    BY <1>3, <2>1 DEF Threads, InvDurable, Working
  <2>2. submitted # 0 => pending'[submitted] = pending[submitted]
    <3> HIDE DEF ThreadTypes
    <3>1. submitted # 0 => submitted \in 1 .. Len(pending)
      BY <1>4, <1>7
    <3> QED BY <1>7, <3>1
  <2> QED BY <1>1, <1>2, <1>3, <1>5, <2>1, <2>2 DEF InvDurable, Working
<1> QED BY <1>8, <1>9, <1>11, <1>12 DEF Threads

\* A window that is submitted starts at the worker's tip.
LEMMA PublishPendingThreads ==
    ASSUME ThreadTypes, Threads, publish_pending
    PROVE  Threads'
<1> USE DEF ThreadTypes
<1>1. /\ pc = "publish" /\ pc' = IF after = "range" THEN "reserve" ELSE "drain"
      /\ UNCHANGED <<after, tip, pending, wpc, dtip, completed, reply, tail>>
  BY DEF publish_pending, store_vars, journal_vars
<1>2. Up /\ Up' /\ ~Restored /\ ~Restored'
  BY <1>1 DEF Up, RecoverySteps, Restored
<1>3. CASE window = << >>
  <2>1. UNCHANGED <<window, submitted, command>>
    BY <1>3 DEF publish_pending
  <2>2. InvPhases'
    BY <1>1, <1>3, <2>1 DEF Threads, InvPhases
  <2>3. pc \in ProducerSteps /\ pc' \in ProducerSteps /\ Len(window) = 0
    BY <1>1, <1>3 DEF ProducerSteps
  <2> QED BY <1>1, <2>1, <2>2, <2>3, ProducerMoves
<1>4. CASE window # << >>
  <2>1. /\ wpc # "failed" /\ submitted = 0
        /\ command' = [kind |-> "publish", blocks |-> window]
        /\ submitted' = Len(window) /\ window' = << >>
    BY <1>4 DEF publish_pending, WorkerAlive, Drained, send
  <2>2. pending = window /\ Len(window) # 0
    BY <1>2, <1>4, <2>1, NothingSubmitted, NoElements
  <2>3. command.kind = "none" /\ completed = 0 /\ wpc = "idle" /\ reply = FALSE
    BY <1>1, <1>2, <2>1 DEF Threads, InvChannel, Commands
  <2>4. InvIdle' /\ InvPhases'
    BY <1>1, <1>2, <2>1 DEF Threads, InvIdle, InvPhases
  <2>5. InvPending'
    BY <1>1, <1>2, <2>1, <2>2, SizeAssumption DEF Threads, InvPending, Below, Extends, EndOf
  <2>6. InvChannel'
    <3>1. command'.kind = "publish" /\ command'.blocks = window
      BY <2>1
    <3>2. pc' \notin {"reconciling", "syncing"}
      BY <1>1
    <3> QED BY <1>1, <1>2, <2>1, <2>2, <2>3, <3>1, <3>2 DEF InvChannel
  <2>7. InvDurable'
    <3>1. dtip = Below /\ tail = window
      BY <1>2, <2>1, <2>3 DEF Threads, InvDurable, Working
    <3>2. command'.kind = "publish" /\ wpc' = "idle"
      BY <1>1, <2>1, <2>3
    <3> QED BY <1>1, <1>2, <2>2, <3>1, <3>2 DEF InvDurable, Below
  <2> QED BY <2>4, <2>5, <2>6, <2>7 DEF Threads
<1> QED BY <1>3, <1>4

\* The tip that the worker reports is the one that the producer expects.
LEMMA VerifyThreads ==
    ASSUME ThreadTypes, Threads, verify_durable_tip
    PROVE  Threads'
<1>1. /\ pc = "syncing" /\ pc' = IF after = "shutdown" THEN "exiting" ELSE "idle"
      /\ reply = TRUE /\ reply' = FALSE
      /\ UNCHANGED <<after, tip, window, pending, submitted, command, wpc, dtip, completed, tail>>
  BY DEF verify_durable_tip, store_vars, journal_vars, ThreadTypes
<1>2. Up /\ Up' /\ ~Restored /\ ~Restored'
  BY <1>1 DEF Up, RecoverySteps, Restored
<1>3. command.kind = "none" /\ submitted = 0 /\ window = << >>
  BY <1>1, <1>2 DEF Threads, InvChannel, InvPhases
<1>4. InvIdle' /\ InvPhases'
  BY <1>1, <1>2, <1>3 DEF InvIdle, InvPhases
<1>5. InvPending'
  BY <1>1, <1>2, <1>3, SizeAssumption DEF Threads, InvPending, Below, Extends, EndOf
<1>6. InvChannel'
  BY <1>1, <1>2, <1>3 DEF Threads, InvChannel
<1>7. InvDurable'
  BY <1>1, <1>2, <1>3 DEF Threads, InvDurable, Below, Working
<1> QED BY <1>4, <1>5, <1>6, <1>7 DEF Threads

\* Nothing is left of the threads of a process that ended.
LEMMA EndThreads ==
    ASSUME process_ends
    PROVE  Threads'
<1>1. /\ pc' = "down" /\ after' = "range" /\ window' = << >> /\ pending' = << >>
      /\ submitted' = 0 /\ command' = NoCommand /\ wpc' = "idle" /\ completed' = 0
      /\ reply' = FALSE
  BY DEF process_ends
<1>2. ~Up' /\ ~Working'
  BY <1>1 DEF Up, RecoverySteps, Working
<1> QED BY <1>1, <1>2 DEF Threads, InvIdle, InvPending, InvPhases, InvChannel, InvDurable

\* Every step of the producer keeps the protocol.
LEMMA ProducerThreads ==
    ASSUME StoreTypes, ThreadTypes, Threads, Producer \/ rpc_error \/ lookup_error
    PROVE  Threads'
<1> USE DEF store_vars, journal_vars, worker_vars, ProducerSteps
<1>1. CASE keep_up
  <2>1. /\ UNCHANGED <<tip, window, pending, submitted, command, wpc, dtip, completed, reply, tail>>
        /\ pc = "idle"
        /\ \/ pc' = "publish" /\ after' = "shutdown"
           \/ pc' = "reconcile" /\ after' = "range"
    BY <1>1 DEF keep_up
  <2>2. InvPhases'
    BY <2>1 DEF Threads, InvPhases
  <2> QED BY <2>1, <2>2, ProducerMoves
<1>2. CASE reconcile_chain \/ lookup_error
  <2>1. /\ pc = "reconcile" /\ retire_apply /\ wpc # "failed"
        /\ \/ pc' = "reconcile_drain"
           \/ pc' = IF after = "bail" THEN "exiting" ELSE "range"
        /\ UNCHANGED <<tip, window, command, wpc, dtip, reply, tail, after>>
    BY <1>2 DEF reconcile_chain, lookup_error, WorkerAlive
  <2>2. Up /\ ~Restored
    BY <2>1 DEF Up, RecoverySteps, Restored
  <2>3. after = "range" => submitted' = 0
    <3>1. after = "range" => submitted = 0 /\ completed = 0
      BY <2>1, <2>2 DEF Threads, InvPhases, InvChannel
    <3>2. submitted' = submitted - completed
      BY <2>1 DEF retire_apply
    <3> QED BY <3>1, <3>2
  <2>4. InvPhases'
    BY <2>1, <2>3 DEF Threads, InvPhases
  <2> QED BY <2>1, <2>4, RetireMoves
<1>3. CASE wait_for_apply
  <2>1. /\ pc \in {"reconcile_drain", "publish", "drain"} /\ retire_apply /\ wpc # "failed"
        /\ completed # 0
        /\ UNCHANGED <<pc, tip, window, command, wpc, dtip, reply, tail, after>>
    BY <1>3 DEF wait_for_apply, WorkerAlive
  <2>2. Up
    BY <2>1 DEF Up, RecoverySteps
  <2>3. submitted = 0 => completed = 0
    BY <2>1, <2>2 DEF Threads, InvChannel
  <2>4. InvPhases'
    BY <2>1, <2>3 DEF Threads, InvPhases
  <2> QED BY <2>1, <2>4, RetireMoves
<1>4. CASE sync_to_tip \/ stop_range \/ reorg_in_range \/ rpc_error
  <2>1. /\ UNCHANGED <<tip, window, pending, submitted, command, wpc, dtip, completed, reply, tail>>
        /\ \/ pc = "range" /\ pc' \in {"idle", "reserve"} /\ after' = after
           \/ pc = "fetch" /\ pc' = "publish" /\ after' = "sync"
           \/ pc = "fetch" /\ pc' = "reconcile" /\ after' = "bail"
           \/ pc \in {"reconcile", "range", "fetch"} /\ pc' = "exiting" /\ after' = after
    BY <1>4 DEF sync_to_tip, stop_range, reorg_in_range, rpc_error
  <2>2. InvPhases'
    BY <2>1 DEF Threads, InvPhases
  <2> QED BY <2>1, <2>2, ProducerMoves
<1>5. CASE reserve_persistence
  <2>1. CASE Height[tip] >= goal
    <3>1. /\ UNCHANGED <<tip, window, pending, submitted, command, wpc, dtip, completed, reply,
                         tail>>
          /\ pc = "reserve" /\ pc' = "publish" /\ after' = "sync"
      BY <1>5, <2>1 DEF reserve_persistence
    <3>2. InvPhases'
      BY <3>1 DEF Threads, InvPhases
    <3> QED BY <3>1, <3>2, ProducerMoves
  <2>2. CASE ~(Height[tip] >= goal)
    <3>1. /\ pc = "reserve" /\ retire_apply /\ wpc # "failed" /\ pc' = "fetch"
          /\ UNCHANGED <<tip, window, command, wpc, dtip, reply, tail, after>>
      BY <1>5, <2>2 DEF reserve_persistence, WorkerAlive
    <3>2. InvPhases'
      BY <3>1 DEF Threads, InvPhases
    <3> QED BY <3>1, <3>2, RetireMoves
  <2> QED BY <2>1, <2>2
<1>6. CASE worker_failed
  <2>1. /\ UNCHANGED <<tip, window, pending, submitted, command, wpc, dtip, completed, reply, tail,
                       after>>
        /\ wpc = "failed" /\ pc' = "exiting" /\ pc \in ProducerSteps
    BY <1>6 DEF worker_failed
  <2>2. InvPhases'
    BY <2>1 DEF InvPhases
  <2> QED BY <2>1, <2>2, ProducerMoves
<1>7. CASE exit
  BY <1>7, EndThreads DEF exit
<1> QED BY <1>1, <1>2, <1>3, <1>4, <1>5, <1>6, <1>7, BarrierThreads, ReconciledThreads,
           ProveBlockThreads, PublishPendingThreads, VerifyThreads DEF Producer

-----------------------------------------------------------------------------
(* Recovery and the environment *)

\* Recovery starts both threads at the same tip.
LEMMA RecoveryThreads ==
    ASSUME ThreadTypes, Threads, Recovery
    PROVE  Threads'
<1>1. /\ UNCHANGED <<after, window, pending, submitted, command, wpc, completed, reply>>
      /\ pc \in RecoverySteps
      /\ pc = "down" => tail' = << >>
      /\ pc # "down" => UNCHANGED tail
      /\ pc' # "down"
      /\ pc = "recover_tip" => tip' = dtip'
      /\ pc # "recover_tip" => pc' # "recover_height"
      /\ pc = "recover_height" => pc' = "idle" /\ UNCHANGED <<tip, dtip>>
      /\ pc # "recover_height" => pc' \in RecoverySteps
  BY DEF Recovery, open, repair, repair_sync, repair_index, check_gaps, replay_journal,
     replay_sync, cleanup, cleanup_sync, recover_tip, recover_height, recovery_step,
     RecoverySteps, journal_vars
<1>2. ~Up
  BY <1>1 DEF Up
<1>3. /\ command = NoCommand /\ wpc = "idle" /\ window = << >> /\ pending = << >>
      /\ submitted = 0 /\ completed = 0 /\ reply = FALSE /\ after = "range"
      /\ pc # "down" => tail = << >>
      /\ pc = "recover_height" => tip = dtip
  BY <1>2 DEF Threads, InvIdle
<1>4. CASE pc = "recover_height"
  <2>1. Up' /\ Working' /\ ~Restored'
    BY <1>1, <1>3, <1>4 DEF Up, RecoverySteps, Working, Restored
  <2>2. InvIdle' /\ InvPhases'
    BY <1>1, <1>3, <1>4, <2>1 DEF InvIdle, InvPhases
  <2>3. InvPending'
    BY <1>1, <1>3, <1>4, <2>1, SizeAssumption DEF InvPending, Below, Extends, EndOf
  <2>4. InvChannel'
    BY <1>1, <1>3, <1>4, <2>1 DEF InvChannel, NoCommand
  <2>5. InvDurable'
    BY <1>1, <1>3, <1>4, <2>1 DEF InvDurable, Below, NoCommand
  <2> QED BY <2>2, <2>3, <2>4, <2>5 DEF Threads
<1>5. CASE pc # "recover_height"
  <2>1. ~Up' /\ ~Working'
    BY <1>1, <1>5 DEF Up, Working
  <2>2. InvIdle'
    BY <1>1, <1>3, <1>5 DEF InvIdle
  <2>3. InvPhases'
    BY <1>1, <1>5 DEF InvPhases, RecoverySteps
  <2> QED BY <2>1, <2>2, <2>3 DEF Threads, InvPending, InvChannel, InvDurable
<1> QED BY <1>4, <1>5

\* Stops end both threads; nothing else outside touches them.
LEMMA EnvironmentThreads ==
    ASSUME ThreadTypes, Threads, StoreTypes, Environment
    PROVE  Threads'
<1> USE DEF store_vars, journal_vars, worker_vars, producer_vars
<1>1. CASE \/ \E t \in Blocks : reorganize(t)
           \/ set_shutdown
           \/ \E b \in Blocks : lose(b) \/ peer_fetch(b) \/ get_index(b)
           \/ peer_put \/ grow_heights \/ get_proof
  <2>1. UNCHANGED thread_vars
    BY <1>1 DEF reorganize, set_shutdown, lose, peer_fetch, get_index, peer_put, grow_heights,
       get_proof, thread_vars
  <2> QED BY <2>1, ThreadsFrame
<1>2. CASE worker_fail
  <2>1. /\ UNCHANGED <<pc, after, tip, window, pending, submitted, command, dtip, completed,
                       reply, tail>>
        /\ wpc # "failed" /\ wpc' = "failed" /\ command # NoCommand
    BY <1>2 DEF worker_fail
  <2>2. command.kind # "none"
    BY <2>1 DEF Threads, InvIdle, InvChannel, NoCommand
  <2> QED BY <2>1, <2>2, WorkerMoves
<1>3. CASE kill \/ power_loss
  BY <1>3, EndThreads DEF kill, power_loss
<1> QED BY <1>1, <1>2, <1>3, ProducerThreads DEF Environment

\* Every step keeps the protocol's invariant.
LEMMA NextThreads ==
    ASSUME ThreadTypes, StoreTypes, Threads, [Next]_vars
    PROVE  Threads'
<1>1. CASE UNCHANGED vars
  <2>1. UNCHANGED thread_vars
    BY <1>1 DEF vars, thread_vars, store_vars, journal_vars, producer_vars, worker_vars
  <2> QED BY <2>1, ThreadsFrame
<1> QED BY <1>1, ProducerThreads, WorkerThreads, RecoveryThreads, EnvironmentThreads DEF Next

\* The protocol's invariant holds initially.
LEMMA InitThreads ==
    ASSUME Init
    PROVE  Threads
<1>1. ~Up /\ ~Working
  BY DEF Init, Up, Working, RecoverySteps
<1> QED BY <1>1 DEF Init, Threads, InvIdle, InvPending, InvPhases, InvChannel, InvDurable

-----------------------------------------------------------------------------
(* The journal *)

Records == [block : Blocks, status : {Forward, RolledBack}]

LogTypes == log \in Seq(Records) /\ floor \in 1 .. Len(log) + 1

\* The blocks of the forward records up to record i.
UpTo(i) == {log[j].block : j \in {k \in ForwardRecords : k <= i}}

\* The retained forward records are a chain that continues the base: each
\* record's branch is the base's and the forward records up to it.
InvLog ==
    /\ floor <= Len(log) \/ (log = << >> /\ floor = 1)
    /\ \A i \in Retained : log[i].block # Root
    /\ \A i \in ForwardRecords :
          /\ log[i].block \notin Branch[Base]
          /\ Branch[log[i].block] = Branch[Base] \cup UpTo(i)
    /\ \A i, j \in ForwardRecords : i < j => Height[log[i].block] < Height[log[j].block]

\* The tip that recovery takes from the journal, without asking Core.
JTip == IF ForwardRecords # {} THEN log[latest_forward].block
        ELSE IF Retained # {} THEN Base ELSE Root

\* Retained records are records.
LEMMA RetainedFacts ==
    ASSUME LogTypes
    PROVE  /\ Len(log) \in Nat /\ floor \in Nat \ {0}
           /\ Retained \subseteq 1 .. Len(log) /\ ForwardRecords \subseteq Retained
           /\ \A i \in Retained : /\ i \in 1 .. Len(log) /\ i >= floor
                                  /\ log[i] \in Records /\ log[i].block \in Blocks
           /\ RetainedBlocks \subseteq Blocks /\ ForwardBlocks \subseteq RetainedBlocks
           /\ \A i \in ForwardRecords : log[i].block \in Blocks /\ i \in Nat
           /\ Retained # {} <=> floor <= Len(log)
           /\ floor <= Len(log) => floor \in Retained
<1>1. /\ Len(log) \in Nat /\ floor \in Nat \ {0}
      /\ \A i \in 1 .. Len(log) : log[i] \in Records
  BY DEF LogTypes
<1>2. /\ Retained \subseteq 1 .. Len(log) /\ ForwardRecords \subseteq Retained
      /\ \A i \in Retained : i \in 1 .. Len(log) /\ i >= floor
      /\ Retained # {} <=> floor <= Len(log)
      /\ floor <= Len(log) => floor \in Retained
  BY <1>1 DEF Retained, ForwardRecords
<1>3. \A i \in Retained : log[i] \in Records /\ log[i].block \in Blocks
  BY <1>1, <1>2 DEF Records
<1>4. RetainedBlocks \subseteq Blocks /\ ForwardBlocks \subseteq RetainedBlocks
  BY <1>2, <1>3 DEF RetainedBlocks, ForwardBlocks
<1>5. \A i \in ForwardRecords : log[i].block \in Blocks /\ i \in Nat
  BY <1>1, <1>2, <1>3
<1> QED BY <1>1, <1>2, <1>3, <1>4, <1>5

\* There is a latest forward record if there is any.
LEMMA LatestForward ==
    ASSUME LogTypes, ForwardRecords # {}
    PROVE  /\ latest_forward \in ForwardRecords
           /\ \A j \in ForwardRecords : j <= latest_forward
           /\ \A i \in ForwardRecords : (\A j \in ForwardRecords : j <= i) => i = latest_forward
<1>1. ForwardRecords \in SUBSET (0 .. Len(log)) /\ Len(log) \in Nat
  BY RetainedFacts
<1>2. \E i \in ForwardRecords : \A j \in ForwardRecords : j <= i
  <2> HIDE DEF ForwardRecords
  <2> QED BY <1>1, GreatestNumber
<1>3. /\ latest_forward \in ForwardRecords
      /\ \A j \in ForwardRecords : j <= latest_forward
  BY <1>2 DEF latest_forward
<1>4. ASSUME NEW i \in ForwardRecords, \A j \in ForwardRecords : j <= i
      PROVE  i = latest_forward
  <2>1. i <= latest_forward /\ latest_forward <= i /\ i \in Nat /\ latest_forward \in Nat
    BY <1>1, <1>3, <1>4
  <2> QED BY <2>1
<1> QED BY <1>3, <1>4

\* The greatest of the forward records after a step is the latest.
LEMMA LatestForwardNext ==
    ASSUME NEW i \in ForwardRecords', \A j \in ForwardRecords' : j <= i, LogTypes'
    PROVE  latest_forward' = i
<1>1. \A j \in ForwardRecords' : j \in Nat
  BY DEF LogTypes, ForwardRecords, Retained
<1>2. \A k \in ForwardRecords' : (\A j \in ForwardRecords' : j <= k) => k = i
  BY <1>1
<1> QED BY <1>2 DEF latest_forward

\* The branch of the journal's tip is the base's and the forward blocks.
TipOK ==
    /\ JTip \in Blocks
    /\ Retained = {} => JTip = Root /\ ForwardRecords = {} /\ ForwardBlocks = {}
    /\ Retained # {} =>
         /\ Base \in Blocks
         /\ Branch[JTip] = Branch[Base] \cup ForwardBlocks
         /\ Height[Base] <= Height[JTip]
         /\ Base \in Branch[JTip]
    /\ ForwardRecords # {} => JTip # Root /\ JTip = log[latest_forward].block
    /\ ForwardRecords = {} => ForwardBlocks = {}

\* The journal's tip is a block of the tree.
LEMMA TipFacts ==
    ASSUME LogTypes, InvLog
    PROVE  TipOK
<1> USE DEF TipOK
<1>1. ForwardRecords = {} => ForwardBlocks = {}
  BY DEF ForwardBlocks
<1>2. Retained = {} => ForwardRecords = {}
  BY DEF ForwardRecords
<1>3. Retained # {} => Base \in Blocks
  BY RetainedFacts, ParentFacts DEF InvLog, Base
<1>4. CASE ForwardRecords = {}
  <2>1. JTip = IF Retained # {} THEN Base ELSE Root
    BY <1>4 DEF JTip
  <2> QED BY <1>1, <1>2, <1>3, <1>4, <2>1, TreeAssumption, BranchEnds, HeightTypes
<1>5. CASE ForwardRecords # {}
  <2>1. JTip = log[latest_forward].block /\ Retained # {}
    BY <1>2, <1>5 DEF JTip
  <2>2. latest_forward \in ForwardRecords /\ \A j \in ForwardRecords : j <= latest_forward
    BY <1>5, LatestForward
  <2>3. JTip \in Blocks /\ JTip # Root
    BY <2>1, <2>2, RetainedFacts DEF InvLog
  <2>4. Branch[JTip] = Branch[Base] \cup UpTo(latest_forward)
    BY <2>1, <2>2 DEF InvLog
  <2>5. UpTo(latest_forward) = ForwardBlocks
    BY <2>2 DEF UpTo, ForwardBlocks
  <2>6. Base \in Branch[JTip]
    BY <1>3, <2>1, <2>4, BranchEnds
  <2>7. Height[Base] <= Height[JTip]
    BY <2>3, <2>6, BranchBelow
  <2> QED BY <1>2, <1>3, <1>5, <2>1, <2>3, <2>4, <2>5, <2>6, <2>7
<1> QED BY <1>4, <1>5

\* The same after a step.
LEMMA TipFactsNext ==
    ASSUME LogTypes', InvLog'
    PROVE  TipOK'
<1>1. LogTypes' /\ InvLog' => TipOK'
  BY TipFacts, PTL
<1> QED BY <1>1

USE DEF TipOK

\* Without records nothing is committed, so that Core is only asked for the root.
LEMMA TipIsJournalTip ==
    ASSUME LogTypes, InvLog, active \in Blocks, log = << >> => committed = 0
    PROVE  JournalTip = JTip
<1>1. Retained = {} => log = << >>
  BY RetainedFacts DEF InvLog
<1> QED BY <1>1, RootHash DEF JournalTip, JTip

\* The log after a publication, record by record.
LEMMA PublishedRecords ==
    ASSUME LogTypes, NEW s \in Seq(Blocks),
           log' = log \o [i \in 1 .. Len(s) |-> ForwardRecord(s[i])]
    PROVE  /\ log' \in Seq(Records) /\ Len(log') = Len(log) + Len(s)
           /\ \A i \in 1 .. Len(log) : log'[i] = log[i]
           /\ \A i \in 1 .. Len(s) : log'[Len(log) + i] = ForwardRecord(s[i])
<1> DEFINE m == Len(log)
           n == Len(s)
           t == [i \in 1 .. n |-> ForwardRecord(s[i])]
<1>1. \A i \in 1 .. n : ForwardRecord(s[i]) \in Records
  BY DEF ForwardRecord, Records
<1>2. t \in Seq(Records) /\ Len(t) = n /\ \A i \in 1 .. n : t[i] = ForwardRecord(s[i])
  BY <1>1
<1>3. log' = log \o t /\ log \in Seq(Records) /\ m \in Nat /\ n \in Nat
  BY DEF LogTypes
<1> HIDE DEF t
<1>4. log' \in Seq(Records) /\ Len(log') = m + n
  BY <1>2, <1>3
<1>5. \A i \in 1 .. m : log'[i] = log[i]
  BY <1>2, <1>3
<1>6. ASSUME NEW i \in 1 .. n PROVE log'[m + i] = ForwardRecord(s[i])
  <2>1. m + i \in 1 .. m + n /\ m + i > m /\ m + i - m = i
    BY <1>3
  <2>2. (log \o t)[m + i] = t[m + i - m]
    BY <1>2, <1>3, <2>1
  <2> QED BY <1>2, <1>3, <2>1, <2>2
<1> QED BY <1>4, <1>5, <1>6

\* The published blocks continue the journal's chain.
LEMMA Publication ==
    ASSUME LogTypes, InvLog, NEW s \in Seq(Blocks), Len(s) # 0, Extends(JTip, s),
           floor' = floor
    PROVE  (log' = log \o [i \in 1 .. Len(s) |-> ForwardRecord(s[i])]) =>
           /\ LogTypes' /\ InvLog'
           /\ JTip' = s[Len(s)]
           /\ RetainedBlocks' = RetainedBlocks \cup SetOf(s)
           /\ ForwardBlocks' = ForwardBlocks \cup SetOf(s)
           /\ Retained' # {}
           /\ Retained # {} => Base' = Base
           /\ Retained = {} => Base' = Root
           /\ {log[i].block : i \in Retained \ ForwardRecords}' =
                 {log[i].block : i \in Retained \ ForwardRecords}
<1> DEFINE m == Len(log)
           n == Len(s)
<1>0. HAVE log' = log \o [i \in 1 .. Len(s) |-> ForwardRecord(s[i])]
<1>1. m \in Nat /\ n \in Nat \ {0} /\ floor \in 1 .. m + 1
  BY DEF LogTypes
<1>2. \A i \in 1 .. n : ForwardRecord(s[i]).block = s[i] /\ ForwardRecord(s[i]).status = Forward
  BY DEF ForwardRecord
<1>4. /\ log' \in Seq(Records) /\ Len(log') = m + n
      /\ \A i \in 1 .. m : log'[i] = log[i]
      /\ \A i \in 1 .. n : log'[m + i] = ForwardRecord(s[i])
  BY <1>0, PublishedRecords
<1>5. LogTypes'
  BY <1>1, <1>4 DEF LogTypes
<1> HIDE DEF m, n
<1>6. Retained = floor .. m /\ Retained' = floor .. m + n
  BY <1>4 DEF Retained, m
<1> DEFINE New == m + 1 .. m + n
<1>7. /\ Retained' = Retained \cup New
      /\ \A i \in Retained : i \in 1 .. m /\ log'[i] = log[i]
      /\ \A i \in New : i \in Nat /\ i > m
      /\ m + n \in New
  <2>1. /\ Retained' = Retained \cup New
        /\ \A i \in Retained : i \in 1 .. m
        /\ \A i \in New : i \in Nat /\ i > m
        /\ m + n \in New
    BY <1>1, <1>6
  <2> QED BY <1>4, <2>1 DEF m
<1>8. /\ \A i \in New : /\ i - m \in 1 .. n
                       /\ log'[i].block = s[i - m] /\ log'[i].status = Forward
      /\ \A k \in 1 .. n : m + k \in New /\ log'[m + k].block = s[k]
  <2>1. \A k \in 1 .. n : log'[m + k].block = s[k] /\ log'[m + k].status = Forward
    BY <1>2, <1>4 DEF n
  <2>2. \A i \in New : i - m \in 1 .. n /\ m + (i - m) = i
    BY <1>1
  <2>3. \A k \in 1 .. n : m + k \in New
    BY <1>1
  <2> QED BY <2>1, <2>2, <2>3
<1> HIDE DEF New
<1>9. ForwardRecords' = ForwardRecords \cup New
  <2>1. \A i \in Retained' : i \in ForwardRecords' <=> log'[i].status = Forward
    BY DEF ForwardRecords
  <2>2. \A i \in Retained : i \in ForwardRecords <=> log[i].status = Forward
    BY DEF ForwardRecords
  <2>3. ForwardRecords' \subseteq Retained' /\ ForwardRecords \subseteq Retained
    BY DEF ForwardRecords
  <2> QED BY <1>7, <1>8, <2>1, <2>2, <2>3
<1>10. \A i \in ForwardRecords : i \in 1 .. m /\ log'[i] = log[i] /\ log[i].block \in Blocks
  BY <1>7, RetainedFacts
<1>11. SetOf(s) = {log'[i].block : i \in New}
  <2>1. SetOf(s) = {s[k] : k \in 1 .. n}
    BY DEF SetOf, n
  <2> QED BY <1>8, <2>1
<1>12. ForwardBlocks' = ForwardBlocks \cup SetOf(s)
  BY <1>9, <1>10, <1>11 DEF ForwardBlocks
<1>13. RetainedBlocks' = RetainedBlocks \cup SetOf(s)
  BY <1>7, <1>11 DEF RetainedBlocks
<1>14. Retained' # {}
  BY <1>7
<1>15. Retained # {} => Base' = Base
  BY <1>7, RetainedFacts DEF Base
<1>16. Retained = {} => Base' = Root
  <2>1. ASSUME Retained = {} PROVE Base' = Root
    <3>1. floor = 1 /\ m = 0 /\ JTip = Root
      BY <1>1, <1>6, <2>1, TipFacts, RetainedFacts DEF InvLog, m
    <3>2. 1 \in 1 .. n
      BY <1>1
    <3>3. m + 1 = 1
      BY <3>1
    <3>4. log'[1].block = s[1]
      BY <1>8, <3>2, <3>3
    <3>5. Parent[s[1]] = JTip
      BY <3>2 DEF Extends, n
    <3> QED BY <3>1, <3>4, <3>5 DEF Base
  <2> QED BY <2>1
<1>17. Branch[JTip] = Branch[Base'] \cup ForwardBlocks /\ JTip \in Blocks
  <2>1. CASE Retained = {}
    BY <1>16, <2>1, TipFacts, TreeAssumption
  <2>2. CASE Retained # {}
    BY <1>15, <2>2, TipFacts
  <2> QED BY <2>1, <2>2
<1>18. ASSUME NEW k \in 1 .. n
       PROVE  /\ Branch[s[k]] = Branch[JTip] \cup {s[j] : j \in 1 .. k}
              /\ Height[s[k]] = Height[JTip] + k
              /\ s[k] \notin Branch[JTip] /\ s[k] # Root
  <2>1. k \in 1 .. Len(s)
    BY DEF n
  <2>2. s[k] # Root
    BY <2>1 DEF Extends
  <2> QED BY <1>17, <2>1, <2>2, RunBranches, RunDistinct, SMTT(30)
<1>19. ASSUME NEW i \in ForwardRecords'
       PROVE  /\ log'[i].block \notin Branch[Base']
              /\ Branch[log'[i].block] = Branch[Base'] \cup UpTo(i)'
  <2>1. CASE i \in ForwardRecords
    <3>1. Retained # {} /\ Base' = Base
      BY <1>15, <2>1, RetainedFacts
    <3>2. \A k \in New : ~(k <= i)
      BY <1>1, <1>7, <1>10, <2>1
    <3>3. {k \in ForwardRecords' : k <= i} = {k \in ForwardRecords : k <= i}
      BY <1>9, <3>2
    <3>4. UpTo(i)' = UpTo(i)
      BY <1>10, <3>3 DEF UpTo
    <3> QED BY <1>10, <2>1, <3>1, <3>4 DEF InvLog
  <2>2. CASE i \in New
    <3> DEFINE k == i - m
    <3>1. k \in 1 .. n /\ log'[i].block = s[k]
      BY <1>8, <2>2
    <3>2. \A j \in ForwardRecords : j <= i
      BY <1>1, <1>7, <1>10, <2>2
    <3>3. UpTo(i)' = ForwardBlocks \cup {log'[j].block : j \in {l \in New : l <= i}}
      BY <1>9, <1>10, <3>2 DEF UpTo, ForwardBlocks
    <3>4. {log'[j].block : j \in {l \in New : l <= i}} = {s[j] : j \in 1 .. k}
      <4>1. \A l \in New : l <= i => l - m \in 1 .. k /\ log'[l].block = s[l - m]
        BY <1>1, <1>7, <1>8, <2>2
      <4>2. ASSUME NEW j \in 1 .. k
            PROVE  m + j \in New /\ m + j <= i /\ log'[m + j].block = s[j]
        <5>1. j \in 1 .. n /\ i \in Nat
          BY <1>1, <1>7, <2>2, <3>1
        <5>2. m + j <= i
          BY <1>1, <5>1
        <5> QED BY <1>8, <5>1, <5>2
      <4> HIDE DEF k
      <4> QED BY <4>1, <4>2
    <3> HIDE DEF k
    <3>5. Branch[s[k]] = Branch[Base'] \cup UpTo(i)'
      BY <1>17, <1>18, <3>1, <3>3, <3>4
    <3>6. s[k] \notin Branch[Base']
      BY <1>17, <1>18, <3>1
    <3> QED BY <3>1, <3>5, <3>6
  <2> QED BY <1>9, <2>1, <2>2
<1>20. ASSUME NEW i \in ForwardRecords', NEW j \in ForwardRecords', i < j
       PROVE  Height[log'[i].block] < Height[log'[j].block]
  <2>0. Height[JTip] \in Nat
    BY <1>17, HeightTypes
  <2>1. CASE i \in ForwardRecords /\ j \in ForwardRecords
    BY <1>10, <1>20, <2>1 DEF InvLog
  <2>2. CASE i \in ForwardRecords /\ j \in New
    <3>1. log'[i].block \in Branch[JTip]
      BY <1>10, <1>17, <2>2 DEF ForwardBlocks
    <3>2. Height[log'[i].block] <= Height[JTip] /\ log'[i].block \in Blocks
      BY <1>17, <3>1, BranchBelow
    <3>3. Height[log'[j].block] = Height[JTip] + (j - m) /\ j - m \in 1 .. n
      BY <1>8, <1>18, <2>2
    <3>4. Height[log'[i].block] \in Nat
      BY <3>2, HeightTypes
    <3> QED BY <2>0, <3>2, <3>3, <3>4
  <2>3. CASE i \in New /\ j \in New
    <3>1. /\ Height[log'[i].block] = Height[JTip] + (i - m)
          /\ Height[log'[j].block] = Height[JTip] + (j - m)
      BY <1>8, <1>18, <2>3
    <3>2. i \in Nat /\ j \in Nat
      BY <1>7, <2>3
    <3> QED BY <1>1, <1>20, <2>0, <3>1, <3>2
  <2>4. CASE i \in New /\ j \in ForwardRecords
    <3>1. i \in Nat /\ i > m /\ j \in 1 .. m
      BY <1>7, <1>10, <2>4
    <3> QED BY <1>1, <1>20, <3>1
  <2> QED BY <1>9, <2>1, <2>2, <2>3, <2>4
<1>21. ASSUME NEW i \in Retained' PROVE log'[i].block # Root
  <2>1. CASE i \in Retained
    BY <1>7, <2>1 DEF InvLog
  <2>2. CASE i \in New
    BY <1>8, <1>18, <2>2
  <2> QED BY <1>7, <2>1, <2>2
<1>22. floor' <= Len(log')
  BY <1>1, <1>4 DEF m, n
<1>23. InvLog'
  BY <1>19, <1>20, <1>21, <1>22 DEF InvLog
<1>24. JTip' = s[n]
  <2>1. m + n \in ForwardRecords'
    BY <1>7, <1>9
  <2>2. ASSUME NEW j \in ForwardRecords' PROVE j <= m + n
    <3>1. j \in 1 .. m \/ j \in New
      BY <1>9, <1>10
    <3> QED BY <1>1, <3>1 DEF New
  <2>3. latest_forward' = m + n /\ ForwardRecords' # {}
    BY <1>5, <2>1, <2>2, LatestForwardNext
  <2>4. n \in 1 .. n
    BY <1>1
  <2> QED BY <1>8, <2>3, <2>4 DEF JTip
<1>25. {log[i].block : i \in Retained \ ForwardRecords}' =
          {log[i].block : i \in Retained \ ForwardRecords}
  <2>1. \A i \in Retained : i \notin New
    <3>1. \A i \in Retained : ~(i > m)
      BY <1>1, <1>7
    <3> QED BY <1>7, <3>1
  <2>2. Retained' \ ForwardRecords' = Retained \ ForwardRecords
    BY <1>7, <1>9, <2>1
  <2> QED BY <1>7, <2>2
<1> QED BY <1>5, <1>12, <1>13, <1>14, <1>15, <1>16, <1>23, <1>24, <1>25 DEF n

\* Rolling the latest forward record back makes its parent the journal's tip.
LEMMA RollingBack ==
    ASSUME LogTypes, InvLog, ForwardRecords # {}, floor' = floor,
           log' = [log EXCEPT ![latest_forward].status = RolledBack]
    PROVE  /\ LogTypes' /\ InvLog'
           /\ JTip' = Parent[JTip]
           /\ Retained' = Retained /\ Base' = Base
           /\ RetainedBlocks' = RetainedBlocks
           /\ ForwardBlocks' = ForwardBlocks \ {JTip}
           /\ {log[i].block : i \in Retained \ ForwardRecords}' =
                 {log[i].block : i \in Retained \ ForwardRecords} \cup {JTip}
<1> DEFINE l == latest_forward
<1>1. l \in ForwardRecords /\ \A j \in ForwardRecords : j <= l
  BY LatestForward
<1>2. l \in 1 .. Len(log) /\ l \in Retained /\ log[l] \in Records
  BY <1>1, RetainedFacts
<1>3. /\ log' \in Seq(Records) /\ Len(log') = Len(log)
      /\ \A i \in 1 .. Len(log) : /\ log'[i].block = log[i].block
                                 /\ i # l => log'[i] = log[i]
      /\ log'[l].status = RolledBack
  BY <1>2 DEF LogTypes, Records
<1> HIDE DEF l
<1>4. LogTypes'
  BY <1>3 DEF LogTypes
<1>5. Retained' = Retained /\ \A i \in Retained : i \in 1 .. Len(log)
  BY <1>3, RetainedFacts DEF Retained
<1>6. \A i \in Retained : log'[i].block = log[i].block /\ (i # l => log'[i] = log[i])
  BY <1>3, <1>5
<1>7. ForwardRecords' = ForwardRecords \ {l}
  BY <1>1, <1>3, <1>5, <1>6 DEF ForwardRecords, Forward, RolledBack
<1>8. RetainedBlocks' = RetainedBlocks
  BY <1>5, <1>6 DEF RetainedBlocks
<1>9. Retained # {} /\ Base' = Base
  BY <1>2, <1>3, RetainedFacts DEF Base
<1>10. JTip = log[l].block /\ JTip \in Blocks \ {Root} /\ Base \in Blocks
  BY <1>9, TipFacts DEF l
<1>11. \A i \in ForwardRecords : i \in Retained /\ i \in Nat /\ log[i].block \in Blocks
  BY RetainedFacts
<1>12. \A i \in ForwardRecords : log[i].block = JTip => i = l
  <2> SUFFICES ASSUME NEW i \in ForwardRecords, log[i].block = JTip, i # l PROVE FALSE
    OBVIOUS
  <2>1. i < l
    BY <1>1, <1>11
  <2>2. Height[log[i].block] < Height[log[l].block] /\ Height[JTip] \in Nat
    BY <1>1, <1>10, <2>1, HeightTypes DEF InvLog
  <2> QED BY <1>10, <2>2
<1>13. ForwardBlocks' = ForwardBlocks \ {JTip}
  <2>1. ForwardBlocks' = {log[i].block : i \in ForwardRecords \ {l}}
    BY <1>6, <1>7, <1>11 DEF ForwardBlocks
  <2> QED BY <1>1, <1>10, <1>12, <2>1 DEF ForwardBlocks
<1>14. {log[i].block : i \in Retained \ ForwardRecords}' =
          {log[i].block : i \in Retained \ ForwardRecords} \cup {JTip}
  <2>1. Retained' \ ForwardRecords' = (Retained \ ForwardRecords) \cup {l}
    BY <1>1, <1>2, <1>5, <1>7
  <2> QED BY <1>2, <1>6, <1>10, <2>1
<1>15. ASSUME NEW i \in ForwardRecords'
       PROVE  /\ log'[i].block \notin Branch[Base']
              /\ Branch[log'[i].block] = Branch[Base'] \cup UpTo(i)'
  <2>1. i \in ForwardRecords /\ i # l /\ ~(l <= i)
    BY <1>1, <1>7, <1>11
  <2>2. {k \in ForwardRecords' : k <= i} = {k \in ForwardRecords : k <= i}
    BY <1>7, <2>1
  <2>3. UpTo(i)' = UpTo(i)
    BY <1>6, <1>11, <2>2 DEF UpTo
  <2>4. log'[i].block = log[i].block
    BY <1>6, <1>11, <2>1
  <2> QED BY <1>9, <2>1, <2>3, <2>4 DEF InvLog
<1>16. ASSUME NEW i \in ForwardRecords', NEW j \in ForwardRecords', i < j
       PROVE  Height[log'[i].block] < Height[log'[j].block]
  BY <1>6, <1>7, <1>11, <1>16 DEF InvLog
<1>17. \A i \in Retained' : log'[i].block # Root
  BY <1>5, <1>6 DEF InvLog
<1>18. floor' <= Len(log')
  BY <1>3, <1>9, RetainedFacts
<1>19. InvLog'
  BY <1>15, <1>16, <1>17, <1>18 DEF InvLog
<1>20. JTip' = Parent[JTip]
  <2>1. Branch[JTip] = Branch[Base] \cup ForwardBlocks /\ JTip \notin Branch[Base]
    BY <1>1, <1>9, <1>10, TipFacts DEF InvLog
  <2>2. Branch[Parent[JTip]] = Branch[JTip] \ {JTip} /\ Parent[JTip] \in Blocks
    BY <1>10, BranchParent, ParentFacts
  <2>3. Branch[Parent[JTip]] = Branch[Base'] \cup ForwardBlocks'
    BY <1>9, <1>13, <2>1, <2>2
  <2>4. /\ JTip' \in Blocks
        /\ Branch[JTip'] = Branch[Base'] \cup ForwardBlocks'
    BY <1>4, <1>5, <1>9, <1>19, TipFactsNext
  <2> QED BY <2>2, <2>3, <2>4, BranchInjective
<1> QED BY <1>4, <1>5, <1>8, <1>9, <1>13, <1>14, <1>19, <1>20

\* Pruning at a forward record keeps the tip; the base moves up the same chain.
LEMMA Pruning ==
    ASSUME LogTypes, InvLog, floor' \in ForwardRecords, log' = log
    PROVE  /\ LogTypes' /\ InvLog'
           /\ JTip' = JTip /\ Retained' # {}
<1> DEFINE c == floor'
<1>1. c \in ForwardRecords /\ c \in Retained /\ c \in 1 .. Len(log) /\ c >= floor /\ c \in Nat
  BY RetainedFacts
<1>2. LogTypes' /\ Retained' = c .. Len(log) /\ c \in Retained'
  BY <1>1, RetainedFacts DEF LogTypes, Retained
<1>3. Retained' \subseteq Retained /\ \A i \in Retained : i \in Retained' <=> c <= i
  BY <1>1, <1>2, RetainedFacts DEF Retained
<1>4. ForwardRecords' = {i \in ForwardRecords : c <= i}
  BY <1>3 DEF ForwardRecords
<1>5. Base' = Parent[log[c].block]
  BY DEF Base
<1>6. \A i \in ForwardRecords : i \in Retained /\ i \in Nat /\ log[i].block \in Blocks
  BY RetainedFacts
<1>7. log[c].block \in Blocks \ {Root}
  BY <1>1, <1>6 DEF InvLog
<1>8. /\ Base' \in Blocks /\ log[c].block \notin Branch[Base']
      /\ Branch[Base'] = Branch[log[c].block] \ {log[c].block}
  BY <1>5, <1>7, BranchParent, ParentFacts
<1>9. Branch[log[c].block] = Branch[Base] \cup UpTo(c) /\ log[c].block \notin Branch[Base]
  BY <1>1 DEF InvLog
<1> HIDE DEF c
<1>10. \A i, j \in ForwardRecords : i # j => log[i].block # log[j].block
  <2> SUFFICES ASSUME NEW i \in ForwardRecords, NEW j \in ForwardRecords, i < j
               PROVE  log[i].block # log[j].block
    BY <1>6
  <2>1. Height[log[i].block] < Height[log[j].block]
    BY DEF InvLog
  <2> QED BY <1>6, <2>1, HeightTypes
<1>11. Branch[Base'] = Branch[Base] \cup {log[j].block : j \in {k \in ForwardRecords : k < c}}
  <2>1. UpTo(c) = {log[j].block : j \in {k \in ForwardRecords : k < c}} \cup {log[c].block}
    <3>1. \A k \in ForwardRecords : k <= c <=> k < c \/ k = c
      BY <1>1, <1>6
    <3>2. {k \in ForwardRecords : k <= c} = {k \in ForwardRecords : k < c} \cup {c}
      BY <1>1, <3>1
    <3> QED BY <3>2 DEF UpTo
  <2>2. log[c].block \notin {log[j].block : j \in {k \in ForwardRecords : k < c}}
    <3>1. \A k \in ForwardRecords : k < c => k # c
      BY <1>1, <1>6
    <3> QED BY <1>1, <1>10, <3>1
  <2> QED BY <1>8, <1>9, <2>1, <2>2
<1>12. ASSUME NEW i \in ForwardRecords'
       PROVE  /\ log'[i].block \notin Branch[Base']
              /\ Branch[log'[i].block] = Branch[Base'] \cup UpTo(i)'
  <2>1. i \in ForwardRecords /\ c <= i /\ i \in Nat /\ c \in Nat
    BY <1>1, <1>4, <1>6
  <2>2. Branch[log[i].block] = Branch[Base] \cup UpTo(i) /\ log[i].block \notin Branch[Base]
    BY <2>1 DEF InvLog
  <2>3. log[i].block \notin {log[j].block : j \in {k \in ForwardRecords : k < c}}
    <3>1. \A k \in ForwardRecords : k < c => k # i
      BY <1>6, <2>1
    <3> QED BY <1>10, <2>1, <3>1
  <2>4. UpTo(i)' = {log[j].block : j \in {k \in ForwardRecords : c <= k /\ k <= i}}
    <3>1. {k \in ForwardRecords' : k <= i} = {k \in ForwardRecords : c <= k /\ k <= i}
      BY <1>4
    <3> QED BY <3>1 DEF UpTo
  <2>5. UpTo(i) = {log[j].block : j \in {k \in ForwardRecords : k < c}} \cup UpTo(i)'
    <3>0. \A k \in ForwardRecords : k <= i <=> k < c \/ (c <= k /\ k <= i)
      BY <1>6, <2>1
    <3>1. {k \in ForwardRecords : k <= i} =
             {k \in ForwardRecords : k < c} \cup {k \in ForwardRecords : c <= k /\ k <= i}
      BY <3>0
    <3> QED BY <2>4, <3>1 DEF UpTo
  <2> QED BY <1>11, <2>2, <2>3, <2>5
<1>13. ASSUME NEW i \in ForwardRecords', NEW j \in ForwardRecords', i < j
       PROVE  Height[log'[i].block] < Height[log'[j].block]
  BY <1>4, <1>13 DEF InvLog
<1>14. \A i \in Retained' : log'[i].block # Root
  BY <1>3 DEF InvLog
<1>15. floor' <= Len(log')
  BY <1>1 DEF c
<1>16. InvLog'
  BY <1>12, <1>13, <1>14, <1>15 DEF InvLog
<1>17. JTip' = JTip
  <2>1. latest_forward \in ForwardRecords /\ \A j \in ForwardRecords : j <= latest_forward
    BY <1>1, LatestForward
  <2>2. latest_forward \in ForwardRecords'
    BY <1>1, <1>4, <2>1
  <2>3. latest_forward' = latest_forward
    BY <1>2, <1>4, <2>1, <2>2, LatestForwardNext
  <2> QED BY <2>1, <2>2, <2>3 DEF JTip
<1> QED BY <1>2, <1>16, <1>17

\* All that is derived from the journal stays if the journal does.
LEMMA LogFrame ==
    ASSUME UNCHANGED <<log, floor>>
    PROVE  /\ (LogTypes' <=> LogTypes) /\ (InvLog' <=> InvLog) /\ JTip' = JTip
           /\ Retained' = Retained /\ ForwardRecords' = ForwardRecords /\ Base' = Base
           /\ RetainedBlocks' = RetainedBlocks /\ ForwardBlocks' = ForwardBlocks
           /\ OrphanedBlocks' = OrphanedBlocks
           /\ {log[i].block : i \in Retained \ ForwardRecords}' =
                 {log[i].block : i \in Retained \ ForwardRecords}
  BY DEF LogTypes, InvLog, JTip, Retained, ForwardRecords, Base, RetainedBlocks, ForwardBlocks,
     OrphanedBlocks, UpTo, latest_forward
=============================================================================
