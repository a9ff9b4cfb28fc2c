-------------------------- MODULE BootstrapProofs --------------------------
(***************************************************************************)
(* The hints file and the parallel build, for all chains, all numbers of   *)
(* workers and all chunk and batch sizes: what is under the name of the    *)
(* hints file is complete and exact, whatever was killed, failed or lost;  *)
(* the threads of a build never meet at a position of the forest; and a    *)
(* build that ends well has the right node at every position.              *)
(*                                                                         *)
(* The first follows the scan: after n blocks `utxos` holds exactly the    *)
(* leaves of the first n blocks that none of them spends.  The second is a *)
(* statement about work that is left: the positions of the heights nobody  *)
(* has claimed, of the rest of every leaf worker's range and of the rest   *)
(* of every chaser's tasks are unset, and no two of these overlap.  The    *)
(* third is about work that is done: a node that is there is the           *)
(* reference's, and a block that somebody has claimed and nobody is at has *)
(* the file's count, unless a worker failed.                               *)
(***************************************************************************)
EXTENDS BlockProver, ForestPositionProofs, FiniteSetTheorems

---------------------------------------------------------------------------
(* Invariants *)

\* The leaf of an output created at height g is unspent after n blocks of a chain.
Kept(c, n, g, o) ==
    /\ o \notin bip30_excluded_outpoint(g)
    /\ \A k \in g + 1 .. n : o \notin ToSet(Spends(Chains[c][k]))

Place(g, i) == [height |-> g, index |-> i - 1]

\* What the scan has found.
Scanned ==
    /\ leaf_counts = [h \in 1 .. height |-> Len(LeavesOf[chain][h])]
    /\ \A o \in DOMAIN utxos : \E g \in 1 .. height : \E i \in DOMAIN LeavesOf[chain][g] :
          o = LeavesOf[chain][g][i] /\ Kept(chain, height, g, o) /\ utxos[o] = Place(g, i)
    /\ \A g \in 1 .. height : \A i \in DOMAIN LeavesOf[chain][g] :
          Kept(chain, height, g, LeavesOf[chain][g][i]) =>
              /\ LeavesOf[chain][g][i] \in DOMAIN utxos
              /\ utxos[LeavesOf[chain][g][i]] = Place(g, i)

IsPair(d) == d = [output |-> d.output, temporary |-> d.temporary]

\* The tool, what it has written and what a power loss may leave of it.
GeneratorInv ==
    /\ chain \in DOMAIN Chains
    /\ \A d \in disk \cup {files} : IsPair(d) /\ (d.output = Absent \/ d.output \in AllHints)
    /\ gen \in {"idle", "scanning", "encode", "sync", "rename"}
    /\ gen # "idle" => /\ stop_height \in StopHeights /\ stop_height <= tip_height
                       /\ height \in 0 .. stop_height /\ Scanned
    /\ gen \in {"encode", "sync", "rename"} => height = stop_height
    /\ gen \in {"sync", "rename"} => files.temporary \in AllHints
    /\ gen = "rename" => \A d \in disk : d.temporary \in {Absent, files.temporary}
    /\ phase # "idle" => gen = "idle"

\* The layout of a file that can be built.
Laid ==
    /\ hints.stop \in Nat
    /\ \A h \in 1 .. hints.stop : hints.counts[h] \in Nat
    /\ \A h \in 1 .. hints.stop + 1 : leaf_offset(h) \in Nat
    /\ \A h \in 1 .. hints.stop : leaf_offset(h + 1) = leaf_offset(h) + hints.counts[h]
    /\ leaves = leaf_offset(hints.stop + 1)
    /\ forest_rows \in Nat /\ forest_rows + 1 <= MaxShift
    /\ leaves \in Nat /\ leaves <= Pow2[forest_rows]

Filling(w) == leaf[w].pc = "fill"

\* A leaf that a worker has not yet come to, in the range that it has claimed.
Ahead(w, h, i) ==
    /\ h \in leaf[w].height .. leaf[w].end
    /\ h > leaf[w].height \/ i >= leaf[w].local

\* No two workers have the same height, and the leaves ahead of the workers, or of heights that
\* nobody has claimed, are unset.
LeavesLeft ==
    /\ next_chunk \in Nat
    /\ \A w \in LeafWorkers : Filling(w) =>
          /\ leaf[w].height \in 1 .. hints.stop /\ leaf[w].end \in leaf[w].height .. hints.stop
          /\ leaf[w].end <= next_chunk * HeightChunk
          /\ leaf[w].local \in Nat
    /\ \A w, v \in LeafWorkers : Filling(w) /\ Filling(v) /\ w # v =>
          leaf[w].end < leaf[v].height \/ leaf[v].end < leaf[w].height
    /\ \A h \in 1 .. hints.stop : \A i \in 0 .. hints.counts[h] - 1 :
          /\ h > next_chunk * HeightChunk => nodes[leaf_offset(h) + i] = Unset
          /\ \A w \in LeafWorkers : Filling(w) /\ Ahead(w, h, i) => nodes[leaf_offset(h) + i] = Unset

\* A parent of a chunk of a row.
InChunk(r, k, q) ==
    /\ deterministic_chunk(parent_count(r), k).first <= q
    /\ q < deterministic_chunk(parent_count(r), k).end

\* The chunks of a chaser in a row, and its parents.
Dealt(c, r, k) ==
    /\ parent_count(r) > 0 /\ k \in 0 .. deterministic_chunk_count(parent_count(r)) - 1
    /\ k % Cardinality(ChaserWorkers) = c
Task(c, r, q) ==
    \E k \in 0 .. deterministic_chunk_count(parent_count(r)) - 1 : Dealt(c, r, k) /\ InChunk(r, k, q)

ParentAt(r, q) == start_position_at_row(r + 1, forest_rows) + q

\* Where a chaser is, and that the parents it has not yet come to are unset.
Chasing(k, c) ==
    /\ k.row \in 0 .. forest_rows - 1 /\ k.parent \in Nat
    /\ Dealt(c, k.row, k.chunk) /\ InChunk(k.row, k.chunk, k.parent)

Above(k, r, q) == r > k.row \/ (r = k.row /\ q >= k.parent)

ParentsLeft ==
    \A c \in ChaserWorkers : chaser[c].pc = "run" =>
        /\ Chasing(chaser[c], c)
        /\ \A r \in 0 .. forest_rows - 1 : \A q \in 0 .. parent_count(r) - 1 :
              Task(c, r, q) /\ Above(chaser[c], r, q) => nodes[ParentAt(r, q)] = Unset

\* The builder from the hints file to the join of its threads.
BuildInv ==
    /\ phase \in {"idle", "check"} => next_chunk = 0 /\ leaf = [w \in LeafWorkers |-> IdleLeaf]
    /\ phase = "check" => hints \in AllHints /\ layout = Layout(hints.counts)
    /\ phase = "building" =>
          /\ Laid
          /\ DOMAIN nodes = 0 .. forest_capacity(forest_rows) - 1
          /\ DOMAIN leaf = LeafWorkers /\ \A w \in LeafWorkers : DOMAIN leaf[w] = DOMAIN IdleLeaf
          /\ DOMAIN chaser = ChaserWorkers /\ \A c \in ChaserWorkers : DOMAIN chaser[c] = DOMAIN IdleChaser
          /\ SameCounts => LeavesLeft /\ ParentsLeft

BootstrapInv == GeneratorInv /\ BuildInv


---------------------------------------------------------------------------
(* The hints file *)

\* The files that the tool may leave under the name.
LEMMA HintFacts ==
    ASSUME NEW x \in AllHints
    PROVE  /\ x.kind = "hints" /\ x # Absent
           /\ x.stop \in Nat \ {0}
           /\ x.counts \in [1 .. x.stop -> Nat] /\ Len(x.counts) = x.stop
<1>0. PICK c \in DOMAIN Chains : x \in {HintsOf(c, n) : n \in StopHeights \cap DOMAIN Chains[c]}
  BY DEF AllHints
<1>1. PICK stop \in StopHeights \cap DOMAIN Chains[c] : x = HintsOf(c, stop)
  BY <1>0
<1>2. /\ x.kind = "hints" /\ x.stop = stop
      /\ x.counts = [h \in 1 .. stop |-> Len(LeavesOf[c][h])]
  BY <1>1 DEF HintsOf, Hints
<1>3. stop \in Nat \ {0} /\ \A h \in 1 .. stop : Len(LeavesOf[c][h]) \in Nat
  BY GeneratorAssumption, ChainsAssumption
<1>4. x # Absent
  BY <1>2 DEF Absent
<1>5. x.counts \in [1 .. x.stop -> Nat]
  BY <1>2, <1>3
<1>6. Len(x.counts) = x.stop
  BY <1>2, <1>3, <1>5
<1> QED BY <1>2, <1>3, <1>4, <1>5, <1>6

\* A scan that has come to the stop height has found the hints of its chain.
LEMMA ScanIsHints ==
    ASSUME GeneratorInv, gen = "encode"
    PROVE  Hints(stop_height, leaf_counts, collect_unspent_indices) \in AllHints
<1> DEFINE c == chain
           stop == stop_height
           found(h) == {utxos[o].index : o \in {p \in DOMAIN utxos : utxos[p].height = h}}
           spent(h, o) == \/ o \in bip30_excluded_outpoint(h)
                          \/ \E g \in h + 1 .. stop : o \in ToSet(Spends(Chains[c][g]))
           places(h) == {i \in DOMAIN LeavesOf[c][h] : ~spent(h, LeavesOf[c][h][i])}
<1>1. /\ c \in DOMAIN Chains /\ stop \in StopHeights /\ stop <= Len(Chains[c]) /\ height = stop
      /\ Scanned
  BY DEF GeneratorInv, tip_height
<1>2. stop \in StopHeights \cap DOMAIN Chains[c] /\ stop \in Nat
  BY <1>1, GeneratorAssumption, ChainsAssumption
<1>3. ASSUME NEW h \in 1 .. stop
      PROVE  found(h) = {i - 1 : i \in places(h)}
  <2>0. DOMAIN LeavesOf[c][h] \subseteq Nat
    BY <1>1, <1>2, ChainsAssumption
  <2>1. ASSUME NEW o \in DOMAIN utxos, utxos[o].height = h
        PROVE  \E i \in places(h) : utxos[o].index = i - 1
    <3>0. PICK g \in 1 .. stop : \E i \in DOMAIN LeavesOf[c][g] :
             o = LeavesOf[c][g][i] /\ Kept(c, stop, g, o) /\ utxos[o] = Place(g, i)
      BY <1>1 DEF Scanned
    <3>1. PICK i \in DOMAIN LeavesOf[c][g] :
             o = LeavesOf[c][g][i] /\ Kept(c, stop, g, o) /\ utxos[o] = Place(g, i)
      BY <3>0
    <3>2. g = h /\ utxos[o].index = i - 1
      BY <2>1, <3>1 DEF Place
    <3>3. ~spent(h, o)
      BY <3>1, <3>2 DEF Kept
    <3>4. i \in places(h)
      BY <3>1, <3>2, <3>3
    <3> QED BY <3>2, <3>4
  <2>2. ASSUME NEW i \in places(h)
        PROVE  \E o \in DOMAIN utxos : utxos[o].height = h /\ utxos[o].index = i - 1
    <3> DEFINE o == LeavesOf[c][h][i]
    <3>1. Kept(c, stop, h, o)
      BY <2>2 DEF Kept
    <3>2. o \in DOMAIN utxos /\ utxos[o] = Place(h, i)
      BY <1>1, <2>2, <3>1 DEF Scanned
    <3> QED BY <3>2 DEF Place
  <2> HIDE DEF places
  <2>3. \A x \in found(h) : \E i \in places(h) : x = i - 1
    BY <2>1
  <2>4. \A i \in places(h) : i - 1 \in found(h)
    BY <2>2
  <2> QED BY <2>3, <2>4
<1>4. collect_unspent_indices = [h \in 1 .. stop |-> Increasing({i - 1 : i \in places(h)})]
  <2>1. \A h \in 1 .. stop : Increasing(found(h)) = Increasing({i - 1 : i \in places(h)})
    <3> HIDE DEF found, places
    <3> QED BY <1>3
  <2>2. collect_unspent_indices = [h \in 1 .. stop |-> Increasing(found(h))]
    BY DEF collect_unspent_indices
  <2> HIDE DEF found, places
  <2> QED BY <2>1, <2>2
<1>5. Hints(stop, leaf_counts, collect_unspent_indices) = HintsOf(c, stop)
  BY <1>1, <1>4 DEF HintsOf, Scanned
<1> QED BY <1>1, <1>2, <1>5 DEF AllHints

\* One more block: the outputs it spends are gone, unless they are its own, and its leaves are new.
LEMMA ScanBlock ==
    ASSUME GeneratorInv, gen = "scanning", height < stop_height,
           Removed(block_at_height(height + 1)) \subseteq DOMAIN utxos,
           DOMAIN [o \in DOMAIN utxos \ Removed(block_at_height(height + 1)) |-> utxos[o]]
              \cap DOMAIN Inserted(height + 1) = {},
           utxos' = [o \in DOMAIN Inserted(height + 1)
                           \cup DOMAIN [o \in DOMAIN utxos \ Removed(block_at_height(height + 1)) |-> utxos[o]] |->
                        IF o \in DOMAIN Inserted(height + 1) THEN Inserted(height + 1)[o] ELSE utxos[o]],
           leaf_counts' = Append(leaf_counts, Len(LeavesOf[chain][height + 1])),
           height' = height + 1, UNCHANGED chain
    PROVE  Scanned'
<1> DEFINE n == height
           h == height + 1
           block == Chains[chain][h]
           left == [o \in DOMAIN utxos \ Removed(block) |-> utxos[o]]
           L(g) == LeavesOf[chain][g]
<1>0. block_at_height(h) = block
  BY DEF block_at_height
<1>1. /\ chain \in DOMAIN Chains /\ n \in Nat /\ h \in DOMAIN Chains[chain] /\ Scanned
      /\ \A g \in 1 .. h : g \in DOMAIN Chains[chain]
  <2>1. stop_height \in Nat /\ stop_height <= Len(Chains[chain]) /\ height \in 0 .. stop_height
    BY GeneratorAssumption DEF GeneratorInv, tip_height
  <2> QED BY <2>1, ChainsAssumption DEF GeneratorInv
<1>2. \A g \in 1 .. h : Len(L(g)) \in Nat /\ DOMAIN L(g) = 1 .. Len(L(g))
  BY <1>1, ChainsAssumption
<1>3. leaf_counts' = [g \in 1 .. h |-> Len(L(g))]
  <2>1. leaf_counts = [g \in 1 .. n |-> Len(L(g))]
    BY <1>1 DEF Scanned
  <2>2. leaf_counts \in Seq(Nat) /\ Len(leaf_counts) = n
    <3>1. leaf_counts \in [1 .. n -> Nat]
      BY <1>1, <1>2, <2>1
    <3> QED BY <1>1, <3>1
  <2> QED BY <1>1, <1>2, <2>1, <2>2
<1>4. DOMAIN Inserted(h) = ToSet(L(h)) \ bip30_excluded_outpoint(h)
  BY DEF Inserted
<1>5. ASSUME NEW i \in DOMAIN L(h), L(h)[i] \notin bip30_excluded_outpoint(h)
      PROVE  L(h)[i] \in DOMAIN Inserted(h) /\ Inserted(h)[L(h)[i]] = Place(h, i)
  <2> DEFINE o == L(h)[i]
             j == CHOOSE k \in DOMAIN L(h) : L(h)[k] = o
  <2>1. j \in DOMAIN L(h) /\ L(h)[j] = o
    OBVIOUS
  <2>2. j = i
    BY <1>1, <2>1, ChainsAssumption
  <2>3. o \in ToSet(L(h)) \ bip30_excluded_outpoint(h)
    BY <1>5 DEF ToSet
  <2>4. Inserted(h)[o] = [height |-> h, index |-> j - 1]
    BY <2>3 DEF Inserted
  <2> QED BY <1>4, <2>2, <2>3, <2>4 DEF Place
<1>6. /\ DOMAIN utxos' = DOMAIN Inserted(h) \cup (DOMAIN utxos \ Removed(block))
      /\ \A o \in DOMAIN Inserted(h) : utxos'[o] = Inserted(h)[o]
      /\ \A o \in (DOMAIN utxos \ Removed(block)) \ DOMAIN Inserted(h) : utxos'[o] = utxos[o]
  BY <1>0
<1>7. (DOMAIN utxos \ Removed(block)) \cap DOMAIN Inserted(h) = {}
  BY <1>0
\* An unspent leaf that the block spends is among what it removes.
<1>8. ASSUME NEW g \in 1 .. n, NEW i \in DOMAIN L(g), Kept(chain, n, g, L(g)[i])
      PROVE  L(g)[i] \in Removed(block) <=> L(g)[i] \in ToSet(Spends(block))
  <2> DEFINE o == L(g)[i]
  <2>1. SUFFICES ASSUME o \in ToSet(Spends(block)), o \in same_block_spends(block)
                 PROVE  FALSE
    BY DEF Removed
  <2>2. o \in ToSet(L(g)) /\ o \notin bip30_excluded_outpoint(g)
    BY <1>8 DEF Kept, ToSet
  <2>3. g \in 1 .. h - 1 /\ h - 1 = n
    BY <1>1
  <2>4. \E k \in g + 1 .. h - 1 : o \in ToSet(Spends(Chains[chain][k]))
    BY <1>1, <2>1, <2>2, <2>3, ChainsAssumption
  <2> QED BY <1>8, <2>3, <2>4 DEF Kept
<1>9. \A g \in 1 .. n : \A o : Kept(chain, h, g, o) <=> Kept(chain, n, g, o) /\ o \notin ToSet(Spends(block))
  BY <1>1 DEF Kept
<1>10. \A o : Kept(chain, h, h, o) <=> o \notin bip30_excluded_outpoint(h)
  BY <1>1 DEF Kept
<1>11. ASSUME NEW o \in DOMAIN utxos'
       PROVE  \E g \in 1 .. h : \E i \in DOMAIN L(g) :
                 o = L(g)[i] /\ Kept(chain, h, g, o) /\ utxos'[o] = Place(g, i)
  <2>1. CASE o \in DOMAIN Inserted(h)
    <3>1. o \in ToSet(L(h)) /\ o \notin bip30_excluded_outpoint(h)
      BY <1>4, <2>1
    <3>2. PICK i \in DOMAIN L(h) : o = L(h)[i]
      BY <3>1 DEF ToSet
    <3>3. utxos'[o] = Place(h, i)
      BY <1>5, <1>6, <2>1, <3>1, <3>2
    <3>4. h \in 1 .. h
      BY <1>1
    <3> QED BY <1>10, <3>1, <3>2, <3>3, <3>4
  <2>2. CASE o \notin DOMAIN Inserted(h)
    <3>1. o \in DOMAIN utxos /\ o \notin Removed(block) /\ utxos'[o] = utxos[o]
      BY <1>6, <2>2
    <3>2. PICK g \in 1 .. n : \E i \in DOMAIN L(g) :
             o = L(g)[i] /\ Kept(chain, n, g, o) /\ utxos[o] = Place(g, i)
      BY <1>1, <3>1 DEF Scanned
    <3>3. PICK i \in DOMAIN L(g) : o = L(g)[i] /\ Kept(chain, n, g, o) /\ utxos[o] = Place(g, i)
      BY <3>2
    <3>4. Kept(chain, h, g, o)
      BY <1>8, <1>9, <3>1, <3>3
    <3>5. g \in 1 .. h
      BY <1>1
    <3> QED BY <3>1, <3>3, <3>4, <3>5
  <2> QED BY <2>1, <2>2
<1>12. ASSUME NEW g \in 1 .. h, NEW i \in DOMAIN L(g), Kept(chain, h, g, L(g)[i])
       PROVE  L(g)[i] \in DOMAIN utxos' /\ utxos'[L(g)[i]] = Place(g, i)
  <2>1. CASE g = h
    <3>1. L(h)[i] \in DOMAIN Inserted(h) /\ Inserted(h)[L(h)[i]] = Place(h, i)
      BY <1>5, <1>10, <1>12, <2>1
    <3> QED BY <1>6, <2>1, <3>1
  <2>2. CASE g # h
    <3>1. g \in 1 .. n
      BY <1>1, <2>2
    <3>2. Kept(chain, n, g, L(g)[i]) /\ L(g)[i] \notin Removed(block)
      BY <1>8, <1>9, <1>12, <3>1
    <3>3. L(g)[i] \in DOMAIN utxos /\ utxos[L(g)[i]] = Place(g, i)
      BY <1>1, <3>1, <3>2 DEF Scanned
    <3> QED BY <1>6, <1>7, <3>2, <3>3
  <2> QED BY <2>1, <2>2
<1>13. chain' = chain /\ height' = h
  OBVIOUS
<1> HIDE DEF h
<1>14. (leaf_counts = [g \in 1 .. height |-> Len(LeavesOf[chain][g])])'
  BY <1>3, <1>13
<1>15. (\A o \in DOMAIN utxos : \E g \in 1 .. height : \E i \in DOMAIN LeavesOf[chain][g] :
          o = LeavesOf[chain][g][i] /\ Kept(chain, height, g, o) /\ utxos[o] = Place(g, i))'
  <2>1. \A o \in DOMAIN utxos' : \E g \in 1 .. height' : \E i \in DOMAIN LeavesOf[chain'][g] :
          o = LeavesOf[chain'][g][i] /\ Kept(chain', height', g, o) /\ utxos'[o] = Place(g, i)
    <3> SUFFICES ASSUME NEW o \in DOMAIN utxos'
                 PROVE  \E g \in 1 .. height' : \E i \in DOMAIN LeavesOf[chain'][g] :
                           o = LeavesOf[chain'][g][i] /\ Kept(chain', height', g, o) /\ utxos'[o] = Place(g, i)
      OBVIOUS
    <3>1. PICK g \in 1 .. h : \E i \in DOMAIN L(g) :
             o = L(g)[i] /\ Kept(chain, h, g, o) /\ utxos'[o] = Place(g, i)
      BY <1>11
    <3>2. PICK i \in DOMAIN L(g) : o = L(g)[i] /\ Kept(chain, h, g, o) /\ utxos'[o] = Place(g, i)
      BY <3>1
    <3>3. /\ g \in 1 .. height' /\ i \in DOMAIN LeavesOf[chain'][g]
          /\ o = LeavesOf[chain'][g][i] /\ Kept(chain', height', g, o)
      BY <1>13, <3>2
    <3> QED BY <3>2, <3>3
  <2> QED BY <2>1
<1>16. (\A g \in 1 .. height : \A i \in DOMAIN LeavesOf[chain][g] :
          Kept(chain, height, g, LeavesOf[chain][g][i]) =>
              /\ LeavesOf[chain][g][i] \in DOMAIN utxos
              /\ utxos[LeavesOf[chain][g][i]] = Place(g, i))'
  BY <1>12, <1>13
<1> QED BY <1>14, <1>15, <1>16 DEF Scanned

\* A tool that ends leaves nothing to say but of the files.
LEMMA GeneratorEnds ==
    ASSUME GeneratorInv, gen' = "idle", chain' \in DOMAIN Chains,
           \A d \in disk' \cup {files'} : IsPair(d) /\ (d.output = Absent \/ d.output \in AllHints)
    PROVE  GeneratorInv'
  BY DEF GeneratorInv

\* The temporary file changes, and may or may not do so on the medium.
LEMMA TemporaryWritten ==
    ASSUME GeneratorInv, NEW content,
           files' = [files EXCEPT !.temporary = content],
           disk' = disk \cup {[d EXCEPT !.temporary = content] : d \in disk}
    PROVE  /\ \A d \in disk' \cup {files'} : IsPair(d) /\ (d.output = Absent \/ d.output \in AllHints)
           /\ files'.temporary = content
<1>1. ASSUME NEW d \in disk \cup {files}
      PROVE  /\ IsPair([d EXCEPT !.temporary = content])
             /\ [d EXCEPT !.temporary = content].output = d.output
             /\ [d EXCEPT !.temporary = content].temporary = content
             /\ IsPair(d) /\ (d.output = Absent \/ d.output \in AllHints)
  <2>1. IsPair(d) /\ (d.output = Absent \/ d.output \in AllHints)
    BY DEF GeneratorInv
  <2>2. d = [output |-> d.output, temporary |-> d.temporary]
    BY <2>1 DEF IsPair
  <2>3. [d EXCEPT !.temporary = content] = [output |-> d.output, temporary |-> content]
    BY <2>2
  <2> QED BY <2>1, <2>3 DEF IsPair
<1> QED BY <1>1

\* The rename puts the complete file under its name, wherever the temporary file has one.
LEMMA RenameKeeps ==
    ASSUME GeneratorInv, gen = "rename", files' = Renamed(files), disk' = disk \cup {Renamed(d) : d \in disk}
    PROVE  \A d \in disk' \cup {files'} : IsPair(d) /\ (d.output = Absent \/ d.output \in AllHints)
<1>1. ASSUME NEW d \in disk \cup {files}
      PROVE  IsPair(Renamed(d)) /\ (Renamed(d).output = Absent \/ Renamed(d).output \in AllHints)
  <2>1. IsPair(d) /\ (d.output = Absent \/ d.output \in AllHints)
    BY DEF GeneratorInv
  <2>2. files.temporary \in AllHints /\ d.temporary \in {Absent, files.temporary}
    BY DEF GeneratorInv
  <2>3. CASE d.temporary = Absent
    BY <2>1, <2>3 DEF Renamed
  <2>4. CASE d.temporary # Absent
    <3>1. Renamed(d) = [output |-> d.temporary, temporary |-> Absent]
      BY <2>4 DEF Renamed
    <3> QED BY <2>2, <2>4, <3>1 DEF IsPair
  <2> QED BY <2>3, <2>4
<1>2. \A d \in disk : IsPair(d) /\ (d.output = Absent \/ d.output \in AllHints)
  BY DEF GeneratorInv
<1> QED BY <1>1, <1>2

\* The steps of the tool keep its invariant.
LEMMA GeneratorStep ==
    ASSUME GeneratorInv, phase = "idle", phase' = "idle", GeneratorNext
    PROVE  GeneratorInv'
<1>0. /\ chain \in DOMAIN Chains
      /\ \A d \in disk \cup {files} : IsPair(d) /\ (d.output = Absent \/ d.output \in AllHints)
  BY DEF GeneratorInv
<1>1. CASE start
  <2>1. /\ gen' = "scanning" /\ height' = 0 /\ utxos' = << >> /\ leaf_counts' = << >>
        /\ UNCHANGED <<chain, files, disk>> /\ stop_height' \in StopHeights /\ stop_height' <= tip_height
    BY <1>1 DEF start
  <2>2. Scanned'
    <3>1. leaf_counts' = [h \in 1 .. height' |-> Len(LeavesOf[chain'][h])]
      BY <2>1
    <3> QED BY <2>1, <3>1 DEF Scanned
  <2>3. height' \in 0 .. stop_height'
    BY <2>1, GeneratorAssumption
  <2> QED BY <2>1, <2>2, <2>3 DEF GeneratorInv, tip_height
<1>2. CASE apply_block
  <2>1. gen = "scanning" /\ height < stop_height /\ UNCHANGED <<chain, files, disk>>
    BY <1>2 DEF apply_block
  <2>2. CASE Ends
    BY <1>0, <2>1, <2>2, GeneratorEnds DEF Ends
  <2>3. CASE ~Ends
    <3>1. /\ Removed(block_at_height(height + 1)) \subseteq DOMAIN utxos
          /\ DOMAIN [o \in DOMAIN utxos \ Removed(block_at_height(height + 1)) |-> utxos[o]]
                \cap DOMAIN Inserted(height + 1) = {}
          /\ utxos' = [o \in DOMAIN Inserted(height + 1)
                           \cup DOMAIN [o \in DOMAIN utxos \ Removed(block_at_height(height + 1)) |-> utxos[o]] |->
                        IF o \in DOMAIN Inserted(height + 1) THEN Inserted(height + 1)[o] ELSE utxos[o]]
          /\ leaf_counts' = Append(leaf_counts, Len(LeavesOf[chain][height + 1]))
          /\ height' = height + 1 /\ UNCHANGED <<gen, stop_height, force>>
      BY <1>2, <2>3, Zenon DEF apply_block
    <3>2. Scanned'
      BY <2>1, <3>1, ScanBlock
    <3>3. height' \in 0 .. stop_height' /\ stop_height' \in StopHeights /\ stop_height' <= tip_height'
      <4>1. stop_height \in StopHeights /\ stop_height <= tip_height /\ height \in 0 .. stop_height
        BY <2>1 DEF GeneratorInv
      <4>2. stop_height \in Nat
        BY <4>1, GeneratorAssumption
      <4>3. tip_height' = tip_height
        BY <2>1 DEF tip_height
      <4> QED BY <2>1, <3>1, <4>1, <4>2, <4>3
    <3> QED BY <2>1, <3>1, <3>2, <3>3 DEF GeneratorInv
  <2> QED BY <2>2, <2>3
<1>3. CASE refuse
  BY <1>0, <1>3, GeneratorEnds DEF refuse, Ends
<1>4. CASE create_temporary
  <2>1. /\ gen = "scanning" /\ gen' = "encode" /\ height = stop_height
        /\ files' = [files EXCEPT !.temporary = Torn]
        /\ disk' = disk \cup {[d EXCEPT !.temporary = Torn] : d \in disk}
        /\ UNCHANGED <<chain, stop_height, height, utxos, leaf_counts>>
    BY <1>4 DEF create_temporary
  <2>2. \A d \in disk' \cup {files'} : IsPair(d) /\ (d.output = Absent \/ d.output \in AllHints)
    BY <2>1, TemporaryWritten
  <2>3. Scanned'
    BY <2>1 DEF GeneratorInv, Scanned
  <2> QED BY <2>1, <2>2, <2>3 DEF GeneratorInv, tip_height
<1>5. CASE encode_hints
  <2> DEFINE content == Hints(stop_height, leaf_counts, collect_unspent_indices)
  <2>1. /\ gen = "encode" /\ gen' = "sync"
        /\ files' = [files EXCEPT !.temporary = content]
        /\ disk' = disk \cup {[d EXCEPT !.temporary = content] : d \in disk}
        /\ UNCHANGED <<chain, stop_height, height, utxos, leaf_counts>>
    BY <1>5 DEF encode_hints
  <2>2. content \in AllHints
    BY <2>1, ScanIsHints
  <2> HIDE DEF content
  <2>3. /\ \A d \in disk' \cup {files'} : IsPair(d) /\ (d.output = Absent \/ d.output \in AllHints)
        /\ files'.temporary \in AllHints
    BY <2>1, <2>2, TemporaryWritten
  <2>4. Scanned'
    BY <2>1 DEF GeneratorInv, Scanned
  <2> QED BY <2>1, <2>3, <2>4 DEF GeneratorInv, tip_height
<1>6. CASE sync_temporary
  <2>1. /\ gen = "sync" /\ gen' = "rename"
        /\ disk' = {d \in disk : d.temporary \in {Absent, files.temporary}}
        /\ UNCHANGED <<chain, files, stop_height, height, utxos, leaf_counts>>
    BY <1>6 DEF sync_temporary
  <2>2. Scanned'
    BY <2>1 DEF GeneratorInv, Scanned
  <2>3. /\ \A d \in disk' \cup {files'} : IsPair(d) /\ (d.output = Absent \/ d.output \in AllHints)
        /\ \A d \in disk' : d.temporary \in {Absent, files'.temporary}
    BY <1>0, <2>1
  <2> QED BY <2>1, <2>2, <2>3 DEF GeneratorInv, tip_height
<1>7. CASE rename
  <2>1. /\ gen = "rename" /\ files' = Renamed(files) /\ disk' = disk \cup {Renamed(d) : d \in disk}
        /\ gen' = "idle" /\ chain' = chain
    BY <1>7 DEF rename, Ends
  <2> QED BY <1>0, <2>1, RenameKeeps, GeneratorEnds
<1>8. CASE write_failure
  <2>1. /\ files' = [files EXCEPT !.temporary = Absent]
        /\ disk' = disk \cup {[d EXCEPT !.temporary = Absent] : d \in disk}
        /\ gen' = "idle" /\ chain' = chain
    BY <1>8 DEF write_failure, Ends
  <2>2. \A d \in disk' \cup {files'} : IsPair(d) /\ (d.output = Absent \/ d.output \in AllHints)
    BY <2>1, TemporaryWritten
  <2>3. chain' \in DOMAIN Chains
    BY <1>0, <2>1
  <2> QED BY <2>1, <2>2, <2>3, GeneratorEnds
<1>9. CASE kill_generator
  BY <1>0, <1>9, GeneratorEnds DEF kill_generator, Ends
<1>10. CASE power_loss_generator
  <2>1. /\ gen' = "idle" /\ chain' = chain /\ \E d \in disk : files' = d /\ disk' = {d}
    BY <1>10 DEF power_loss_generator, Ends
  <2> QED BY <1>0, <2>1, GeneratorEnds
<1>11. CASE remove_temporary
  <2>1. /\ files' = [files EXCEPT !.temporary = Absent]
        /\ disk' = disk \cup {[d EXCEPT !.temporary = Absent] : d \in disk}
        /\ gen' = "idle" /\ chain' = chain
    BY <1>11 DEF remove_temporary
  <2>2. \A d \in disk' \cup {files'} : IsPair(d) /\ (d.output = Absent \/ d.output \in AllHints)
    BY <2>1, TemporaryWritten
  <2>3. chain' \in DOMAIN Chains
    BY <1>0, <2>1
  <2> QED BY <2>1, <2>2, <2>3, GeneratorEnds
<1> QED BY <1>1, <1>2, <1>3, <1>4, <1>5, <1>6, <1>7, <1>8, <1>9, <1>10, <1>11 DEF GeneratorNext

---------------------------------------------------------------------------
(* What the steps of the builder and of the bridge leave alone *)

\* The builder's threads do not touch the tool's files.
LEMMA BuilderFrame ==
    ASSUME BuildNext, ~from_reader
    PROVE  UNCHANGED generator_vars /\ (phase' = phase \/ phase # "idle")
<1>1. CASE MainStep
  BY <1>1 DEF MainStep, build_refused, build_with_source, join_leaf, validate_forest
<1>2. ASSUME NEW w \in LeafWorkers, LeafStep(w) \/ leaf_failure(w) \/ leaf_panic(w)
      PROVE  UNCHANGED generator_vars /\ phase' = phase
  BY <1>2 DEF LeafStep, acquire, write_leaf, write_refused, end_block, count_changed, put_batch,
              leaf_failure, leaf_panic
<1>3. ASSUME NEW c \in ChaserWorkers, ChaserStep(c)
      PROVE  UNCHANGED generator_vars /\ phase' = phase
  BY <1>3 DEF ChaserStep, read_ready, write_parent, parent_refused, wait_child, chaser_aborted
<1> QED BY <1>1, <1>2, <1>3 DEF BuildNext

SteadyPhases == {"steady", "stopped", "replaying", "diverged"}

\* The bridge does not touch them either, apart from forgetting them, and never builds again.
LEMMA SteadyFrame ==
    ASSUME SteadyNext
    PROVE  /\ phase # "idle" /\ phase' \in SteadyPhases
           /\ gen' = gen
           /\ \/ open_built
              \/ UNCHANGED <<files, disk>> /\ (chain' = chain \/ change_chain)
<1> USE DEF SteadyPhases
<1>1. CASE open_built
  BY <1>1 DEF open_built
<1>2. CASE ProducerStep
  <2>1. CASE process_block
    BY <2>1 DEF process_block, CanProcess, HasNext, Up, finished_vars
  <2>2. CASE publish_pending
    BY <2>2 DEF publish_pending, CanPublish, Up, finished_vars
  <2>3. CASE retire_apply
    BY <2>3 DEF retire_apply, Up, finished_vars
  <2>4. CASE ensure_forest_capacity
    BY <2>4 DEF ensure_forest_capacity, CanResize, HasNext, Up, finished_vars
  <2>5. CASE repair_leaf_position
    BY <2>5 DEF repair_leaf_position, CanRepair, HasNext, Up, finished_vars, end_process
  <2>6. CASE discard_unpublished
    BY <2>6 DEF discard_unpublished, CanDiscard, Up, finished_vars
  <2>7. CASE rollback
    BY <2>7 DEF rollback, CanRollBack, Up, finished_vars
  <2> QED BY <1>2, <2>1, <2>2, <2>3, <2>4, <2>5, <2>6, <2>7 DEF ProducerStep
<1>3. CASE WorkerStep
  BY <1>3 DEF WorkerStep, publish_window, apply_forward_batch, finish_window, Up, finished_vars
<1>4. CASE Recovery
  BY <1>4 DEF Recovery, replay_backward, replay_forward, finished_vars
<1>5. CASE resolve_error
  BY <1>5 DEF resolve_error, HasNext, Up, end_process, finished_vars
<1>6. CASE reorg_too_deep
  BY <1>6 DEF reorg_too_deep, Up, end_process, finished_vars
<1>7. CASE change_chain
  BY <1>7 DEF change_chain, finished_vars
<1>8. CASE crash
  BY <1>8 DEF crash, end_process, finished_vars
<1>9. CASE damage
  BY <1>9 DEF damage, finished_vars
<1> QED BY <1>1, <1>2, <1>3, <1>4, <1>5, <1>6, <1>7, <1>8, <1>9 DEF SteadyNext

\* The tool's invariant through every step of the system.
LEMMA GeneratorKept ==
    ASSUME GeneratorInv, [Next]_vars
    PROVE  GeneratorInv'
<1>0. /\ chain \in DOMAIN Chains
      /\ \A d \in disk \cup {files} : IsPair(d) /\ (d.output = Absent \/ d.output \in AllHints)
  BY DEF GeneratorInv
<1>1. CASE UNCHANGED generator_vars /\ (phase' = phase \/ phase # "idle")
  <2>1. Scanned' <=> Scanned
    BY <1>1 DEF generator_vars, Scanned
  <2>2. tip_height' = tip_height
    BY <1>1 DEF generator_vars, tip_height
  <2> QED BY <1>1, <2>1, <2>2 DEF GeneratorInv, generator_vars
<1>2. CASE phase = "idle" /\ GeneratorNext /\ UNCHANGED build_vars
  BY <1>2, GeneratorStep DEF build_vars
<1>3. CASE reorganize
  <2>1. gen' = "idle" /\ chain' \in DOMAIN Chains /\ UNCHANGED <<files, disk>>
    BY <1>3 DEF reorganize
  <2> QED BY <1>0, <2>1, GeneratorEnds
<1>4. CASE from_reader
  <2>1. gen' = "idle" /\ chain' = chain /\ files' = files /\ disk' = {files}
    BY <1>4 DEF from_reader
  <2> QED BY <1>0, <2>1, GeneratorEnds
<1>5. CASE SteadyNext
  <2>1. phase # "idle" /\ gen' = gen
    BY <1>5, SteadyFrame
  <2>2. gen' = "idle"
    BY <2>1 DEF GeneratorInv
  <2>3. CASE open_built
    <3>1. chain' = chain /\ files' = [output |-> Absent, temporary |-> Absent] /\ disk' = {files'}
      BY <2>3 DEF open_built
    <3>2. IsPair(files') /\ files'.output = Absent
      BY <3>1 DEF IsPair
    <3> QED BY <1>0, <2>2, <3>1, <3>2, GeneratorEnds
  <2>4. CASE ~open_built
    <3>1. UNCHANGED <<files, disk>> /\ (chain' = chain \/ change_chain)
      BY <1>5, <2>4, SteadyFrame
    <3>2. chain' \in DOMAIN Chains
      BY <1>0, <3>1 DEF change_chain
    <3> QED BY <1>0, <2>2, <3>1, <3>2, GeneratorEnds
  <2> QED BY <2>3, <2>4
<1>6. CASE UNCHANGED vars
  BY <1>1, <1>6 DEF vars, bootstrap_vars, build_vars
<1>7. CASE BuildNext /\ ~from_reader
  BY <1>1, <1>7, BuilderFrame
<1> QED BY <1>2, <1>3, <1>4, <1>5, <1>6, <1>7 DEF Next, BootstrapNext

LEMMA GeneratorInitial ==
    ASSUME Init PROVE GeneratorInv
<1>1. /\ chain \in DOMAIN Chains /\ files = [output |-> Absent, temporary |-> Absent] /\ disk = {files}
      /\ gen = "idle"
  BY DEF Init, BootstrapInit, GeneratorInit
<1>2. IsPair(files) /\ files.output = Absent
  BY <1>1 DEF IsPair
<1> QED BY <1>1, <1>2 DEF GeneratorInv

\* What is under the name of the hints file is never a part of it, whatever was killed, failed or
\* lost between the creation of the temporary file and its rename, and it names exactly the leaves
\* of a chain that are unspent at its stop height (apply_block, write_hints_file).
THEOREM HintsExact == Spec => []HintsAreUtxos
<1>1. GeneratorInv => HintsAreUtxos
  BY DEF GeneratorInv, HintsAreUtxos
<1> QED BY <1>1, GeneratorInitial, GeneratorKept, PTL DEF Spec

---------------------------------------------------------------------------
(* Chunks of parents *)

LEMMA Divide ==
    ASSUME NEW a \in Nat, NEW b \in Nat \ {0}
    PROVE  /\ a \div b \in Nat /\ a % b \in 0 .. b - 1
           /\ b * (a \div b) <= a /\ a < b * (a \div b) + b
           /\ a = b * (a \div b) + (a % b)
  OBVIOUS

\* The last chunk starts before the end, and whole batches fit.
LEMMA ChunkCount ==
    ASSUME NEW total \in Nat \ {0}
    PROVE  /\ deterministic_chunk_count(total) \in Nat \ {0}
           /\ deterministic_chunk_count(total) > 1 => deterministic_chunk_count(total) * ParentBatch <= total
<1>1. ParentBatch \in Nat \ {0}
  BY BuildAssumption
<1>2. total \div ParentBatch \in Nat /\ ParentBatch * (total \div ParentBatch) <= total
  BY <1>1, Divide
<1> QED BY <1>1, <1>2 DEF deterministic_chunk_count

LEMMA ChunkBounds ==
    ASSUME NEW total \in Nat \ {0}, NEW k \in 0 .. deterministic_chunk_count(total) - 1
    PROVE  /\ deterministic_chunk(total, k).first \in Nat /\ deterministic_chunk(total, k).end \in Nat
           /\ deterministic_chunk(total, k).first < deterministic_chunk(total, k).end
           /\ deterministic_chunk(total, k).end <= total
<1> DEFINE B == ParentBatch
           n == deterministic_chunk_count(total)
<1>1. B \in Nat \ {0} /\ n \in Nat \ {0} /\ (n > 1 => n * B <= total)
  BY ChunkCount, BuildAssumption
<1> HIDE DEF n
<1>2. k \in Nat /\ k < n
  BY <1>1 DEF n
<1>3. /\ deterministic_chunk(total, k).first = k * B
      /\ deterministic_chunk(total, k).end = IF k + 1 = n THEN total ELSE (k + 1) * B
  BY DEF deterministic_chunk, n
<1> HIDE DEF B
<1>4. k * B \in Nat /\ (k + 1) * B = k * B + B
  BY <1>1, <1>2
<1>5. CASE k + 1 = n
  <2>1. k * B < total
    <3>1. CASE n > 1
      BY <1>1, <1>4, <1>5, <3>1
    <3>2. CASE n = 1
      <4>1. k = 0
        BY <1>2, <1>5, <3>2
      <4> QED BY <1>1, <4>1
    <3> QED BY <1>1, <3>1, <3>2
  <2> QED BY <1>3, <1>4, <1>5, <2>1
<1>6. CASE k + 1 # n
  <2>1. k + 1 < n /\ n > 1
    BY <1>1, <1>2, <1>6
  <2>2. (k + 1) * B <= n * B
    <3>1. PICK d \in Nat : n = (k + 1) + d
      <4>1. n - (k + 1) \in Nat /\ n = (k + 1) + (n - (k + 1))
        BY <1>1, <1>2, <2>1
      <4> QED BY <4>1
    <3>2. n * B = (k + 1) * B + d * B /\ d * B \in Nat /\ (k + 1) * B \in Nat
      BY <1>1, <1>2, <3>1
    <3> QED BY <3>2
  <2> QED BY <1>1, <1>3, <1>4, <1>6, <2>1, <2>2
<1> QED BY <1>5, <1>6

\* A chunk ends before a later one starts.
LEMMA ChunksApart ==
    ASSUME NEW total \in Nat \ {0}, NEW k \in 0 .. deterministic_chunk_count(total) - 1,
           NEW l \in 0 .. deterministic_chunk_count(total) - 1, k < l
    PROVE  deterministic_chunk(total, k).end <= deterministic_chunk(total, l).first
<1> DEFINE B == ParentBatch
           n == deterministic_chunk_count(total)
<1>1. B \in Nat \ {0} /\ n \in Nat \ {0}
  BY ChunkCount, BuildAssumption
<1>2. k \in Nat /\ l \in Nat /\ l < n /\ k + 1 # n
  BY <1>1
<1>3. deterministic_chunk(total, k).end = (k + 1) * B /\ deterministic_chunk(total, l).first = l * B
  BY <1>2 DEF deterministic_chunk
<1> HIDE DEF B, n
<1>4. PICK d \in Nat : l = (k + 1) + d
  <2>1. l - (k + 1) \in Nat /\ l = (k + 1) + (l - (k + 1))
    BY <1>2
  <2> QED BY <2>1
<1>5. l * B = (k + 1) * B + d * B /\ d * B \in Nat /\ (k + 1) * B \in Nat
  BY <1>1, <1>2, <1>4
<1> QED BY <1>3, <1>5

\* The chunks are dealt to the chasers in turn.
LEMMA DealtInTurn ==
    ASSUME NEW n \in Nat \ {0}, NEW k \in Nat
    PROVE  /\ k < n => k % n = k
           /\ (k + n) % n = k % n
<1> DEFINE q == k \div n
           r == k % n
<1>1. q \in Nat /\ r \in 0 .. n - 1 /\ k = n * q + r
  BY Divide
<1> HIDE DEF q, r
<1>2. k + n = n * (q + 1) + r
  BY <1>1
<1>3. (k + n) \div n = q + 1
  BY <1>1, <1>2, Quotient
<1>4. k + n = n * ((k + n) \div n) + ((k + n) % n)
  BY Divide
<1>5. (k + n) % n = r
  <2>1. (k + n) % n \in Int
    BY Divide
  <2>2. k + n = n * (q + 1) + ((k + n) % n)
    BY <1>3, <1>4
  <2>3. n * (q + 1) \in Nat
    BY <1>1
  <2> QED BY <1>1, <1>2, <2>1, <2>2, <2>3
<1>6. k < n => k % n = k
  OBVIOUS
<1> QED BY <1>5, <1>6 DEF r

---------------------------------------------------------------------------
(* Layout *)

\* The recursion that sums the counts has a solution.
LEMMA SumsExist ==
    ASSUME NEW N \in Nat, NEW counts \in [1 .. N -> Nat]
    PROVE  \E f \in [1 .. N + 1 -> Nat] :
              f = [h \in 1 .. N + 1 |-> IF h = 1 THEN 0 ELSE f[h - 1] + counts[h - 1]]
<1> DEFINE Good(f, k) == /\ f \in [1 .. N + 1 -> Nat]
                         /\ \A h \in 1 .. k + 1 : f[h] = IF h = 1 THEN 0 ELSE f[h - 1] + counts[h - 1]
           S == {k \in 0 .. N : \E f : Good(f, k)}
<1>1. 0 \in S
  <2>1. Good([h \in 1 .. N + 1 |-> 0], 0)
    OBVIOUS
  <2> HIDE DEF Good
  <2>2. \E f : Good(f, 0)
    BY <2>1
  <2> QED BY <2>2
<1>2. ASSUME NEW k \in S, k < N PROVE k + 1 \in S
  <2>1. PICK f : Good(f, k)
    OBVIOUS
  <2> DEFINE g == [h \in 1 .. N + 1 |-> IF h = k + 2 THEN f[k + 1] + counts[k + 1] ELSE f[h]]
  <2>0. k \in Nat /\ k + 1 \in 1 .. N /\ k + 1 \in 1 .. N + 1 /\ k + 2 \in 1 .. N + 1
    BY <1>2
  <2>2. g \in [1 .. N + 1 -> Nat]
    BY <2>0, <2>1
  <2>3. ASSUME NEW h \in 1 .. (k + 1) + 1 PROVE g[h] = IF h = 1 THEN 0 ELSE g[h - 1] + counts[h - 1]
    <3>1. CASE h = k + 2
      <4>1. h - 1 = k + 1 /\ h # 1 /\ g[k + 2] = f[k + 1] + counts[k + 1] /\ g[k + 1] = f[k + 1]
        BY <2>0, <3>1
      <4> QED BY <3>1, <4>1
    <3>2. CASE h # k + 2
      <4>1. h \in 1 .. k + 1 /\ h \in 1 .. N + 1 /\ (h # 1 => h - 1 \in 1 .. N + 1 /\ h - 1 # k + 2)
        BY <2>0, <3>2
      <4>2. g[h] = f[h] /\ (h # 1 => g[h - 1] = f[h - 1])
        BY <3>2, <4>1
      <4> QED BY <2>1, <4>1, <4>2
    <3> QED BY <3>1, <3>2
  <2>4. Good(g, k + 1)
    BY <2>2, <2>3
  <2> HIDE DEF Good, g
  <2>5. \E f0 : Good(f0, k + 1)
    BY <2>4
  <2> QED BY <2>0, <2>5
<1>3. N \in S
  <2>0. S \in SUBSET Nat
    OBVIOUS
  <2> HIDE DEF S
  <2>1. \A n \in S : n < N => n + 1 \in S
    BY <1>2
  <2>2. \A n \in 0 .. N : n \in S
    BY <1>1, <2>0, <2>1, UpTo
  <2> QED BY <2>2
<1>4. PICK f : Good(f, N)
  BY <1>3
<1>5. f = [h \in 1 .. N + 1 |-> IF h = 1 THEN 0 ELSE f[h - 1] + counts[h - 1]]
  BY <1>4
<1> QED BY <1>4, <1>5

\* The leaves before a height are those before the last one and those of it.
LEMMA SumDef ==
    ASSUME NEW N \in Nat, NEW counts \in [1 .. N -> Nat], Len(counts) = N
    PROVE  /\ \A h \in 1 .. N + 1 : LeavesBefore(counts)[h] \in Nat
           /\ \A h \in 1 .. N : LeavesBefore(counts)[h + 1] = LeavesBefore(counts)[h] + counts[h]
<1> DEFINE D(f) == [h \in 1 .. N + 1 |-> IF h = 1 THEN 0 ELSE f[h - 1] + counts[h - 1]]
           B == LeavesBefore(counts)
<1>1. PICK f \in [1 .. N + 1 -> Nat] : f = D(f)
  BY SumsExist
<1>2. B = CHOOSE g : g = D(g)
  BY DEF LeavesBefore
<1>3. B = D(B)
  <2> HIDE DEF D
  <2> QED BY <1>1, <1>2
<1> HIDE DEF B
<1>4. B[1] = 0 /\ \A h \in 1 .. N + 1 : h # 1 => B[h] = B[h - 1] + counts[h - 1]
  <2>1. D(B)[1] = 0 /\ \A h \in 1 .. N + 1 : h # 1 => D(B)[h] = B[h - 1] + counts[h - 1]
    OBVIOUS
  <2> HIDE DEF D
  <2> QED BY <1>3, <2>1, Zenon
<1>5. ASSUME NEW h \in 1 .. N PROVE B[h + 1] = B[h] + counts[h]
  <2>1. h + 1 \in 1 .. N + 1 /\ h + 1 # 1 /\ (h + 1) - 1 = h
    OBVIOUS
  <2> QED BY <1>4, <2>1
<1> DEFINE S == {n \in 0 .. N : B[n + 1] \in Nat}
<1>6. \A n \in 0 .. N : n \in S
  <2>1. S \in SUBSET Nat /\ 0 \in S
    BY <1>4
  <2>2. ASSUME NEW n \in S, n < N PROVE n + 1 \in S
    <3>1. n + 1 \in 1 .. N /\ counts[n + 1] \in Nat /\ n + 1 \in 0 .. N
      BY <2>2
    <3>2. B[(n + 1) + 1] = B[n + 1] + counts[n + 1]
      BY <1>5, <3>1
    <3> QED BY <3>1, <3>2
  <2> HIDE DEF S
  <2> QED BY <2>1, <2>2, UpTo
<1>7. ASSUME NEW h \in 1 .. N + 1 PROVE B[h] \in Nat
  <2>1. h - 1 \in 0 .. N /\ (h - 1) + 1 = h
    OBVIOUS
  <2> QED BY <1>6, <2>1
<1> QED BY <1>5, <1>7 DEF B

\* A file that can be built has a layout.
LEMMA LayoutLaid ==
    ASSUME hints \in AllHints, layout = Layout(hints.counts), Buildable
    PROVE  Laid
<1> DEFINE N == hints.stop
           capacity == layout.capacity
<1>1. N \in Nat \ {0} /\ hints.counts \in [1 .. N -> Nat] /\ Len(hints.counts) = N
  BY HintFacts
<1>2. /\ layout.offsets = LeavesBefore(hints.counts)
      /\ leaves = LeavesBefore(hints.counts)[N + 1]
      /\ capacity = IF LeafCapacity = 0 THEN leaves ELSE LeafCapacity
      /\ forest_rows = tree_rows(capacity)
  BY <1>1 DEF Layout, leaves, forest_rows
<1>3. /\ \A h \in 1 .. N + 1 : leaf_offset(h) \in Nat
      /\ \A h \in 1 .. N : leaf_offset(h + 1) = leaf_offset(h) + hints.counts[h]
  BY <1>1, <1>2, SumDef DEF leaf_offset
<1>4. leaves = leaf_offset(N + 1) /\ leaves \in Nat
  BY <1>1, <1>2, <1>3 DEF leaf_offset
<1>5. leaves > 0 /\ capacity >= leaves /\ 2 * capacity <= Pow2[MaxShift]
  BY DEF Buildable
<1>6. capacity \in Nat \ {0}
  BY <1>2, <1>4, <1>5, BuildAssumption
<1>7. MaxShift \in Nat /\ MaxShift # 0 /\ MaxShift - 1 \in Nat
  BY <1>5, <1>6, PowDef, ShiftAssumption
<1>8. capacity <= Pow2[MaxShift - 1]
  <2>1. Pow2[(MaxShift - 1) + 1] = 2 * Pow2[MaxShift - 1] /\ Pow2[MaxShift - 1] \in Nat
    BY <1>7, PowDef
  <2> QED BY <1>5, <1>6, <1>7, <2>1
<1>9. /\ tree_rows(capacity) \in Nat /\ tree_rows(capacity) <= MaxShift - 1
      /\ capacity <= Pow2[tree_rows(capacity)]
  BY <1>6, <1>7, <1>8, TreeRows
<1>10. Pow2[tree_rows(capacity)] \in Nat
  BY <1>7, <1>9, PowDef
<1>11. forest_rows \in Nat /\ forest_rows + 1 <= MaxShift /\ leaves <= Pow2[forest_rows]
  BY <1>2, <1>4, <1>5, <1>6, <1>7, <1>9, <1>10
<1>12. \A h \in 1 .. N : hints.counts[h] \in Nat
  BY <1>1
<1> QED BY <1>1, <1>3, <1>4, <1>11, <1>12 DEF Laid

\* A higher block's leaves come later.
LEMMA OffsetsGrow ==
    ASSUME Laid, NEW h \in 1 .. hints.stop + 1, NEW k \in 1 .. hints.stop + 1, h <= k
    PROVE  leaf_offset(h) <= leaf_offset(k)
<1> DEFINE S == {n \in 0 .. k - h : leaf_offset(h) <= leaf_offset(h + n)}
<1>1. hints.stop \in Nat /\ k - h \in Nat
  BY DEF Laid
<1>2. S \in SUBSET Nat /\ 0 \in S
  BY <1>1 DEF Laid
<1>3. ASSUME NEW n \in S, n < k - h PROVE n + 1 \in S
  <2>1. h + n \in 1 .. hints.stop /\ h + (n + 1) = (h + n) + 1 /\ n + 1 \in 0 .. k - h
        /\ h + n \in 1 .. hints.stop + 1 /\ h \in 1 .. hints.stop + 1
    BY <1>1, <1>3
  <2>2. /\ leaf_offset((h + n) + 1) = leaf_offset(h + n) + hints.counts[h + n]
        /\ hints.counts[h + n] \in Nat /\ leaf_offset(h + n) \in Nat /\ leaf_offset(h) \in Nat
    BY <2>1 DEF Laid
  <2>3. leaf_offset(h) <= leaf_offset(h + n)
    OBVIOUS
  <2>4. leaf_offset(h) <= leaf_offset(h + (n + 1))
    BY <2>1, <2>2, <2>3
  <2> QED BY <2>1, <2>4
<1>4. \A n \in 0 .. k - h : n \in S
  <2> HIDE DEF S
  <2> QED BY <1>1, <1>2, <1>3, UpTo
<1>5. k - h \in 0 .. k - h /\ h + (k - h) = k
  BY <1>1
<1>6. k - h \in S
  BY <1>4, <1>5
<1> QED BY <1>5, <1>6

\* Each leaf has a position of its own, among the leaves.
LEMMA LeavesApart ==
    ASSUME Laid, NEW h \in 1 .. hints.stop, NEW i \in 0 .. hints.counts[h] - 1
    PROVE  /\ leaf_offset(h) + i \in 0 .. leaves - 1
           /\ \A k \in 1 .. hints.stop : \A j \in 0 .. hints.counts[k] - 1 :
                 leaf_offset(h) + i = leaf_offset(k) + j => h = k /\ i = j
<1>1. /\ hints.stop \in Nat /\ hints.stop + 1 \in 1 .. hints.stop + 1
      /\ \A k \in 1 .. hints.stop : k \in 1 .. hints.stop + 1 /\ k + 1 \in 1 .. hints.stop + 1
      /\ leaves \in Nat /\ leaves = leaf_offset(hints.stop + 1)
  BY DEF Laid
<1>2. \A k \in 1 .. hints.stop : /\ leaf_offset(k) \in Nat /\ hints.counts[k] \in Nat
                                 /\ leaf_offset(k + 1) = leaf_offset(k) + hints.counts[k]
  BY <1>1 DEF Laid
<1>3. leaf_offset(h + 1) <= leaves
  <2>1. h + 1 <= hints.stop + 1
    BY <1>1
  <2> QED BY <1>1, <2>1, OffsetsGrow
<1>4. leaf_offset(h) + i \in 0 .. leaves - 1
  BY <1>1, <1>2, <1>3
<1>5. ASSUME NEW k \in 1 .. hints.stop, NEW j \in 0 .. hints.counts[k] - 1,
             leaf_offset(h) + i = leaf_offset(k) + j
      PROVE  h = k /\ i = j
  <2>1. CASE h < k
    <3>1. leaf_offset(h + 1) <= leaf_offset(k)
      <4>1. h + 1 <= k
        BY <2>1
      <4> QED BY <1>1, <4>1, OffsetsGrow
    <3> QED BY <1>2, <1>5, <3>1
  <2>2. CASE k < h
    <3>1. leaf_offset(k + 1) <= leaf_offset(h)
      <4>1. k + 1 <= h
        BY <2>2
      <4> QED BY <1>1, <4>1, OffsetsGrow
    <3> QED BY <1>2, <1>5, <3>1
  <2>3. CASE h = k
    BY <1>2, <1>5, <2>3
  <2> QED BY <2>1, <2>2, <2>3
<1> QED BY <1>4, <1>5

---------------------------------------------------------------------------
(* Parents *)

LEMMA ParentCounts ==
    ASSUME Laid, NEW r \in 0 .. forest_rows - 1
    PROVE  /\ parent_count(r) \in Nat /\ r + 1 \in 0 .. forest_rows /\ forest_rows - (r + 1) \in Nat
           /\ Pow2[forest_rows - (r + 1)] \in Nat
           /\ parent_count(r) <= Pow2[forest_rows - (r + 1)]
<1> DEFINE R == forest_rows
           P == Pow2[r]
           Q == Pow2[R - r]
           H == Pow2[R - (r + 1)]
<1>1. /\ R \in Nat /\ R + 1 <= MaxShift /\ leaves \in Nat /\ leaves <= Pow2[R] /\ MaxShift \in Nat
  BY ShiftAssumption DEF Laid
<1> HIDE DEF R
<1>2. /\ r \in Nat /\ r + 1 \in 0 .. R /\ R - (r + 1) \in Nat /\ R - r \in Nat
      /\ (R - (r + 1)) + 1 = R - r /\ r + (R - r) = R /\ r \in 0 .. MaxShift /\ R - r \in 0 .. MaxShift
      /\ R - (r + 1) \in 0 .. MaxShift
  BY <1>1 DEF R
<1>3. P \in Nat /\ Q \in Nat /\ H \in Nat /\ 1 <= P /\ Q = 2 * H /\ Pow2[R] = P * Q
  <2>1. P \in Nat /\ Q \in Nat /\ H \in Nat
    BY <1>2, PowDef
  <2>2. 1 <= P
    BY <1>1, <1>2, PowGrows
  <2>3. Q = 2 * H
    BY <1>1, <1>2, PowDef
  <2>4. Pow2[R] = P * Q
    BY <1>1, <1>2, PowSplit
  <2> QED BY <2>1, <2>2, <2>3, <2>4
<1> DEFINE m == leaves \div P
<1>4. m \in Nat /\ P * m <= leaves
  <2>1. P \in Nat \ {0} /\ leaves \in Nat
    BY <1>1, <1>3
  <2> HIDE DEF P
  <2> QED BY <2>1, Divide
<1>5. parent_count(r) = m \div 2
  BY DEF parent_count
<1> HIDE DEF P, Q, H, m
<1>6. m <= Q
  <2>1. SUFFICES ASSUME m > Q PROVE FALSE
    BY <1>3, <1>4
  <2>2. P * m >= P * (Q + 1)
    <3>1. PICK d \in Nat : m = (Q + 1) + d
      <4>1. m - (Q + 1) \in Nat /\ m = (Q + 1) + (m - (Q + 1))
        BY <1>3, <1>4, <2>1
      <4> QED BY <4>1
    <3>2. P * m = P * (Q + 1) + P * d /\ P * d \in Nat /\ P * (Q + 1) \in Nat
      BY <1>3, <3>1
    <3> QED BY <3>2
  <2>3. P * (Q + 1) = P * Q + P /\ P * Q \in Nat
    BY <1>3
  <2> QED BY <1>1, <1>3, <1>4, <2>2, <2>3
<1>7. m \div 2 \in Nat /\ m \div 2 <= H
  BY <1>3, <1>4, <1>6
<1> QED BY <1>2, <1>3, <1>5, <1>7 DEF R, H

\* Parents are in the file, above the leaves.
LEMMA ParentPlaces ==
    ASSUME Laid, NEW r \in 0 .. forest_rows - 1, NEW q \in 0 .. parent_count(r) - 1
    PROVE  /\ ParentAt(r, q) \in 0 .. forest_capacity(forest_rows) - 1
           /\ q < Pow2[forest_rows - (r + 1)]
           /\ leaves <= ParentAt(r, q)
<1> DEFINE R == forest_rows
           P == Pow2[R - (r + 1)]
           s == start_position_at_row(r + 1, R)
<1>1. R \in Nat /\ R + 1 <= MaxShift /\ leaves \in Nat /\ leaves <= Pow2[R]
  BY DEF Laid
<1>2. parent_count(r) \in Nat /\ r + 1 \in 0 .. R /\ parent_count(r) <= P /\ P \in Nat
  BY ParentCounts
<1>3. q \in Nat /\ q < P
  BY <1>2
<1> HIDE DEF R
<1>4. 1 <= P /\ s \in Nat /\ s + 2 * P = Pow2[R + 1] /\ Pow2[R + 1] \in Nat
  BY <1>1, <1>2, RowBounds
<1>5. Pow2[R] <= s
  <2>1. start_position_at_row(0, R) = 0 /\ R - 0 = R
    BY <1>1, LeafRow
  <2>2. 0 \in 0 .. R /\ 0 < r + 1
    BY <1>1, <1>2 DEF R
  <2>3. start_position_at_row(0, R) + Pow2[R - 0] <= s
    BY <1>1, <1>2, <2>2, RowsApart
  <2>4. Pow2[R] \in Nat
    BY <1>1, PowGrows
  <2> QED BY <2>1, <2>3, <2>4
<1>6. ParentAt(r, q) = s + q /\ forest_capacity(R) = Pow2[R + 1] - 1
  BY DEF ParentAt, forest_capacity, R
<1>7. Pow2[R] \in Nat
  BY <1>1, PowGrows
<1> HIDE DEF P, s
<1>8. ParentAt(r, q) \in 0 .. forest_capacity(R) - 1 /\ leaves <= ParentAt(r, q)
  BY <1>1, <1>2, <1>3, <1>4, <1>5, <1>6, <1>7
<1> QED BY <1>3, <1>8 DEF R, P

\* Each parent has a position of its own.
LEMMA ParentsApart ==
    ASSUME Laid, NEW r \in 0 .. forest_rows - 1, NEW q \in 0 .. parent_count(r) - 1,
           NEW t \in 0 .. forest_rows - 1, NEW p \in 0 .. parent_count(t) - 1,
           ParentAt(r, q) = ParentAt(t, p)
    PROVE  r = t /\ q = p
<1>1. forest_rows \in Nat /\ forest_rows + 1 <= MaxShift
  BY DEF Laid
<1>2. /\ q < Pow2[forest_rows - (r + 1)] /\ p < Pow2[forest_rows - (t + 1)]
      /\ r + 1 \in 0 .. forest_rows /\ t + 1 \in 0 .. forest_rows
      /\ q \in Nat /\ p \in Nat
  BY ParentPlaces, ParentCounts
<1>3. start_position_at_row(r + 1, forest_rows) + q = start_position_at_row(t + 1, forest_rows) + p
  BY DEF ParentAt
<1>4. r + 1 = t + 1 /\ q = p
  BY <1>1, <1>2, <1>3, PositionsApart
<1> QED BY <1>1, <1>4

\* A task is a parent of the row, and one chaser's only.
LEMMA TaskOwner ==
    ASSUME Laid, NEW r \in 0 .. forest_rows - 1, NEW q \in Nat, NEW c, Task(c, r, q)
    PROVE  /\ q \in 0 .. parent_count(r) - 1
           /\ \A d : Task(d, r, q) => c = d
<1> DEFINE total == parent_count(r)
           n == deterministic_chunk_count(total)
           first(k) == deterministic_chunk(total, k).first
           end(k) == deterministic_chunk(total, k).end
<1>1. PICK k \in 0 .. n - 1 : Dealt(c, r, k) /\ InChunk(r, k, q)
  BY DEF Task
<1>2. total \in Nat \ {0}
  BY <1>1, ParentCounts DEF Dealt
<1>3. first(k) <= q /\ q < end(k) /\ k % Cardinality(ChaserWorkers) = c
  BY <1>1 DEF InChunk, Dealt
<1>4. q < total
  BY <1>1, <1>2, <1>3, ChunkBounds
<1>5. ASSUME NEW d, Task(d, r, q) PROVE c = d
  <2>1. PICK l \in 0 .. n - 1 : Dealt(d, r, l) /\ InChunk(r, l, q)
    BY <1>5 DEF Task
  <2>2. first(l) <= q /\ q < end(l) /\ l % Cardinality(ChaserWorkers) = d
    BY <2>1 DEF InChunk, Dealt
  <2>3. first(l) \in Nat /\ end(l) \in Nat /\ first(k) \in Nat /\ end(k) \in Nat /\ n \in Nat
    BY <1>1, <1>2, <2>1, ChunkBounds, ChunkCount
  <2>4. ~(k < l)
    <3>1. SUFFICES ASSUME k < l PROVE FALSE
      OBVIOUS
    <3>2. end(k) <= first(l)
      BY <1>1, <1>2, <2>1, <3>1, ChunksApart
    <3> HIDE DEF first, end
    <3> QED BY <1>3, <2>2, <2>3, <3>2
  <2>5. ~(l < k)
    <3>1. SUFFICES ASSUME l < k PROVE FALSE
      OBVIOUS
    <3>2. end(l) <= first(k)
      BY <1>1, <1>2, <2>1, <3>1, ChunksApart
    <3> HIDE DEF first, end
    <3> QED BY <1>3, <2>2, <2>3, <3>2
  <2>6. k = l
    BY <1>1, <2>1, <2>3, <2>4, <2>5
  <2> QED BY <1>3, <2>2, <2>6
<1> QED BY <1>2, <1>4, <1>5

\* A chaser is at a task of its own.
LEMMA ChasingTask ==
    ASSUME Laid, NEW c, NEW k, Chasing(k, c)
    PROVE  /\ k.row \in 0 .. forest_rows - 1 /\ k.parent \in 0 .. parent_count(k.row) - 1
           /\ Task(c, k.row, k.parent)
<1>1. /\ k.row \in 0 .. forest_rows - 1 /\ k.parent \in Nat
      /\ Dealt(c, k.row, k.chunk) /\ InChunk(k.row, k.chunk, k.parent)
  BY DEF Chasing
<1>2. Task(c, k.row, k.parent)
  BY <1>1 DEF Task, Dealt
<1> QED BY <1>1, <1>2, TaskOwner

\* The first task of a chaser from a row on.
LEMMA SeekChases ==
    ASSUME Laid, NEW c \in ChaserWorkers, NEW row \in Nat
    PROVE  /\ DOMAIN Seek(c, row) = DOMAIN IdleChaser
           /\ Seek(c, row).pc = "run" => Chasing(Seek(c, row), c) /\ Seek(c, row).row >= row
<1> DEFINE rs == {r \in row .. forest_rows - 1 :
                     /\ parent_count(r) > 0
                     /\ c < deterministic_chunk_count(parent_count(r))}
           r0 == CHOOSE q \in rs : \A o \in rs : q <= o
           total == parent_count(r0)
<1>0. forest_rows \in Nat /\ c \in Nat /\ c < Cardinality(ChaserWorkers) /\ Cardinality(ChaserWorkers) \in Nat \ {0}
  BY BuildAssumption, SMTT(30) DEF Laid
<1>1. CASE rs = {}
  <2>1. Seek(c, row) = [IdleChaser EXCEPT !.pc = "ended"]
    BY <1>1 DEF Seek
  <2>2. DOMAIN Seek(c, row) = DOMAIN IdleChaser /\ Seek(c, row).pc = "ended"
    BY <2>1 DEF IdleChaser
  <2> QED BY <2>2
<1>2. CASE rs # {}
  <2>1. r0 \in rs
    <3>1. rs \in SUBSET Nat
      BY <1>0
    <3> HIDE DEF rs
    <3>2. \E q \in rs : \A o \in rs : q <= o
      BY <1>2, <3>1, LeastNatural
    <3> QED BY <3>2
  <2>2. Seek(c, row) = [IdleChaser EXCEPT !.row = r0, !.chunk = c,
                                          !.parent = deterministic_chunk(total, c).first]
    BY <1>2 DEF Seek
  <2> HIDE DEF r0
  <2>3. /\ DOMAIN Seek(c, row) = DOMAIN IdleChaser
        /\ Seek(c, row).row = r0 /\ Seek(c, row).chunk = c
        /\ Seek(c, row).parent = deterministic_chunk(total, c).first
    BY <2>2 DEF IdleChaser
  <2>4. r0 \in 0 .. forest_rows - 1 /\ r0 >= row /\ total > 0 /\ c < deterministic_chunk_count(total)
    BY <1>0, <2>1
  <2>5. total \in Nat \ {0}
    BY <2>4, ParentCounts
  <2>6. c \in 0 .. deterministic_chunk_count(total) - 1
    BY <1>0, <2>4, <2>5, ChunkCount
  <2>7. /\ deterministic_chunk(total, c).first \in Nat
        /\ deterministic_chunk(total, c).first < deterministic_chunk(total, c).end
    BY <2>5, <2>6, ChunkBounds
  <2>8. Dealt(c, r0, c)
    BY <1>0, <2>4, <2>6, DealtInTurn DEF Dealt
  <2>9. InChunk(r0, c, deterministic_chunk(total, c).first)
    BY <2>7 DEF InChunk
  <2>10. Chasing(Seek(c, row), c)
    BY <2>3, <2>4, <2>7, <2>8, <2>9 DEF Chasing
  <2> QED BY <2>3, <2>4, <2>10
<1> QED BY <1>1, <1>2

\* After a parent, a chaser goes on to a later task of its own.
LEMMA AfterChases ==
    ASSUME Laid, NEW c \in ChaserWorkers, chaser[c].pc = "run", Chasing(chaser[c], c),
           DOMAIN chaser[c] = DOMAIN IdleChaser
    PROVE  /\ DOMAIN After(c) = DOMAIN IdleChaser
           /\ After(c).pc = "run" =>
                 /\ Chasing(After(c), c)
                 /\ \/ After(c).row > chaser[c].row
                    \/ After(c).row = chaser[c].row /\ After(c).parent > chaser[c].parent
<1> DEFINE k == chaser[c]
           total == parent_count(k.row)
           n == Cardinality(ChaserWorkers)
           chunks == deterministic_chunk_count(total)
           next == k.chunk + n
<1>0. n \in Nat \ {0}
  BY BuildAssumption
<1>1. /\ k.row \in 0 .. forest_rows - 1 /\ k.parent \in Nat
      /\ k.chunk \in 0 .. chunks - 1 /\ k.chunk % n = c /\ total > 0
      /\ deterministic_chunk(total, k.chunk).first <= k.parent
      /\ k.parent < deterministic_chunk(total, k.chunk).end
  BY DEF Chasing, Dealt, InChunk
<1>2. total \in Nat \ {0} /\ k.row \in Nat
  BY <1>1, ParentCounts DEF Laid
<1>3. chunks \in Nat \ {0}
  BY <1>2, ChunkCount
<1>4. /\ deterministic_chunk(total, k.chunk).first \in Nat
      /\ deterministic_chunk(total, k.chunk).end \in Nat
  BY <1>1, <1>2, ChunkBounds
<1>5. CASE k.parent + 1 < deterministic_chunk(total, k.chunk).end
  <2>1. After(c) = [k EXCEPT !.parent = @ + 1, !.child = "left"]
    BY <1>5 DEF After
  <2>2. /\ DOMAIN After(c) = DOMAIN IdleChaser
        /\ After(c).row = k.row /\ After(c).chunk = k.chunk /\ After(c).parent = k.parent + 1
    BY <2>1 DEF IdleChaser
  <2>3. Dealt(c, k.row, k.chunk)
    BY DEF Chasing
  <2>4. InChunk(k.row, k.chunk, k.parent + 1)
    BY <1>1, <1>4, <1>5 DEF InChunk
  <2>5. Chasing(After(c), c)
    BY <1>1, <2>2, <2>3, <2>4 DEF Chasing
  <2> QED BY <1>1, <2>2, <2>5
<1>6. CASE ~(k.parent + 1 < deterministic_chunk(total, k.chunk).end) /\ next < chunks
  <2>1. After(c) = [k EXCEPT !.chunk = next, !.parent = deterministic_chunk(total, next).first,
                             !.child = "last"]
    BY <1>6 DEF After
  <2>2. /\ DOMAIN After(c) = DOMAIN IdleChaser
        /\ After(c).row = k.row /\ After(c).chunk = next
        /\ After(c).parent = deterministic_chunk(total, next).first
    BY <2>1 DEF IdleChaser
  <2>3. next \in 0 .. chunks - 1 /\ k.chunk < next /\ k.chunk \in Nat
    BY <1>0, <1>1, <1>3, <1>6
  <2>4. /\ deterministic_chunk(total, next).first \in Nat
        /\ deterministic_chunk(total, next).first < deterministic_chunk(total, next).end
        /\ deterministic_chunk(total, k.chunk).end <= deterministic_chunk(total, next).first
    BY <1>1, <1>2, <2>3, ChunkBounds, ChunksApart
  <2>5. next % n = c
    BY <1>0, <1>1, <2>3, DealtInTurn
  <2>6. Dealt(c, k.row, next) /\ InChunk(k.row, next, After(c).parent)
    BY <1>1, <2>2, <2>3, <2>4, <2>5 DEF Dealt, InChunk
  <2>7. Chasing(After(c), c)
    BY <1>1, <2>2, <2>4, <2>6 DEF Chasing
  <2>8. After(c).parent > k.parent
    <3> DEFINE e == deterministic_chunk(total, k.chunk).end
               f == deterministic_chunk(total, next).first
    <3>1. e \in Nat /\ f \in Nat /\ e <= f /\ k.parent < e /\ k.parent \in Nat /\ After(c).parent = f
      BY <1>1, <1>4, <2>2, <2>4
    <3> HIDE DEF e, f
    <3> QED BY <3>1
  <2> QED BY <2>2, <2>7, <2>8
<1>7. CASE ~(k.parent + 1 < deterministic_chunk(total, k.chunk).end) /\ ~(next < chunks)
  <2>1. After(c) = Seek(c, k.row + 1)
    BY <1>7 DEF After
  <2>2. k.row + 1 \in Nat
    BY <1>2
  <2>3. /\ DOMAIN After(c) = DOMAIN IdleChaser
        /\ After(c).pc = "run" => Chasing(After(c), c) /\ After(c).row >= k.row + 1
    BY <2>1, <2>2, SeekChases
  <2>4. ASSUME After(c).pc = "run" PROVE After(c).row > k.row
    <3>1. After(c).row >= k.row + 1 /\ After(c).row \in 0 .. forest_rows - 1
      BY <2>3, <2>4 DEF Chasing
    <3>2. forest_rows \in Nat
      BY DEF Laid
    <3> QED BY <1>2, <3>1, <3>2
  <2> QED BY <2>3, <2>4
<1> QED BY <1>5, <1>6, <1>7

---------------------------------------------------------------------------
(* Steps of the threads *)

\* Nothing that a thread does changes the layout.
LEMMA LayoutFrame ==
    ASSUME UNCHANGED <<chain, hints, layout>>
    PROVE  /\ (Laid' <=> Laid) /\ (SameCounts' <=> SameCounts)
           /\ forest_rows' = forest_rows /\ leaves' = leaves
           /\ \A h : leaf_offset(h)' = leaf_offset(h)
           /\ \A r : parent_count(r)' = parent_count(r)
           /\ \A r, q : ParentAt(r, q)' = ParentAt(r, q)
           /\ \A c, r, q : Task(c, r, q)' <=> Task(c, r, q)
           /\ \A k, c : Chasing(k, c)' <=> Chasing(k, c)
<1>1. forest_rows' = forest_rows /\ leaves' = leaves /\ \A h : leaf_offset(h)' = leaf_offset(h)
  BY DEF forest_rows, leaves, leaf_offset
<1>2. \A r : parent_count(r)' = parent_count(r)
  BY <1>1 DEF parent_count
<1>3. \A r, q : ParentAt(r, q)' = ParentAt(r, q)
  BY <1>1 DEF ParentAt
<1>4. \A r, k, q : InChunk(r, k, q)' <=> InChunk(r, k, q)
  BY <1>2 DEF InChunk
<1>5. \A c, r, k : Dealt(c, r, k)' <=> Dealt(c, r, k)
  BY <1>2 DEF Dealt
<1>6. \A c, r, q : Task(c, r, q)' <=> Task(c, r, q)
  BY <1>2, <1>4, <1>5 DEF Task
<1>7. \A k, c : Chasing(k, c)' <=> Chasing(k, c)
  BY <1>1, <1>4, <1>5 DEF Chasing
<1>8. Laid' <=> Laid
  BY <1>1 DEF Laid
<1>9. SameCounts' <=> SameCounts
  BY DEF SameCounts
<1> QED BY <1>1, <1>2, <1>3, <1>6, <1>7, <1>8, <1>9

\* A worker that goes nowhere has the same leaves ahead.
LEMMA LeavesKept ==
    ASSUME Laid, LeavesLeft, UNCHANGED <<chain, hints, layout, next_chunk>>,
           \A w \in LeafWorkers : leaf'[w].pc = "fill" =>
              /\ leaf[w].pc = "fill" /\ leaf'[w].height = leaf[w].height
              /\ leaf'[w].end = leaf[w].end /\ leaf'[w].local = leaf[w].local,
           \A p \in 0 .. leaves - 1 : nodes'[p] = nodes[p]
    PROVE  LeavesLeft'
<1>1. \A w \in LeafWorkers : Filling(w)' => Filling(w)
  BY DEF Filling
<1>2. \A w \in LeafWorkers : Filling(w)' =>
         /\ leaf'[w].height = leaf[w].height /\ leaf'[w].end = leaf[w].end /\ leaf'[w].local = leaf[w].local
  BY DEF Filling
<1>3. \A w \in LeafWorkers : \A h, i : Filling(w)' => (Ahead(w, h, i)' <=> Ahead(w, h, i))
  BY <1>2 DEF Ahead
<1>4. \A h \in 1 .. hints.stop : \A i \in 0 .. hints.counts[h] - 1 :
         nodes'[leaf_offset(h) + i] = nodes[leaf_offset(h) + i]
  BY LeavesApart
<1>5. \A h : leaf_offset(h)' = leaf_offset(h)
  BY LayoutFrame
<1>6. \A w \in LeafWorkers : Filling(w)' =>
          /\ leaf'[w].height \in 1 .. hints'.stop /\ leaf'[w].end \in leaf'[w].height .. hints'.stop
          /\ leaf'[w].end <= next_chunk' * HeightChunk
          /\ leaf'[w].local \in Nat
  BY <1>1, <1>2 DEF LeavesLeft
<1>7. \A w, v \in LeafWorkers : Filling(w)' /\ Filling(v)' /\ w # v =>
          leaf'[w].end < leaf'[v].height \/ leaf'[v].end < leaf'[w].height
  BY <1>1, <1>2 DEF LeavesLeft
<1>8. \A h \in 1 .. hints'.stop : \A i \in 0 .. hints'.counts[h] - 1 :
          /\ h > next_chunk' * HeightChunk => nodes'[leaf_offset(h)' + i] = Unset
          /\ \A w \in LeafWorkers : Filling(w)' /\ Ahead(w, h, i)' => nodes'[leaf_offset(h)' + i] = Unset
  BY <1>1, <1>3, <1>4, <1>5 DEF LeavesLeft
<1>9. next_chunk' \in Nat
  BY DEF LeavesLeft
<1> QED BY <1>6, <1>7, <1>8, <1>9 DEF LeavesLeft

\* A chaser that goes nowhere has the same parents above.
LEMMA ParentsKept ==
    ASSUME Laid, ParentsLeft, UNCHANGED <<chain, hints, layout>>,
           \A c \in ChaserWorkers : chaser'[c].pc = "run" =>
              /\ chaser[c].pc = "run" /\ chaser'[c].row = chaser[c].row
              /\ chaser'[c].chunk = chaser[c].chunk /\ chaser'[c].parent = chaser[c].parent,
           \A r \in 0 .. forest_rows - 1 : \A q \in 0 .. parent_count(r) - 1 :
              nodes'[ParentAt(r, q)] = nodes[ParentAt(r, q)]
    PROVE  ParentsLeft'
<1>1. SUFFICES ASSUME NEW c \in ChaserWorkers, chaser'[c].pc = "run"
               PROVE  /\ Chasing(chaser'[c], c)
                      /\ \A r \in 0 .. forest_rows - 1 : \A q \in 0 .. parent_count(r) - 1 :
                            Task(c, r, q) /\ Above(chaser'[c], r, q) => nodes'[ParentAt(r, q)] = Unset
  BY LayoutFrame DEF ParentsLeft
<1>2. /\ chaser[c].pc = "run" /\ chaser'[c].row = chaser[c].row
      /\ chaser'[c].chunk = chaser[c].chunk /\ chaser'[c].parent = chaser[c].parent
  BY <1>1
<1>3. Chasing(chaser'[c], c)
  BY <1>2 DEF ParentsLeft, Chasing
<1>4. \A r, q : Above(chaser'[c], r, q) <=> Above(chaser[c], r, q)
  BY <1>2 DEF Above
<1> QED BY <1>2, <1>3, <1>4 DEF ParentsLeft

\* What holds of the threads' records while they build.
Threads ==
    /\ DOMAIN leaf = LeafWorkers /\ \A w \in LeafWorkers : DOMAIN leaf[w] = DOMAIN IdleLeaf
    /\ DOMAIN chaser = ChaserWorkers /\ \A c \in ChaserWorkers : DOMAIN chaser[c] = DOMAIN IdleChaser

LEMMA BuildingStep ==
    ASSUME BuildInv, phase = "building", phase' = "building", UNCHANGED <<chain, hints, layout>>,
           DOMAIN nodes' = DOMAIN nodes, Threads',
           Laid /\ Threads /\ SameCounts /\ LeavesLeft /\ ParentsLeft => LeavesLeft' /\ ParentsLeft'
    PROVE  BuildInv'
<1>1. Laid' /\ (SameCounts' <=> SameCounts) /\ forest_rows' = forest_rows
  BY LayoutFrame DEF BuildInv
<1>2. SameCounts' => LeavesLeft' /\ ParentsLeft'
  BY <1>1 DEF BuildInv, Threads
<1>3. DOMAIN nodes' = 0 .. forest_capacity(forest_rows') - 1
  BY <1>1 DEF BuildInv
<1> QED BY <1>1, <1>2, <1>3 DEF BuildInv, Threads

\* Waking a chaser does not move it.
LEMMA WokenStays ==
    ASSUME Threads, NEW c \in ChaserWorkers
    PROVE  /\ DOMAIN Woken = ChaserWorkers /\ DOMAIN Woken[c] = DOMAIN IdleChaser
           /\ Woken[c].pc = chaser[c].pc /\ Woken[c].row = chaser[c].row
           /\ Woken[c].chunk = chaser[c].chunk /\ Woken[c].parent = chaser[c].parent
<1>1. DOMAIN chaser[c] = DOMAIN IdleChaser /\ Woken[c] = [chaser[c] EXCEPT !.parked = FALSE]
  BY DEF Threads, Woken
<1>2. DOMAIN Woken = ChaserWorkers
  BY DEF Woken
<1> QED BY <1>1, <1>2 DEF IdleChaser

\* A step in which one worker stops filling, and chasers at most wake.
LEMMA LeafRests ==
    ASSUME BuildInv, phase = "building", phase' = phase, NEW w \in LeafWorkers, NEW rest,
           UNCHANGED <<chain, hints, layout, next_chunk, nodes>>,
           leaf' = [leaf EXCEPT ![w] = rest], DOMAIN rest = DOMAIN IdleLeaf, rest.pc # "fill",
           chaser' = chaser \/ chaser' = Woken
    PROVE  BuildInv'
<1>1. Threads
  BY DEF BuildInv, Threads
<1>2. \A c \in ChaserWorkers : /\ DOMAIN chaser' = ChaserWorkers /\ DOMAIN chaser'[c] = DOMAIN IdleChaser
                               /\ chaser'[c].pc = chaser[c].pc /\ chaser'[c].row = chaser[c].row
                               /\ chaser'[c].chunk = chaser[c].chunk /\ chaser'[c].parent = chaser[c].parent
  BY <1>1, WokenStays DEF Threads
<1>3. DOMAIN leaf' = LeafWorkers /\ \A v \in LeafWorkers : leaf'[v] = IF v = w THEN rest ELSE leaf[v]
  BY <1>1 DEF Threads
<1>4. Threads'
  <2>1. DOMAIN chaser' = ChaserWorkers
    BY <1>1 DEF Threads, Woken
  <2> QED BY <1>1, <1>2, <1>3, <2>1 DEF Threads
<1>5. ASSUME Laid, LeavesLeft, ParentsLeft PROVE LeavesLeft' /\ ParentsLeft'
  <2>1. LeavesLeft'
    BY <1>3, <1>5, LeavesKept
  <2>2. ParentsLeft'
    BY <1>2, <1>5, ParentsKept
  <2> QED BY <2>1, <2>2
<1> QED BY <1>4, <1>5, BuildingStep

\* A worker claims the next chunk of heights, or finds that there is none.
LEMMA AcquireStep ==
    ASSUME BuildInv, NEW w \in LeafWorkers, acquire(w)
    PROVE  BuildInv'
<1> DEFINE start1 == next_chunk * HeightChunk + 1
           fresh == [IdleLeaf EXCEPT !.pc = "fill", !.height = start1, !.end = chunk_end(next_chunk)]
<1>1. /\ phase = "building" /\ phase' = phase /\ UNCHANGED <<chain, hints, layout, nodes, chaser>>
  BY DEF acquire, generator_vars, input_vars
<1>2. Threads /\ Laid
  BY <1>1 DEF BuildInv, Threads
<1>3. CASE ~(next_chunk * HeightChunk < Stop)
  <2> DEFINE rest == [leaf[w] EXCEPT !.pc = "ended"]
  <2>1. leaf' = [leaf EXCEPT ![w] = rest] /\ UNCHANGED next_chunk
    BY <1>3 DEF acquire
  <2>2. DOMAIN rest = DOMAIN IdleLeaf /\ rest.pc # "fill"
    BY <1>2 DEF Threads, IdleLeaf
  <2> HIDE DEF rest
  <2> QED BY <1>1, <2>1, <2>2, LeafRests
<1>4. CASE next_chunk * HeightChunk < Stop
  <2>1. leaf' = [leaf EXCEPT ![w] = fresh] /\ next_chunk' = next_chunk + 1
    BY <1>4 DEF acquire
  <2>2. /\ DOMAIN fresh = DOMAIN IdleLeaf /\ fresh.pc = "fill" /\ fresh.height = start1
        /\ fresh.end = chunk_end(next_chunk) /\ fresh.local = 0
    BY DEF IdleLeaf
  <2> HIDE DEF fresh
  <2>3. DOMAIN leaf' = LeafWorkers /\ \A v \in LeafWorkers : leaf'[v] = IF v = w THEN fresh ELSE leaf[v]
    BY <1>2, <2>1 DEF Threads
  <2>4. Threads'
    BY <1>1, <1>2, <2>2, <2>3 DEF Threads
  <2>5. ASSUME LeavesLeft, ParentsLeft PROVE LeavesLeft' /\ ParentsLeft'
    <3>1. next_chunk \in Nat /\ hints.stop \in Nat /\ HeightChunk \in Nat \ {0}
      BY <1>2, <2>5, BuildAssumption DEF LeavesLeft, Laid
    <3> DEFINE claimed == next_chunk * HeightChunk
    <3>2. claimed \in Nat /\ claimed < hints.stop /\ next_chunk' * HeightChunk = claimed + HeightChunk
      BY <1>4, <2>1, <3>1 DEF Stop
    <3>3. /\ chunk_end(next_chunk) \in start1 .. hints.stop
          /\ chunk_end(next_chunk) <= claimed + HeightChunk /\ start1 \in 1 .. hints.stop
      <4>1. (next_chunk + 1) * HeightChunk = claimed + HeightChunk
        BY <3>1
      <4> QED BY <3>1, <3>2, <4>1 DEF chunk_end, Stop
    <3> HIDE DEF claimed
    <3>4. ASSUME NEW v \in LeafWorkers, Filling(v)', v # w
          PROVE  /\ Filling(v) /\ leaf'[v] = leaf[v] /\ leaf[v].end \in Nat /\ leaf[v].end <= claimed
                 /\ leaf[v].height \in 1 .. hints.stop /\ leaf[v].end \in leaf[v].height .. hints.stop
                 /\ leaf[v].local \in Nat
      <4>1. leaf'[v] = leaf[v] /\ Filling(v)
        BY <2>3, <3>4 DEF Filling
      <4>2. /\ leaf[v].height \in 1 .. hints.stop /\ leaf[v].end \in leaf[v].height .. hints.stop
            /\ leaf[v].end <= claimed /\ leaf[v].local \in Nat
        BY <2>5, <4>1 DEF LeavesLeft, claimed
      <4> QED BY <3>1, <4>1, <4>2
    <3>5. leaf'[w].height = claimed + 1 /\ leaf'[w].end = chunk_end(next_chunk) /\ leaf'[w].local = 0
      BY <2>2, <2>3 DEF claimed
    <3>6. \A v \in LeafWorkers : Filling(v)' =>
             /\ leaf'[v].height \in 1 .. hints.stop /\ leaf'[v].end \in leaf'[v].height .. hints.stop
             /\ leaf'[v].end <= next_chunk' * HeightChunk /\ leaf'[v].local \in Nat
      <4>1. leaf'[w].height \in 1 .. hints.stop /\ leaf'[w].end \in leaf'[w].height .. hints.stop
            /\ leaf'[w].end <= next_chunk' * HeightChunk /\ leaf'[w].local \in Nat
        BY <3>2, <3>3, <3>5 DEF claimed
      <4>2. \A v \in LeafWorkers : Filling(v)' /\ v # w => leaf'[v].end <= next_chunk' * HeightChunk
        BY <3>1, <3>2, <3>4
      <4> QED BY <3>4, <4>1, <4>2
    <3>7. \A u, v \in LeafWorkers : Filling(u)' /\ Filling(v)' /\ u # v =>
             leaf'[u].end < leaf'[v].height \/ leaf'[v].end < leaf'[u].height
      <4>1. \A v \in LeafWorkers : Filling(v)' /\ v # w => leaf'[v].end < leaf'[w].height
        BY <3>2, <3>4, <3>5
      <4>2. \A u, v \in LeafWorkers : Filling(u)' /\ Filling(v)' /\ u # v /\ u # w /\ v # w =>
               leaf'[u].end < leaf'[v].height \/ leaf'[v].end < leaf'[u].height
        BY <2>5, <3>4 DEF LeavesLeft
      <4> QED BY <4>1, <4>2
    <3>8. ASSUME NEW h \in 1 .. hints.stop, NEW i \in 0 .. hints.counts[h] - 1
          PROVE  /\ h > next_chunk' * HeightChunk => nodes[leaf_offset(h) + i] = Unset
                 /\ \A v \in LeafWorkers : Filling(v)' /\ Ahead(v, h, i)' => nodes[leaf_offset(h) + i] = Unset
      <4>1. h > claimed => nodes[leaf_offset(h) + i] = Unset
        BY <2>5 DEF LeavesLeft, claimed
      <4>2. h > next_chunk' * HeightChunk => h > claimed
        BY <3>1, <3>2
      <4>3. Ahead(w, h, i)' => h > claimed
        BY <3>1, <3>2, <3>5 DEF Ahead
      <4>4. \A v \in LeafWorkers : Filling(v)' /\ v # w /\ Ahead(v, h, i)' => Filling(v) /\ Ahead(v, h, i)
        BY <3>4 DEF Ahead
      <4>5. \A v \in LeafWorkers : Filling(v) /\ Ahead(v, h, i) => nodes[leaf_offset(h) + i] = Unset
        BY <2>5 DEF LeavesLeft
      <4> QED BY <4>1, <4>2, <4>3, <4>4, <4>5
    <3>9. LeavesLeft'
      <4>1. \A h : leaf_offset(h)' = leaf_offset(h)
        BY <1>1, LayoutFrame
      <4>2. next_chunk' \in Nat
        BY <2>1, <3>1
      <4> QED BY <1>1, <3>6, <3>7, <3>8, <4>1, <4>2 DEF LeavesLeft
    <3>10. ParentsLeft'
      BY <1>1, <1>2, <2>5, ParentsKept
    <3> QED BY <3>9, <3>10
  <2> QED BY <1>1, <2>4, <2>5, BuildingStep
<1> QED BY <1>3, <1>4

\* The position of a leaf is its worker's alone.
LEMMA WriteLeafStep ==
    ASSUME BuildInv, phase = "building", NEW w \in LeafWorkers, write_leaf(w)
    PROVE  BuildInv'
<1> DEFINE h0 == leaf[w].height
           i0 == leaf[w].local
           p0 == leaf_offset(h0) + i0
<1>1. /\ phase' = phase /\ UNCHANGED <<chain, hints, layout, next_chunk>> /\ Filling(w) /\ MoreLeaves(w)
      /\ chaser' = chaser \/ chaser' = Woken
  BY DEF write_leaf, generator_vars, input_vars, publish, Filling
<1>2. Threads
  BY DEF BuildInv, Threads
<1>3. \E node : nodes' = [nodes EXCEPT ![p0] = node]
  BY DEF write_leaf, BottomPosition
<1>4. DOMAIN nodes' = DOMAIN nodes /\ \A p \in DOMAIN nodes : p # p0 => nodes'[p] = nodes[p]
  BY <1>3
<1>5. /\ DOMAIN leaf' = LeafWorkers /\ \A v \in LeafWorkers : v # w => leaf'[v] = leaf[v]
      /\ DOMAIN leaf'[w] = DOMAIN IdleLeaf
      /\ leaf'[w].pc = leaf[w].pc /\ leaf'[w].height = h0 /\ leaf'[w].end = leaf[w].end
      /\ leaf'[w].local = i0 + 1
  <2>1. DOMAIN leaf = LeafWorkers /\ DOMAIN leaf[w] = DOMAIN IdleLeaf
    BY <1>2 DEF Threads
  <2>2. \E a, b, c : leaf' = [leaf EXCEPT ![w].local = @ + 1, ![w].hint = a, ![w].entries = b, ![w].unpublished = c]
    BY DEF write_leaf
  <2> QED BY <2>1, <2>2 DEF IdleLeaf
<1>6. \A c \in ChaserWorkers : /\ DOMAIN chaser' = ChaserWorkers /\ DOMAIN chaser'[c] = DOMAIN IdleChaser
                               /\ chaser'[c].pc = chaser[c].pc /\ chaser'[c].row = chaser[c].row
                               /\ chaser'[c].chunk = chaser[c].chunk /\ chaser'[c].parent = chaser[c].parent
  BY <1>1, <1>2, WokenStays DEF Threads
<1>7. Threads'
  <2>1. DOMAIN chaser' = ChaserWorkers
    BY <1>1, <1>2 DEF Threads, Woken
  <2> QED BY <1>2, <1>5, <1>6, <2>1 DEF Threads
<1>8. ASSUME Laid, SameCounts, LeavesLeft, ParentsLeft PROVE LeavesLeft' /\ ParentsLeft'
  <2>1. /\ h0 \in 1 .. hints.stop /\ leaf[w].end \in h0 .. hints.stop /\ i0 \in Nat
        /\ leaf[w].end <= next_chunk * HeightChunk /\ hints.stop \in Nat
        /\ next_chunk * HeightChunk \in Nat
    BY <1>1, <1>8, BuildAssumption, SMTT(30) DEF LeavesLeft, Laid
  <2>2. i0 \in 0 .. hints.counts[h0] - 1
    <3>1. i0 < hints.counts[h0]
      BY <1>1, <1>8, <2>1 DEF MoreLeaves, visit_kernel_leaf_outputs, SameCounts
    <3>2. hints.counts[h0] \in Nat
      BY <1>8, <2>1 DEF Laid
    <3> QED BY <2>1, <3>1, <3>2
  <2>3. /\ p0 \in 0 .. leaves - 1
        /\ \A h \in 1 .. hints.stop : \A i \in 0 .. hints.counts[h] - 1 :
              leaf_offset(h) + i = p0 => h = h0 /\ i = i0
    BY <1>8, <2>1, <2>2, LeavesApart
  <2>4. \A h \in 1 .. hints.stop : \A i \in 0 .. hints.counts[h] - 1 :
           h # h0 \/ i # i0 => (nodes[leaf_offset(h) + i] = Unset => nodes'[leaf_offset(h) + i] = Unset)
    <3>1. DOMAIN nodes = 0 .. forest_capacity(forest_rows) - 1
      BY DEF BuildInv
    <3>2. leaves - 1 <= forest_capacity(forest_rows) - 1
      <4>1. /\ forest_rows \in Nat /\ forest_rows + 1 <= MaxShift /\ leaves \in Nat
            /\ leaves <= Pow2[forest_rows] /\ forest_rows + 1 \in Nat
        BY <1>8 DEF Laid
      <4>2. /\ Pow2[forest_rows + 1] = 2 * Pow2[forest_rows] /\ 1 <= Pow2[forest_rows]
            /\ Pow2[forest_rows] \in Nat
        BY <4>1, PowDef, PowGrows, ShiftAssumption
      <4> QED BY <4>1, <4>2 DEF forest_capacity
    <3>3. ASSUME NEW h \in 1 .. hints.stop, NEW i \in 0 .. hints.counts[h] - 1
          PROVE  leaf_offset(h) + i \in DOMAIN nodes
      <4>1. leaf_offset(h) + i \in 0 .. leaves - 1 /\ leaves \in Nat
        BY <1>8, LeavesApart DEF Laid
      <4>2. forest_capacity(forest_rows) \in Int
        <5>1. forest_rows + 1 \in Nat /\ forest_rows + 1 <= MaxShift
          BY <1>8 DEF Laid
        <5>2. Pow2[forest_rows + 1] \in Nat
          BY <5>1, PowGrows
        <5> QED BY <5>2 DEF forest_capacity
      <4> QED BY <3>1, <3>2, <4>1, <4>2
    <3> HIDE DEF p0
    <3> QED BY <1>4, <2>3, <3>3
  <2> HIDE DEF p0
  <2>5. \A v \in LeafWorkers : Filling(v)' <=> Filling(v)
    BY <1>5 DEF Filling
  <2>6. \A v \in LeafWorkers : leaf'[v].height = leaf[v].height /\ leaf'[v].end = leaf[v].end
    BY <1>5
  <2>7. \A v \in LeafWorkers : Filling(v) => leaf'[v].local \in Nat
    BY <1>5, <1>8, <2>1 DEF LeavesLeft
  <2>8. ASSUME NEW v \in LeafWorkers, Filling(v), NEW h \in 1 .. hints.stop,
               NEW i \in 0 .. hints.counts[h] - 1, Ahead(v, h, i)'
        PROVE  nodes'[leaf_offset(h) + i] = Unset
    <3>1. Ahead(v, h, i) /\ (h # h0 \/ i # i0)
      <4>1. CASE v = w
        <5>1. h \in h0 .. leaf[w].end /\ (h > h0 \/ i >= i0 + 1)
          BY <1>5, <2>8, <4>1 DEF Ahead
        <5>2. i \in Nat
          BY <1>8 DEF Laid
        <5>3. (h > h0 \/ i >= i0) /\ (h # h0 \/ i # i0)
          BY <2>1, <5>1, <5>2
        <5> QED BY <4>1, <5>1, <5>3 DEF Ahead
      <4>2. CASE v # w
        <5>1. Ahead(v, h, i)
          BY <1>5, <2>8, <4>2 DEF Ahead
        <5>2. leaf[v].end < h0 \/ leaf[w].end < leaf[v].height
          BY <1>1, <1>8, <2>8, <4>2 DEF LeavesLeft
        <5>3. h # h0
          BY <1>8, <2>1, <2>8, <5>1, <5>2 DEF Ahead, LeavesLeft
        <5> QED BY <5>1, <5>3
      <4> QED BY <4>1, <4>2
    <3>2. nodes[leaf_offset(h) + i] = Unset
      BY <1>8, <2>8, <3>1 DEF LeavesLeft
    <3> QED BY <2>4, <3>1, <3>2
  <2>9. ASSUME NEW h \in 1 .. hints.stop, NEW i \in 0 .. hints.counts[h] - 1, h > next_chunk * HeightChunk
        PROVE  nodes'[leaf_offset(h) + i] = Unset
    <3>1. h # h0
      BY <2>1, <2>9
    <3>2. nodes[leaf_offset(h) + i] = Unset
      BY <1>8, <2>9 DEF LeavesLeft
    <3> QED BY <2>4, <3>1, <3>2
  <2>10. LeavesLeft'
    <3>1. \A h : leaf_offset(h)' = leaf_offset(h)
      BY <1>1, LayoutFrame
    <3>2. \A v \in LeafWorkers : Filling(v)' =>
             /\ leaf'[v].height \in 1 .. hints.stop /\ leaf'[v].end \in leaf'[v].height .. hints.stop
             /\ leaf'[v].end <= next_chunk * HeightChunk /\ leaf'[v].local \in Nat
      BY <1>8, <2>5, <2>6, <2>7 DEF LeavesLeft
    <3>3. \A u, v \in LeafWorkers : Filling(u)' /\ Filling(v)' /\ u # v =>
             leaf'[u].end < leaf'[v].height \/ leaf'[v].end < leaf'[u].height
      BY <1>8, <2>5, <2>6 DEF LeavesLeft
    <3>4. next_chunk \in Nat
      BY <1>8 DEF LeavesLeft
    <3>5. \A h \in 1 .. hints.stop : \A i \in 0 .. hints.counts[h] - 1 :
             /\ h > next_chunk * HeightChunk => nodes'[leaf_offset(h) + i] = Unset
             /\ \A v \in LeafWorkers : Filling(v)' /\ Ahead(v, h, i)' => nodes'[leaf_offset(h) + i] = Unset
      BY <2>5, <2>8, <2>9
    <3> QED BY <1>1, <3>1, <3>2, <3>3, <3>4, <3>5 DEF LeavesLeft
  <2>11. ParentsLeft'
    <3>1. ASSUME NEW r \in 0 .. forest_rows - 1, NEW q \in 0 .. parent_count(r) - 1
          PROVE  nodes'[ParentAt(r, q)] = nodes[ParentAt(r, q)]
      <4>1. ParentAt(r, q) \in 0 .. forest_capacity(forest_rows) - 1 /\ leaves <= ParentAt(r, q)
        BY <1>8, ParentPlaces
      <4>2. ParentAt(r, q) \in DOMAIN nodes
        BY <4>1 DEF BuildInv
      <4>3. ParentAt(r, q) # p0
        BY <1>8, <2>3, <4>1 DEF Laid
      <4> QED BY <1>4, <4>2, <4>3
    <3> QED BY <1>1, <1>6, <1>8, <3>1, ParentsKept
  <2> QED BY <2>10, <2>11
<1> QED BY <1>1, <1>4, <1>7, <1>8, BuildingStep

\* After a block, the worker goes on to the next height of its range.
LEMMA EndBlockStep ==
    ASSUME BuildInv, phase = "building", NEW w \in LeafWorkers, end_block(w)
    PROVE  BuildInv'
<1> DEFINE h0 == leaf[w].height
           e0 == leaf[w].end
           rest == [leaf[w] EXCEPT !.pc = "headers"]
           fresh == [IdleLeaf EXCEPT !.pc = "fill", !.height = h0 + 1, !.end = e0]
<1>1. /\ phase' = phase /\ UNCHANGED <<chain, hints, layout, next_chunk, nodes>> /\ Filling(w)
      /\ chaser' = Woken
  BY DEF end_block, generator_vars, input_vars, publish, Filling
<1>2. Threads
  BY DEF BuildInv, Threads
<1>3. CASE h0 = e0
  <2>1. leaf' = [leaf EXCEPT ![w] = rest]
    BY <1>3 DEF end_block
  <2>2. DOMAIN rest = DOMAIN IdleLeaf /\ rest.pc # "fill"
    BY <1>2 DEF Threads, IdleLeaf
  <2> HIDE DEF rest
  <2> QED BY <1>1, <2>1, <2>2, LeafRests
<1>4. CASE h0 # e0
  <2>1. leaf' = [leaf EXCEPT ![w] = fresh]
    BY <1>4 DEF end_block
  <2>2. /\ DOMAIN fresh = DOMAIN IdleLeaf /\ fresh.pc = "fill" /\ fresh.height = h0 + 1
        /\ fresh.end = e0 /\ fresh.local = 0
    BY DEF IdleLeaf
  <2> HIDE DEF fresh
  <2>3. DOMAIN leaf' = LeafWorkers /\ \A v \in LeafWorkers : leaf'[v] = IF v = w THEN fresh ELSE leaf[v]
    BY <1>2, <2>1 DEF Threads
  <2>4. \A c \in ChaserWorkers : /\ DOMAIN chaser'[c] = DOMAIN IdleChaser
                                 /\ chaser'[c].pc = chaser[c].pc /\ chaser'[c].row = chaser[c].row
                                 /\ chaser'[c].chunk = chaser[c].chunk /\ chaser'[c].parent = chaser[c].parent
    BY <1>1, <1>2, WokenStays
  <2>5. Threads'
    <3>1. DOMAIN chaser' = ChaserWorkers
      BY <1>1 DEF Woken
    <3> QED BY <1>2, <2>2, <2>3, <2>4, <3>1 DEF Threads
  <2>6. ASSUME Laid, LeavesLeft, ParentsLeft PROVE LeavesLeft' /\ ParentsLeft'
    <3>1. /\ h0 \in 1 .. hints.stop /\ e0 \in h0 .. hints.stop /\ e0 <= next_chunk * HeightChunk
          /\ hints.stop \in Nat
      BY <1>1, <2>6 DEF LeavesLeft, Laid
    <3>2. h0 + 1 \in 1 .. hints.stop /\ e0 \in h0 + 1 .. hints.stop
      BY <1>4, <3>1
    <3>3. leaf'[w].height = h0 + 1 /\ leaf'[w].end = e0 /\ leaf'[w].local = 0
      BY <2>2, <2>3
    <3>4. \A v \in LeafWorkers : Filling(v)' /\ v # w => Filling(v) /\ leaf'[v] = leaf[v]
      BY <2>3 DEF Filling
    <3>5. \A v \in LeafWorkers : Filling(v)' =>
             /\ leaf'[v].height \in 1 .. hints.stop /\ leaf'[v].end \in leaf'[v].height .. hints.stop
             /\ leaf'[v].end <= next_chunk * HeightChunk /\ leaf'[v].local \in Nat
      BY <2>6, <3>1, <3>2, <3>3, <3>4 DEF LeavesLeft
    <3>6. \A u, v \in LeafWorkers : Filling(u)' /\ Filling(v)' /\ u # v =>
             leaf'[u].end < leaf'[v].height \/ leaf'[v].end < leaf'[u].height
      <4>1. ASSUME NEW v \in LeafWorkers, Filling(v)', v # w
            PROVE  leaf'[v].end < leaf'[w].height \/ leaf'[w].end < leaf'[v].height
        <5>1. leaf'[v] = leaf[v] /\ (leaf[v].end < h0 \/ e0 < leaf[v].height)
          BY <1>1, <2>6, <3>4, <4>1 DEF LeavesLeft
        <5>2. leaf[v].end \in leaf[v].height .. hints.stop /\ leaf[v].height \in 1 .. hints.stop
          BY <2>6, <3>4, <4>1 DEF LeavesLeft
        <5> QED BY <3>1, <3>3, <5>1, <5>2
      <4>2. \A u, v \in LeafWorkers : Filling(u)' /\ Filling(v)' /\ u # v /\ u # w /\ v # w =>
               leaf'[u].end < leaf'[v].height \/ leaf'[v].end < leaf'[u].height
        BY <2>6, <3>4 DEF LeavesLeft
      <4> QED BY <4>1, <4>2
    <3>7. ASSUME NEW v \in LeafWorkers, Filling(v)', NEW h \in 1 .. hints.stop,
                 NEW i \in 0 .. hints.counts[h] - 1, Ahead(v, h, i)'
          PROVE  nodes[leaf_offset(h) + i] = Unset
      <4>1. CASE v = w
        <5>1. h \in h0 + 1 .. e0
          BY <3>3, <3>7, <4>1 DEF Ahead
        <5>2. h \in h0 .. e0 /\ h > h0
          BY <3>1, <5>1
        <5> QED BY <1>1, <2>6, <5>2 DEF LeavesLeft, Ahead
      <4>2. CASE v # w
        BY <2>6, <3>4, <3>7, <4>2 DEF LeavesLeft, Ahead
      <4> QED BY <4>1, <4>2
    <3>8. LeavesLeft'
      <4>1. \A h : leaf_offset(h)' = leaf_offset(h)
        BY <1>1, LayoutFrame
      <4>2. \A h \in 1 .. hints.stop : \A i \in 0 .. hints.counts[h] - 1 :
               /\ h > next_chunk * HeightChunk => nodes[leaf_offset(h) + i] = Unset
               /\ \A v \in LeafWorkers : Filling(v)' /\ Ahead(v, h, i)' => nodes[leaf_offset(h) + i] = Unset
        BY <2>6, <3>7 DEF LeavesLeft
      <4>3. next_chunk \in Nat
        BY <2>6 DEF LeavesLeft
      <4> QED BY <1>1, <3>5, <3>6, <4>1, <4>2, <4>3 DEF LeavesLeft
    <3>9. ParentsLeft'
      BY <1>1, <2>4, <2>6, ParentsKept
    <3> QED BY <3>8, <3>9
  <2> QED BY <1>1, <2>5, <2>6, BuildingStep
<1> QED BY <1>3, <1>4

\* A worker that fails, panics or ends its range.
LEMMA OtherLeafSteps ==
    ASSUME BuildInv, phase = "building", NEW w \in LeafWorkers,
           \/ write_refused(w) \/ count_changed(w) \/ leaf_failure(w) \/ leaf_panic(w) \/ put_batch(w)
    PROVE  BuildInv'
<1>1. /\ phase' = phase /\ UNCHANGED <<chain, hints, layout, next_chunk, nodes>>
      /\ chaser' = chaser \/ chaser' = Woken
  BY DEF write_refused, count_changed, leaf_failure, leaf_panic, put_batch, LeafError, abort,
         generator_vars, input_vars
<1>2. PICK rest : /\ leaf' = [leaf EXCEPT ![w] = rest]
                  /\ rest \in {IdleLeaf, [IdleLeaf EXCEPT !.pc = "failed"], [IdleLeaf EXCEPT !.pc = "panicked"]}
  BY DEF write_refused, count_changed, leaf_failure, leaf_panic, put_batch, LeafError
<1>3. DOMAIN rest = DOMAIN IdleLeaf /\ rest.pc # "fill"
  BY <1>2 DEF IdleLeaf
<1> QED BY <1>1, <1>2, <1>3, LeafRests

\* The position of a parent is its chaser's alone.
LEMMA WriteParentStep ==
    ASSUME BuildInv, phase = "building", NEW c \in ChaserWorkers, write_parent(c)
    PROVE  BuildInv'
<1> DEFINE r0 == chaser[c].row
           q0 == chaser[c].parent
           p0 == ParentAt(r0, q0)
<1>1. /\ phase' = phase /\ UNCHANGED <<chain, hints, layout, next_chunk, leaf>> /\ chaser[c].pc = "run"
  BY DEF write_parent, generator_vars, input_vars, Looking
<1>2. Threads
  BY DEF BuildInv, Threads
<1>3. \E node : nodes' = [nodes EXCEPT ![p0] = node]
  BY DEF write_parent, ParentPosition, ParentAt
<1>4. DOMAIN nodes' = DOMAIN nodes /\ \A p \in DOMAIN nodes : p # p0 => nodes'[p] = nodes[p]
  BY <1>3
<1>5. /\ DOMAIN chaser' = ChaserWorkers /\ chaser'[c] = After(c)
      /\ \A d \in ChaserWorkers : d # c =>
            /\ DOMAIN chaser'[d] = DOMAIN IdleChaser
            /\ chaser'[d].pc = chaser[d].pc /\ chaser'[d].row = chaser[d].row
            /\ chaser'[d].chunk = chaser[d].chunk /\ chaser'[d].parent = chaser[d].parent
  <2>1. chaser' = [chaser EXCEPT ![c] = After(c)] \/ chaser' = [Woken EXCEPT ![c] = After(c)]
    BY DEF write_parent
  <2>2. DOMAIN Woken = ChaserWorkers
    BY DEF Woken
  <2>3. CASE chaser' = [chaser EXCEPT ![c] = After(c)]
    BY <1>2, <2>3 DEF Threads
  <2>4. CASE chaser' = [Woken EXCEPT ![c] = After(c)]
    <3>1. \A d \in ChaserWorkers : d # c => chaser'[d] = Woken[d]
      BY <2>2, <2>4
    <3> QED BY <1>2, <2>2, <2>4, <3>1, WokenStays
  <2> QED BY <2>1, <2>3, <2>4
<1>6. Laid /\ DOMAIN nodes = 0 .. forest_capacity(forest_rows) - 1
  BY DEF BuildInv
<1>7. CASE ~SameCounts
  <2>1. DOMAIN After(c) = DOMAIN IdleChaser
    <3>1. DOMAIN chaser[c] = DOMAIN IdleChaser
      BY <1>2 DEF Threads
    <3>2. DOMAIN Seek(c, r0 + 1) = DOMAIN IdleChaser
      BY DEF Seek, IdleChaser
    <3> QED BY <3>1, <3>2 DEF After, IdleChaser
  <2>2. Threads'
    BY <1>1, <1>2, <1>5, <2>1 DEF Threads
  <2> QED BY <1>1, <1>4, <1>7, <2>2, BuildingStep
<1>8. CASE SameCounts
  <2>1. LeavesLeft /\ ParentsLeft
    BY <1>8 DEF BuildInv
  <2>2. Chasing(chaser[c], c)
    BY <1>1, <2>1 DEF ParentsLeft
  <2>3. r0 \in 0 .. forest_rows - 1 /\ q0 \in 0 .. parent_count(r0) - 1 /\ Task(c, r0, q0)
    BY <1>6, <2>2, ChasingTask
  <2>4. /\ DOMAIN After(c) = DOMAIN IdleChaser
        /\ After(c).pc = "run" =>
              /\ Chasing(After(c), c)
              /\ After(c).row > r0 \/ (After(c).row = r0 /\ After(c).parent > q0)
    <3>1. DOMAIN chaser[c] = DOMAIN IdleChaser
      BY <1>2 DEF Threads
    <3> QED BY <1>1, <1>6, <2>2, <3>1, AfterChases
  <2>5. Threads'
    BY <1>1, <1>2, <1>5, <2>4 DEF Threads
  <2>6. leaves <= p0 /\ leaves \in Nat /\ p0 \in Int
    BY <1>6, <2>3, ParentPlaces, SMTT(30) DEF Laid
  <2>7. ASSUME NEW r \in 0 .. forest_rows - 1, NEW q \in 0 .. parent_count(r) - 1, r # r0 \/ q # q0
        PROVE  nodes'[ParentAt(r, q)] = nodes[ParentAt(r, q)]
    <3>1. ParentAt(r, q) # p0
      BY <1>6, <2>3, <2>7, ParentsApart
    <3>2. ParentAt(r, q) \in DOMAIN nodes
      BY <1>6, ParentPlaces
    <3> QED BY <1>4, <3>1, <3>2
  <2>8. \A p \in 0 .. leaves - 1 : nodes'[p] = nodes[p]
    <3>1. \A p \in 0 .. leaves - 1 : p # p0 /\ p \in DOMAIN nodes
      <4>1. p0 \in 0 .. forest_capacity(forest_rows) - 1
        BY <1>6, <2>3, ParentPlaces
      <4>2. forest_capacity(forest_rows) \in Int
        <5>1. forest_rows + 1 \in Nat /\ forest_rows + 1 <= MaxShift
          BY <1>6 DEF Laid
        <5>2. Pow2[forest_rows + 1] \in Nat
          BY <5>1, PowGrows
        <5> QED BY <5>2 DEF forest_capacity
      <4> HIDE DEF p0
      <4> QED BY <1>6, <2>6, <4>1, <4>2
    <3> HIDE DEF p0
    <3> QED BY <1>4, <3>1
  <2>9. LeavesLeft'
    BY <1>1, <1>6, <2>1, <2>8, LeavesKept
  <2>10. ASSUME NEW d \in ChaserWorkers, chaser'[d].pc = "run"
         PROVE  /\ Chasing(chaser'[d], d)
                /\ \A r \in 0 .. forest_rows - 1 : \A q \in 0 .. parent_count(r) - 1 :
                      Task(d, r, q) /\ Above(chaser'[d], r, q) => nodes'[ParentAt(r, q)] = Unset
    <3>1. CASE d = c
      <4>1. chaser'[d] = After(c) /\ Chasing(chaser'[d], d)
        BY <1>5, <2>4, <2>10, <3>1
      <4>2. ASSUME NEW r \in 0 .. forest_rows - 1, NEW q \in 0 .. parent_count(r) - 1,
                   Task(d, r, q), Above(chaser'[d], r, q)
            PROVE  nodes'[ParentAt(r, q)] = Unset
        <5>1. After(c).row \in 0 .. forest_rows - 1 /\ After(c).parent \in Nat /\ forest_rows \in Nat
          BY <1>6, <4>1 DEF Chasing, Laid
        <5>2. After(c).row > r0 \/ (After(c).row = r0 /\ After(c).parent > q0)
          BY <1>5, <2>4, <2>10, <3>1
        <5>3. r > After(c).row \/ (r = After(c).row /\ q >= After(c).parent)
          BY <4>1, <4>2 DEF Above
        <5>4. r \in Nat /\ q \in Nat /\ r0 \in Nat /\ q0 \in Nat
          BY <1>6, <2>3, <5>1, ParentCounts, SMTT(30)
        <5>5. (r > r0 \/ (r = r0 /\ q >= q0)) /\ (r # r0 \/ q # q0)
          BY <5>1, <5>2, <5>3, <5>4
        <5>6. nodes[ParentAt(r, q)] = Unset
          BY <1>1, <2>1, <3>1, <4>2, <5>5 DEF ParentsLeft, Above
        <5> QED BY <2>7, <5>5, <5>6
      <4> QED BY <4>1, <4>2
    <3>2. CASE d # c
      <4>1. /\ chaser[d].pc = "run" /\ chaser'[d].row = chaser[d].row
            /\ chaser'[d].chunk = chaser[d].chunk /\ chaser'[d].parent = chaser[d].parent
        BY <1>5, <2>10, <3>2
      <4>2. Chasing(chaser'[d], d)
        BY <2>1, <4>1 DEF ParentsLeft, Chasing
      <4>3. ASSUME NEW r \in 0 .. forest_rows - 1, NEW q \in 0 .. parent_count(r) - 1,
                   Task(d, r, q), Above(chaser'[d], r, q)
            PROVE  nodes'[ParentAt(r, q)] = Unset
        <5>1. Above(chaser[d], r, q)
          BY <4>1, <4>3 DEF Above
        <5>2. nodes[ParentAt(r, q)] = Unset
          BY <2>1, <4>1, <4>3, <5>1 DEF ParentsLeft
        <5>3. r # r0 \/ q # q0
          <6>1. SUFFICES ASSUME r = r0, q = q0 PROVE FALSE
            OBVIOUS
          <6>2. q0 \in Nat
            BY <1>6, <2>3, ParentCounts
          <6>3. c = d
            BY <1>6, <2>3, <4>3, <6>1, <6>2, TaskOwner
          <6> QED BY <3>2, <6>3
        <5> QED BY <2>7, <5>2, <5>3
      <4> QED BY <4>2, <4>3
    <3> QED BY <3>1, <3>2
  <2>11. ParentsLeft'
    BY <1>1, <2>10, LayoutFrame DEF ParentsLeft
  <2> QED BY <1>1, <1>4, <2>5, <2>9, <2>11, BuildingStep
<1> QED BY <1>7, <1>8

\* A chaser that looks, sleeps or fails.
LEMMA OtherChaserSteps ==
    ASSUME BuildInv, phase = "building", NEW c \in ChaserWorkers,
           read_ready(c) \/ wait_child(c) \/ parent_refused(c) \/ chaser_aborted(c)
    PROVE  BuildInv'
<1>1. phase' = phase /\ UNCHANGED <<chain, hints, layout, next_chunk, nodes, leaf>>
  BY DEF read_ready, wait_child, parent_refused, chaser_aborted, generator_vars, input_vars
<1>2. Threads
  BY DEF BuildInv, Threads
<1>3. /\ DOMAIN chaser' = ChaserWorkers
      /\ \A d \in ChaserWorkers :
            /\ DOMAIN chaser'[d] = DOMAIN IdleChaser
            /\ chaser'[d].pc = "run" =>
                  /\ chaser[d].pc = "run" /\ chaser'[d].row = chaser[d].row
                  /\ chaser'[d].chunk = chaser[d].chunk /\ chaser'[d].parent = chaser[d].parent
  <2>0. DOMAIN chaser = ChaserWorkers /\ DOMAIN Woken = ChaserWorkers
        /\ \A d \in ChaserWorkers : DOMAIN chaser[d] = DOMAIN IdleChaser
    BY <1>2 DEF Threads, Woken
  <2>1. CASE read_ready(c)
    <3>1. \E child : chaser' = [chaser EXCEPT ![c].child = child]
      BY <2>1 DEF read_ready
    <3> QED BY <2>0, <3>1 DEF IdleChaser
  <2>2. CASE wait_child(c)
    <3>1. chaser' = [chaser EXCEPT ![c].parked = TRUE]
      BY <2>2 DEF wait_child
    <3> QED BY <2>0, <3>1 DEF IdleChaser
  <2>3. CASE parent_refused(c) \/ chaser_aborted(c)
    <3> DEFINE failed == [IdleChaser EXCEPT !.pc = "failed"]
    <3>1. chaser' = [Woken EXCEPT ![c] = failed]
      BY <2>3 DEF parent_refused, chaser_aborted
    <3>2. DOMAIN failed = DOMAIN IdleChaser /\ failed.pc # "run"
      BY DEF IdleChaser
    <3> HIDE DEF failed
    <3>3. DOMAIN chaser' = ChaserWorkers /\ \A d \in ChaserWorkers : chaser'[d] = IF d = c THEN failed ELSE Woken[d]
      BY <2>0, <3>1
    <3> QED BY <1>2, <3>2, <3>3, WokenStays
  <2> QED BY <2>1, <2>2, <2>3
<1>4. Threads'
  BY <1>1, <1>2, <1>3 DEF Threads
<1>5. ASSUME Laid, LeavesLeft, ParentsLeft PROVE LeavesLeft' /\ ParentsLeft'
  BY <1>1, <1>3, <1>5, LeavesKept, ParentsKept
<1> QED BY <1>1, <1>4, <1>5, BuildingStep

LEMMA ForestSize ==
    ASSUME Laid
    PROVE  /\ forest_capacity(forest_rows) \in Nat
           /\ \A p \in 0 .. leaves - 1 : p \in 0 .. forest_capacity(forest_rows) - 1
<1>1. /\ forest_rows \in Nat /\ forest_rows + 1 <= MaxShift /\ leaves \in Nat
      /\ leaves <= Pow2[forest_rows] /\ forest_rows + 1 \in Nat
  BY DEF Laid
<1>2. /\ Pow2[forest_rows + 1] = 2 * Pow2[forest_rows] /\ 1 <= Pow2[forest_rows]
      /\ Pow2[forest_rows] \in Nat
  BY <1>1, PowDef, PowGrows, ShiftAssumption
<1> QED BY <1>1, <1>2 DEF forest_capacity

\* The file is created empty, and every chaser starts at its first task.
LEMMA BuildStarts ==
    ASSUME BuildInv, build_with_source
    PROVE  BuildInv'
<1>1. /\ phase = "check" /\ phase' = "building" /\ Buildable
      /\ nodes' = [p \in 0 .. forest_capacity(forest_rows) - 1 |-> Unset]
      /\ chaser' = [c \in ChaserWorkers |-> Seek(c, 0)]
      /\ UNCHANGED <<chain, hints, layout, next_chunk, leaf>>
  BY DEF build_with_source, generator_vars, input_vars
<1>2. hints \in AllHints /\ layout = Layout(hints.counts)
      /\ next_chunk = 0 /\ leaf = [w \in LeafWorkers |-> IdleLeaf]
  BY <1>1 DEF BuildInv
<1>3. Laid
  BY <1>1, <1>2, LayoutLaid
<1>4. /\ Laid' /\ forest_rows' = forest_rows
      /\ \A h : leaf_offset(h)' = leaf_offset(h)
  BY <1>1, <1>3, LayoutFrame
<1>5. DOMAIN nodes' = 0 .. forest_capacity(forest_rows') - 1
  BY <1>1, <1>4
<1>6. \A c \in ChaserWorkers :
         /\ DOMAIN chaser'[c] = DOMAIN IdleChaser
         /\ chaser'[c].pc = "run" => Chasing(chaser'[c], c)
  BY <1>1, <1>3, SeekChases
<1>7. DOMAIN leaf' = LeafWorkers /\ \A w \in LeafWorkers : leaf'[w] = IdleLeaf
  BY <1>1, <1>2
<1>8. \A w \in LeafWorkers : ~Filling(w)'
  BY <1>7 DEF Filling, IdleLeaf
<1>9. LeavesLeft'
  <2>1. ASSUME NEW h \in 1 .. hints.stop, NEW i \in 0 .. hints.counts[h] - 1
        PROVE  nodes'[leaf_offset(h) + i] = Unset
    <3>1. leaf_offset(h) + i \in 0 .. forest_capacity(forest_rows) - 1
      BY <1>3, LeavesApart, ForestSize
    <3> QED BY <1>1, <3>1
  <2>2. next_chunk' \in Nat
    BY <1>1, <1>2
  <2> QED BY <1>1, <1>4, <1>8, <2>1, <2>2 DEF LeavesLeft
<1>10. ParentsLeft'
  <2>1. ASSUME NEW r \in 0 .. forest_rows - 1, NEW q \in 0 .. parent_count(r) - 1
        PROVE  nodes'[ParentAt(r, q)] = Unset
    <3>1. ParentAt(r, q) \in 0 .. forest_capacity(forest_rows) - 1
      BY <1>3, ParentPlaces
    <3> QED BY <1>1, <3>1
  <2>2. UNCHANGED <<chain, hints, layout>>
    BY <1>1
  <2>3. SUFFICES ASSUME NEW c \in ChaserWorkers, chaser'[c].pc = "run"
                 PROVE  /\ Chasing(chaser'[c], c)
                        /\ \A r \in 0 .. forest_rows - 1 : \A q \in 0 .. parent_count(r) - 1 :
                              Task(c, r, q) /\ Above(chaser'[c], r, q) => nodes'[ParentAt(r, q)] = Unset
    BY <1>3, <2>2, LayoutFrame DEF ParentsLeft
  <2> QED BY <1>6, <2>1, <2>3
<1>11. DOMAIN chaser' = ChaserWorkers
  BY <1>1
<1> QED BY <1>1, <1>4, <1>5, <1>6, <1>7, <1>9, <1>10, <1>11 DEF BuildInv

\* The steps of the main thread.
LEMMA MainSteps ==
    ASSUME GeneratorInv, BuildInv, from_reader \/ build_refused \/ join_leaf \/ validate_forest
    PROVE  BuildInv'
<1>1. CASE from_reader
  <2>1. /\ phase = "idle" /\ phase' = "check" /\ hints' = files.output /\ layout' = Layout(files.output.counts)
        /\ files.output.kind = "hints" /\ UNCHANGED <<next_chunk, leaf>>
    BY <1>1 DEF from_reader
  <2>2. files.output # Absent
    BY <2>1 DEF Absent
  <2>3. files.output \in AllHints
    BY <2>2 DEF GeneratorInv
  <2> QED BY <2>1, <2>3 DEF BuildInv
<1>2. CASE build_refused
  BY <1>2 DEF build_refused, BuildInv
<1>3. CASE join_leaf
  <2>1. /\ phase = "building" /\ phase' \in {"building", "joining"}
        /\ UNCHANGED <<chain, hints, layout, next_chunk, nodes, leaf>>
        /\ chaser' = chaser \/ chaser' = Woken
    BY <1>3 DEF join_leaf, abort, generator_vars, input_vars
  <2>2. CASE phase' = "joining"
    BY <2>2 DEF BuildInv
  <2>3. CASE phase' = "building"
    <3>1. Threads
      BY <2>1 DEF BuildInv, Threads
    <3>2. /\ DOMAIN chaser' = ChaserWorkers
          /\ \A c \in ChaserWorkers :
                /\ DOMAIN chaser'[c] = DOMAIN IdleChaser
                /\ chaser'[c].pc = chaser[c].pc /\ chaser'[c].row = chaser[c].row
                /\ chaser'[c].chunk = chaser[c].chunk /\ chaser'[c].parent = chaser[c].parent
      <4>1. DOMAIN chaser' = ChaserWorkers
        BY <2>1, <3>1 DEF Threads, Woken
      <4> QED BY <2>1, <3>1, <4>1, WokenStays DEF Threads
    <3>3. Threads'
      BY <2>1, <3>1, <3>2 DEF Threads
    <3>4. ASSUME Laid, LeavesLeft, ParentsLeft PROVE LeavesLeft' /\ ParentsLeft'
      BY <2>1, <3>2, <3>4, LeavesKept, ParentsKept
    <3> QED BY <2>1, <2>3, <3>3, <3>4, BuildingStep
  <2> QED BY <2>1, <2>2, <2>3
<1>4. CASE validate_forest
  BY <1>4 DEF validate_forest, BuildInv
<1> QED BY <1>1, <1>2, <1>3, <1>4

\* The builder's invariant through every step of the system.
LEMMA BuildKept ==
    ASSUME GeneratorInv, BuildInv, [Next]_vars
    PROVE  BuildInv'
<1>0. CASE phase' \notin {"idle", "check", "building"}
  BY <1>0 DEF BuildInv
<1>1. CASE UNCHANGED build_vars /\ (phase = "idle" \/ UNCHANGED chain)
  <2>1. phase' = phase /\ UNCHANGED <<hints, layout, next_chunk, nodes, leaf, chaser>>
    BY <1>1 DEF build_vars, input_vars
  <2>2. CASE phase = "building"
    <3>1. Threads /\ Threads'
      BY <2>1, <2>2 DEF BuildInv, Threads
    <3>2. ASSUME Laid, LeavesLeft, ParentsLeft PROVE LeavesLeft' /\ ParentsLeft'
      BY <1>1, <2>1, <2>2, <3>2, LeavesKept, ParentsKept
    <3> QED BY <1>1, <2>1, <2>2, <3>1, <3>2, BuildingStep
  <2>3. CASE phase # "building"
    BY <2>1, <2>3 DEF BuildInv
  <2> QED BY <2>2, <2>3
<1>2. CASE phase = "idle" /\ GeneratorNext /\ UNCHANGED build_vars
  BY <1>1, <1>2
<1>3. CASE reorganize
  <2>1. phase = "idle" /\ UNCHANGED build_vars
    BY <1>3 DEF reorganize
  <2> QED BY <1>1, <2>1
<1>4. CASE BuildNext
  <2>1. CASE from_reader \/ MainStep
    BY <2>1, MainSteps, BuildStarts DEF MainStep
  <2>2. ASSUME NEW w \in LeafWorkers, LeafStep(w) \/ leaf_failure(w) \/ leaf_panic(w)
        PROVE  BuildInv'
    <3>1. phase' = phase
      BY <2>2 DEF LeafStep, acquire, write_leaf, write_refused, end_block, count_changed, put_batch,
                  leaf_failure, leaf_panic
    <3>2. CASE phase \in {"idle", "check"}
      <4>1. leaf[w].pc = "acquire"
        BY <3>2 DEF BuildInv, IdleLeaf
      <4> QED BY <2>2, <3>2, <4>1 DEF LeafStep, acquire, write_leaf, write_refused, end_block,
                                      count_changed, put_batch, leaf_failure, leaf_panic
    <3>3. CASE phase = "building"
      BY <2>2, <3>3, AcquireStep, WriteLeafStep, EndBlockStep, OtherLeafSteps DEF LeafStep
    <3> QED BY <1>0, <3>1, <3>2, <3>3
  <2>3. ASSUME NEW c \in ChaserWorkers, ChaserStep(c)
        PROVE  BuildInv'
    <3>1. phase' = phase /\ phase \in {"building", "joining"}
      BY <2>3 DEF ChaserStep, read_ready, write_parent, parent_refused, wait_child, chaser_aborted, Looking
    <3>2. CASE phase = "building"
      BY <2>3, <3>2, WriteParentStep, OtherChaserSteps DEF ChaserStep
    <3> QED BY <1>0, <3>1, <3>2
  <2> QED BY <1>4, <2>1, <2>2, <2>3 DEF BuildNext
<1>5. CASE SteadyNext
  BY <1>0, <1>5, SteadyFrame DEF SteadyPhases
<1>6. CASE UNCHANGED vars
  BY <1>1, <1>6 DEF vars, bootstrap_vars, generator_vars
<1> QED BY <1>2, <1>3, <1>4, <1>5, <1>6 DEF Next, BootstrapNext

LEMMA BuildInitial ==
    ASSUME Init PROVE BuildInv
  BY DEF Init, BootstrapInit, BuildInit, BuildInv

\* Work that is left is unset, and nobody else's.
LEMMA WorkIsApart ==
    ASSUME BuildInv PROVE OneWriter
<1> SUFFICES ASSUME phase = "building", SameCounts
             PROVE  /\ \A w \in LeafWorkers : Pending(w) => Free(BottomPosition(w))
                    /\ \A w, v \in LeafWorkers : Pending(w) /\ Pending(v) /\ w # v =>
                          BottomPosition(w) # BottomPosition(v)
                    /\ \A c \in ChaserWorkers : chaser[c].pc = "run" => Free(ParentPosition(c))
                    /\ \A c, d \in ChaserWorkers : chaser[c].pc = "run" /\ chaser[d].pc = "run" /\ c # d =>
                          ParentPosition(c) # ParentPosition(d)
  BY DEF OneWriter
<1>1. Laid /\ LeavesLeft /\ ParentsLeft /\ DOMAIN nodes = 0 .. forest_capacity(forest_rows) - 1
  BY DEF BuildInv
<1>2. ASSUME NEW w \in LeafWorkers, Pending(w)
      PROVE  /\ Filling(w) /\ leaf[w].height \in 1 .. hints.stop /\ leaf[w].end \in leaf[w].height .. hints.stop
             /\ leaf[w].local \in 0 .. hints.counts[leaf[w].height] - 1
             /\ BottomPosition(w) = leaf_offset(leaf[w].height) + leaf[w].local
  <2>1. /\ Filling(w) /\ leaf[w].height \in 1 .. hints.stop /\ leaf[w].end \in leaf[w].height .. hints.stop
        /\ leaf[w].local \in Nat
    BY <1>1, <1>2 DEF Pending, Filling, LeavesLeft
  <2>2. leaf[w].local < hints.counts[leaf[w].height]
    BY <1>2, <2>1 DEF Pending, MoreLeaves, visit_kernel_leaf_outputs, SameCounts
  <2>3. hints.counts[leaf[w].height] \in Nat
    BY <1>1, <2>1 DEF Laid
  <2> QED BY <2>1, <2>2, <2>3 DEF BottomPosition
<1>3. ASSUME NEW w \in LeafWorkers, Pending(w) PROVE Free(BottomPosition(w))
  <2>1. hints.stop \in Nat
    BY <1>1 DEF Laid
  <2>2. Ahead(w, leaf[w].height, leaf[w].local)
    BY <1>2, <1>3, <2>1 DEF Ahead
  <2>3. nodes[BottomPosition(w)] = Unset
    BY <1>1, <1>2, <1>3, <2>2 DEF LeavesLeft
  <2>4. BottomPosition(w) \in 0 .. leaves - 1
    BY <1>1, <1>2, <1>3, LeavesApart
  <2> QED BY <1>1, <2>3, <2>4, ForestSize DEF Free
<1>4. ASSUME NEW w \in LeafWorkers, NEW v \in LeafWorkers, Pending(w), Pending(v), w # v
      PROVE  BottomPosition(w) # BottomPosition(v)
  <2>1. SUFFICES ASSUME BottomPosition(w) = BottomPosition(v) PROVE FALSE
    OBVIOUS
  <2>2. leaf[w].height = leaf[v].height
    BY <1>1, <1>2, <1>4, <2>1, LeavesApart
  <2>3. leaf[w].end < leaf[v].height \/ leaf[v].end < leaf[w].height
    BY <1>1, <1>2, <1>4 DEF LeavesLeft
  <2>4. hints.stop \in Nat
    BY <1>1 DEF Laid
  <2> QED BY <1>2, <1>4, <2>2, <2>3, <2>4
<1>5. ASSUME NEW c \in ChaserWorkers, chaser[c].pc = "run"
      PROVE  /\ ParentPosition(c) = ParentAt(chaser[c].row, chaser[c].parent)
             /\ chaser[c].row \in 0 .. forest_rows - 1
             /\ chaser[c].parent \in 0 .. parent_count(chaser[c].row) - 1
             /\ Task(c, chaser[c].row, chaser[c].parent) /\ chaser[c].parent \in Nat
  <2>1. Chasing(chaser[c], c)
    BY <1>1, <1>5 DEF ParentsLeft
  <2> QED BY <1>1, <2>1, ChasingTask DEF ParentPosition, ParentAt, Chasing
<1>6. ASSUME NEW c \in ChaserWorkers, chaser[c].pc = "run" PROVE Free(ParentPosition(c))
  <2>1. Above(chaser[c], chaser[c].row, chaser[c].parent)
    BY <1>5, <1>6 DEF Above
  <2>2. nodes[ParentPosition(c)] = Unset
    BY <1>1, <1>5, <1>6, <2>1 DEF ParentsLeft
  <2>3. ParentPosition(c) \in DOMAIN nodes
    BY <1>1, <1>5, <1>6, ParentPlaces
  <2> QED BY <2>2, <2>3 DEF Free
<1>7. ASSUME NEW c \in ChaserWorkers, NEW d \in ChaserWorkers, chaser[c].pc = "run", chaser[d].pc = "run", c # d
      PROVE  ParentPosition(c) # ParentPosition(d)
  <2>1. SUFFICES ASSUME ParentPosition(c) = ParentPosition(d) PROVE FALSE
    OBVIOUS
  <2>2. chaser[c].row = chaser[d].row /\ chaser[c].parent = chaser[d].parent
    BY <1>1, <1>5, <1>7, <2>1, ParentsApart
  <2>3. Task(c, chaser[c].row, chaser[c].parent) /\ Task(d, chaser[c].row, chaser[c].parent)
    BY <1>5, <1>7, <2>2
  <2>4. c = d
    BY <1>1, <1>5, <1>7, <2>3, TaskOwner
  <2> QED BY <1>7, <2>4
<1> QED BY <1>3, <1>4, <1>6, <1>7

\* The strengthening that the two properties need holds in every reachable state.
THEOREM BootstrapInductive == Spec => []BootstrapInv
<1>1. Init => BootstrapInv
  BY GeneratorInitial, BuildInitial DEF BootstrapInv
<1>2. BootstrapInv /\ [Next]_vars => BootstrapInv'
  BY GeneratorKept, BuildKept DEF BootstrapInv
<1> QED BY <1>1, <1>2, PTL DEF Spec

\* The threads of a build never meet at a position of the forest, whatever the number of workers
\* and the sizes of chunks and batches, through failed reads, panics and aborts: FlatForest::write
\* never finds a node that is already there, as long as the counts of the hints file are those of
\* the chain (HeightRangeAllocator, deterministic_chunk, FlatForest::write).
THEOREM BuildHasOneWriter == Spec => []OneWriter
<1>1. BootstrapInv => OneWriter
  BY WorkIsApart DEF BootstrapInv
<1> QED BY <1>1, BootstrapInductive, PTL

---------------------------------------------------------------------------
(* What a build writes *)

At(row, offset) == start_position_at_row(row, forest_rows) + offset

\* A block that has been claimed has the file's count, unless its worker is not through with it or
\* a worker has failed.
Claims ==
    /\ next_chunk \in Nat
    /\ \A w \in LeafWorkers :
          /\ leaf[w].pc = "ended" => ~(next_chunk * HeightChunk < hints.stop)
          /\ Filling(w) => /\ leaf[w].height \in 1 .. hints.stop /\ leaf[w].end \in leaf[w].height .. hints.stop
                           /\ leaf[w].local \in 0 .. Len(LeavesOf[chain][leaf[w].height])
    /\ \A h \in 1 .. hints.stop : h <= next_chunk * HeightChunk =>
          \/ hints.counts[h] = Len(LeavesOf[chain][h])
          \/ \E w \in LeafWorkers : Filling(w) /\ h \in leaf[w].height .. leaf[w].end
          \/ \E w \in LeafWorkers : leaf[w].pc \in {"failed", "panicked"}

\* The next hint of a worker is the first that it has not passed.
NextHint ==
    \A w \in LeafWorkers : Filling(w) =>
        LET indices == hints.indices[leaf[w].height] IN
        /\ leaf[w].hint \in Nat
        /\ \A n \in DOMAIN indices : n <= leaf[w].hint <=> indices[n] < leaf[w].local

\* Every node that is there is the right one, and a chaser that looks for the right child has found
\* the left one.
Values ==
    /\ \A row \in 0 .. forest_rows : \A offset \in 0 .. (leaves \div Pow2[row]) - 1 :
          nodes[At(row, offset)] \in {Unset, ReferenceTree(ReferenceLeaves)[<<row, offset>>]}
    /\ \A c \in ChaserWorkers : chaser[c].pc = "run" /\ chaser[c].child = "right" =>
          nodes[At(chaser[c].row, 2 * chaser[c].parent)] # Unset

\* Every chaser that runs is at one of its tasks.
Chasers ==
    \A c \in ChaserWorkers : chaser[c].pc = "run" =>
        Chasing(chaser[c], c) /\ chaser[c].child \in {"last", "left", "right"}

\* The build, from the file to its end.
ValueInv ==
    /\ phase \in {"idle", "check", "building", "joining"} => joined \in Nat
    /\ phase \in {"joining", "built"} => LeafWorkers # {}
    /\ phase \in {"idle", "check"} => next_chunk = 0 /\ leaf = [w \in LeafWorkers |-> IdleLeaf]
    /\ phase = "check" => hints \in AllHints /\ layout = Layout(hints.counts)
    /\ phase \in {"building", "joining", "built"} =>
          /\ hints \in AllHints /\ layout = Layout(hints.counts)
          /\ chain \in DOMAIN Chains /\ hints.stop <= tip_height
          /\ Laid /\ Threads
          /\ DOMAIN nodes = 0 .. forest_capacity(forest_rows) - 1
          /\ Chasers
          /\ Claims
          /\ SameCounts => NextHint /\ Values
    /\ phase = "built" => (\A w \in LeafWorkers : leaf[w].pc = "ended") /\ AllInitialized

---------------------------------------------------------------------------
(* Hints are in increasing order *)

LEMMA IncreasingDef ==
    ASSUME NEW S \in SUBSET Nat, NEW b \in Nat, \A i \in S : i <= b
    PROVE  /\ IsFiniteSet(S) /\ Cardinality(S) \in Nat
           /\ DOMAIN Increasing(S) = 1 .. Cardinality(S)
           /\ \A n \in DOMAIN Increasing(S) : Increasing(S)[n] \in S
           /\ \A n, m \in DOMAIN Increasing(S) : n < m => Increasing(S)[n] < Increasing(S)[m]
<1> DEFINE N == Cardinality(S)
           below(i) == {j \in S : j < i}
           rank == [i \in S |-> Cardinality(below(i)) + 1]
           f == Increasing(S)
<1>1. IsFiniteSet(S)
  BY FS_BoundedSetOfNaturals
<1>2. N \in Nat
  BY <1>1, FS_CardinalityType
<1>3. ASSUME NEW i \in S
      PROVE  /\ IsFiniteSet(below(i)) /\ Cardinality(below(i)) \in Nat /\ Cardinality(below(i)) < N
  <2>1. below(i) \in SUBSET S /\ below(i) # S
    OBVIOUS
  <2> HIDE DEF below
  <2>2. IsFiniteSet(below(i)) /\ Cardinality(below(i)) <= N /\ N # Cardinality(below(i))
    BY <1>1, <2>1, FS_Subset
  <2>3. Cardinality(below(i)) \in Nat
    BY <2>2, FS_CardinalityType
  <2> QED BY <1>2, <2>2, <2>3
<1>4. ASSUME NEW i \in S, NEW j \in S, i < j PROVE Cardinality(below(i)) < Cardinality(below(j))
  <2>1. below(i) \in SUBSET below(j) /\ below(j) # below(i)
    <3>1. i \in below(j) /\ i \notin below(i)
      BY <1>4
    <3>2. \A k \in below(i) : k \in below(j)
      BY <1>4
    <3> HIDE DEF below
    <3> QED BY <3>1, <3>2
  <2>2. IsFiniteSet(below(j)) /\ Cardinality(below(j)) \in Nat /\ Cardinality(below(i)) \in Nat
    BY <1>3
  <2> HIDE DEF below
  <2>3. Cardinality(below(i)) <= Cardinality(below(j)) /\ Cardinality(below(j)) # Cardinality(below(i))
    BY <2>1, <2>2, FS_Subset
  <2> QED BY <2>2, <2>3
<1>5. rank \in Injection(S, 1 .. N)
  <2> HIDE DEF below
  <2>1. rank \in [S -> 1 .. N]
    BY <1>2, <1>3
  <2>2. ASSUME NEW i \in S, NEW j \in S, rank[i] = rank[j] PROVE i = j
    <3>1. Cardinality(below(i)) = Cardinality(below(j))
      BY <1>3, <2>2
    <3>2. ~(i < j) /\ ~(j < i)
      BY <1>3, <1>4, <3>1
    <3> QED BY <3>2
  <2> HIDE DEF rank
  <2> QED BY <2>1, <2>2 DEF Injection, IsInjective
<1>6. rank \in Surjection(S, 1 .. N)
  <2>1. IsFiniteSet(1 .. N) /\ Cardinality(1 .. N) = N
    BY <1>2, FS_Interval
  <2> HIDE DEF rank
  <2> QED BY <1>5, <2>1, FS_Injection
<1>7. ASSUME NEW n \in 1 .. N PROVE \E i \in S : Cardinality(below(i)) = n - 1
  <2>1. PICK i \in S : rank[i] = n
    <3> HIDE DEF rank
    <3> QED BY <1>6 DEF Surjection
  <2> HIDE DEF below
  <2>2. Cardinality(below(i)) \in Nat /\ Cardinality(below(i)) + 1 = n
    BY <1>3, <2>1
  <2> QED BY <2>2
<1>8. f = [n \in 1 .. N |-> CHOOSE i \in S : Cardinality(below(i)) = n - 1]
  BY DEF Increasing
<1> HIDE DEF below, f
<1>9. \A n \in 1 .. N : f[n] \in S /\ Cardinality(below(f[n])) = n - 1
  BY <1>7, <1>8
<1>10. DOMAIN f = 1 .. N
  BY <1>8
<1>11. ASSUME NEW n \in 1 .. N, NEW m \in 1 .. N, n < m PROVE f[n] < f[m]
  <2>1. f[n] \in S /\ f[m] \in S /\ Cardinality(below(f[n])) < Cardinality(below(f[m]))
    BY <1>2, <1>9, <1>11
  <2> DEFINE a == f[n]
             d == f[m]
  <2>2. /\ a \in S /\ d \in S /\ Cardinality(below(a)) \in Nat /\ Cardinality(below(d)) \in Nat
        /\ Cardinality(below(a)) < Cardinality(below(d))
    BY <1>3, <2>1
  <2> HIDE DEF a, d
  <2>3. d < a => Cardinality(below(d)) < Cardinality(below(a))
    BY <1>4, <2>2
  <2>4. a \in Nat /\ d \in Nat /\ (d = a => Cardinality(below(d)) = Cardinality(below(a)))
    BY <2>2
  <2>5. a < d
    BY <2>2, <2>3, <2>4
  <2> QED BY <2>5 DEF a, d
<1> QED BY <1>1, <1>2, <1>9, <1>10, <1>11 DEF f

\* The places of a block in a file that the tool wrote.
LEMMA HintsIncrease ==
    ASSUME NEW x \in AllHints, NEW h \in 1 .. x.stop
    PROVE  /\ \A n \in DOMAIN x.indices[h] : n \in Nat \ {0} /\ x.indices[h][n] \in Nat
           /\ \A n, m \in DOMAIN x.indices[h] : n < m => x.indices[h][n] < x.indices[h][m]
           /\ Len(x.indices[h]) \in Nat /\ DOMAIN x.indices[h] = 1 .. Len(x.indices[h])
<1>0. PICK c \in DOMAIN Chains : x \in {HintsOf(c, n) : n \in StopHeights \cap DOMAIN Chains[c]}
  BY DEF AllHints
<1>1. PICK stop \in StopHeights \cap DOMAIN Chains[c] : x = HintsOf(c, stop)
  BY <1>0
<1> DEFINE kept(g) == {i \in DOMAIN LeavesOf[c][g] :
                          ~(\/ LeavesOf[c][g][i] \in bip30_excluded_outpoint(g)
                            \/ \E k \in g + 1 .. stop : LeavesOf[c][g][i] \in ToSet(Spends(Chains[c][k])))}
           S == {i - 1 : i \in kept(h)}
<1>2. x.stop = stop /\ x.indices = [g \in 1 .. stop |-> Increasing({i - 1 : i \in kept(g)})]
  BY <1>1 DEF HintsOf, Hints
<1>3. x.indices[h] = Increasing(S)
  <2> HIDE DEF kept
  <2> QED BY <1>2
<1>4. h \in DOMAIN Chains[c]
  BY <1>2, ChainsAssumption
<1>5. Len(LeavesOf[c][h]) \in Nat /\ DOMAIN LeavesOf[c][h] = 1 .. Len(LeavesOf[c][h])
  BY <1>4, ChainsAssumption
<1>6. S \in SUBSET Nat /\ \A i \in S : i <= Len(LeavesOf[c][h])
  BY <1>5
<1> HIDE DEF S
<1>7. /\ Cardinality(S) \in Nat /\ DOMAIN Increasing(S) = 1 .. Cardinality(S)
      /\ \A n \in DOMAIN Increasing(S) : Increasing(S)[n] \in S
      /\ \A n, m \in DOMAIN Increasing(S) : n < m => Increasing(S)[n] < Increasing(S)[m]
  BY <1>5, <1>6, IncreasingDef
<1> DEFINE f == x.indices[h]
           N == Cardinality(S)
<1>8. /\ N \in Nat /\ DOMAIN f = 1 .. N /\ \A n \in DOMAIN f : f[n] \in S
      /\ \A n, m \in DOMAIN f : n < m => f[n] < f[m]
  BY <1>3, <1>7
<1> HIDE DEF f, N
<1>9. f \in [1 .. N -> Nat]
  <2>1. f = [n \in 1 .. N |-> f[n]]
    BY <1>3, <1>7 DEF f, N, Increasing
  <2> QED BY <1>6, <1>8, <2>1
<1>10. Len(f) = N
  BY <1>8, <1>9
<1> QED BY <1>8, <1>9, <1>10 DEF f

---------------------------------------------------------------------------
(* The reference *)

\* The recursion over the rows has a solution.
LEMMA TreeExists ==
    ASSUME NEW list
    PROVE  \E f : f = [at \in (0 .. MaxShift) \X Nat |->
                          IF at[1] = 0 THEN list[at[2] + 1]
                          ELSE combine_children(f[<<at[1] - 1, 2 * at[2]>>], f[<<at[1] - 1, 2 * at[2] + 1>>])]
<1> DEFINE D == (0 .. MaxShift) \X Nat
           Rule(f, at) == IF at[1] = 0 THEN list[at[2] + 1]
                          ELSE combine_children(f[<<at[1] - 1, 2 * at[2]>>], f[<<at[1] - 1, 2 * at[2] + 1>>])
           Good(f, k) == /\ f = [at \in D |-> f[at]]
                         /\ \A at \in D : at[1] <= k => f[at] = Rule(f, at)
           S == {k \in 0 .. MaxShift : \E f : Good(f, k)}
<1>0. MaxShift \in Nat
  BY ShiftAssumption
<1>1. 0 \in S
  <2> DEFINE f == [at \in D |-> list[at[2] + 1]]
  <2>1. ASSUME NEW at \in D, at[1] <= 0 PROVE f[at] = Rule(f, at)
    <3>1. at[1] = 0
      BY <1>0, <2>1
    <3> QED BY <3>1
  <2>2. f = [at \in D |-> f[at]]
    OBVIOUS
  <2> HIDE DEF Rule, f, D
  <2>3. Good(f, 0)
    BY <2>1, <2>2
  <2> HIDE DEF Good
  <2> QED BY <1>0, <2>3
<1>2. ASSUME NEW k \in S, k < MaxShift PROVE k + 1 \in S
  <2>1. PICK f : Good(f, k)
    OBVIOUS
  <2> DEFINE g == [at \in D |-> IF at[1] = k + 1 THEN Rule(f, at) ELSE f[at]]
  <2>0. k \in Nat /\ k + 1 \in 0 .. MaxShift
    BY <1>0, <1>2
  <2>2. ASSUME NEW at \in D, at[1] <= k + 1 PROVE g[at] = Rule(g, at)
    <3>1. g[at] = Rule(f, at)
      <4>1. CASE at[1] = k + 1
        BY <4>1
      <4>2. CASE at[1] # k + 1
        <5>1. at[1] <= k
          BY <1>0, <2>0, <2>2, <4>2
        <5>2. f[at] = Rule(f, at)
          BY <2>1, <5>1
        <5> QED BY <4>2, <5>2
      <4> QED BY <4>1, <4>2
    <3>2. CASE at[1] = 0
      BY <3>1, <3>2
    <3>3. CASE at[1] # 0
      <4> DEFINE l == <<at[1] - 1, 2 * at[2]>>
                 r == <<at[1] - 1, 2 * at[2] + 1>>
      <4>1. l \in D /\ r \in D /\ l[1] # k + 1 /\ r[1] # k + 1
        BY <1>0, <2>0, <2>2, <3>3
      <4> HIDE DEF l, r
      <4>2. g[l] = f[l] /\ g[r] = f[r]
        BY <4>1
      <4>3. Rule(f, at) = combine_children(f[l], f[r]) /\ Rule(g, at) = combine_children(g[l], g[r])
        BY <3>3 DEF l, r
      <4> QED BY <3>1, <4>2, <4>3
    <3> QED BY <3>2, <3>3
  <2>3. g = [at \in D |-> g[at]]
    OBVIOUS
  <2> HIDE DEF Rule, g, D
  <2>4. Good(g, k + 1)
    BY <2>2, <2>3
  <2> HIDE DEF Good
  <2> QED BY <2>0, <2>4
<1>3. MaxShift \in S
  <2>0. S \in SUBSET Nat
    OBVIOUS
  <2> HIDE DEF S
  <2>1. \A n \in S : n < MaxShift => n + 1 \in S
    BY <1>2
  <2>2. \A n \in 0 .. MaxShift : n \in S
    BY <1>0, <1>1, <2>0, <2>1, UpTo
  <2> QED BY <1>0, <2>2
<1>4. PICK f : Good(f, MaxShift)
  BY <1>3
<1>5. f = [at \in D |-> Rule(f, at)]
  <2>1. \A at \in D : at[1] <= MaxShift
    BY <1>0
  <2> HIDE DEF D, Rule
  <2>2. \A at \in D : f[at] = Rule(f, at)
    BY <1>4, <2>1
  <2>3. f = [at \in D |-> f[at]]
    BY <1>4
  <2> QED BY <2>2, <2>3
<1> QED BY <1>5

LEMMA TreeDef ==
    ASSUME NEW list
    PROVE  /\ \A o \in Nat : ReferenceTree(list)[<<0, o>>] = list[o + 1]
           /\ \A r \in 0 .. MaxShift - 1 : \A o \in Nat :
                 ReferenceTree(list)[<<r + 1, o>>] =
                     combine_children(ReferenceTree(list)[<<r, 2 * o>>], ReferenceTree(list)[<<r, 2 * o + 1>>])
<1> DEFINE D(f) == [at \in (0 .. MaxShift) \X Nat |->
                        IF at[1] = 0 THEN list[at[2] + 1]
                        ELSE combine_children(f[<<at[1] - 1, 2 * at[2]>>], f[<<at[1] - 1, 2 * at[2] + 1>>])]
           T == ReferenceTree(list)
<1>0. MaxShift \in Nat
  BY ShiftAssumption
<1>1. \E f : f = D(f)
  BY TreeExists
<1>2. T = CHOOSE f : f = D(f)
  BY DEF ReferenceTree
<1>3. T = D(T)
  <2> HIDE DEF D
  <2> QED BY <1>1, <1>2
<1> HIDE DEF T
<1>4. ASSUME NEW o \in Nat PROVE T[<<0, o>>] = list[o + 1]
  <2>1. D(T)[<<0, o>>] = list[o + 1]
    BY <1>0
  <2> HIDE DEF D
  <2> QED BY <1>3, <2>1, Zenon
<1>5. ASSUME NEW r \in 0 .. MaxShift - 1, NEW o \in Nat
      PROVE  T[<<r + 1, o>>] = combine_children(T[<<r, 2 * o>>], T[<<r, 2 * o + 1>>])
  <2>0. <<r + 1, o>> \in (0 .. MaxShift) \X Nat /\ r + 1 # 0 /\ (r + 1) - 1 = r
    BY <1>0
  <2>1. D(T)[<<r + 1, o>>] = combine_children(T[<<(r + 1) - 1, 2 * o>>], T[<<(r + 1) - 1, 2 * o + 1>>])
    BY <2>0
  <2>2. D(T)[<<r + 1, o>>] = combine_children(T[<<r, 2 * o>>], T[<<r, 2 * o + 1>>])
    BY <2>0, <2>1
  <2> HIDE DEF D
  <2> QED BY <1>3, <2>2, Zenon
<1> QED BY <1>4, <1>5 DEF T

\* The reference has each leaf where the layout has it, if the counts are those of the chain.
LEMMA ReferencePlaces ==
    ASSUME Laid, SameCounts, hints \in AllHints, layout = Layout(hints.counts),
           NEW h \in 1 .. hints.stop, NEW i \in 0 .. hints.counts[h] - 1
    PROVE  ReferenceLeaves[(leaf_offset(h) + i) + 1] = ReferenceLeaf(h, i + 1)
<1> DEFINE N == hints.stop
           counts == [g \in 1 .. N |-> Len(LeavesOf[chain][g])]
           before == LeavesBefore(counts)
           block(p) == CHOOSE g \in 1 .. N : before[g] < p /\ p <= before[g + 1]
           p0 == (leaf_offset(h) + i) + 1
<1>1. N \in Nat \ {0} /\ hints.counts \in [1 .. N -> Nat]
  BY HintFacts
<1>2. hints.counts = counts
  <2>1. \A g \in 1 .. N : hints.counts[g] = counts[g]
    BY DEF SameCounts
  <2> HIDE DEF counts
  <2>2. DOMAIN counts = 1 .. N
    BY DEF counts
  <2>3. counts = [g \in 1 .. N |-> counts[g]]
    BY DEF counts
  <2> QED BY <1>1, <2>1, <2>3
<1>3. layout.offsets = before
  BY <1>2 DEF Layout
<1>4. \A g : leaf_offset(g) = before[g]
  BY <1>3 DEF leaf_offset
<1>5. ReferenceLeaves = [p \in 1 .. before[N + 1] |-> ReferenceLeaf(block(p), p - before[block(p)])]
  BY DEF ReferenceLeaves
<1> HIDE DEF before
<1>6. /\ leaf_offset(h) \in Nat /\ leaf_offset(h + 1) = leaf_offset(h) + hints.counts[h] /\ hints.counts[h] \in Nat
      /\ leaf_offset(N + 1) \in Nat /\ leaf_offset(N + 1) = leaves
  BY DEF Laid
<1>7. leaf_offset(h) + i \in 0 .. leaves - 1
  BY LeavesApart
<1>8. p0 \in 1 .. before[N + 1]
  BY <1>4, <1>6, <1>7
<1>9. before[h] < p0 /\ p0 <= before[h + 1]
  BY <1>4, <1>6
<1>10. ASSUME NEW g \in 1 .. N, before[g] < p0, p0 <= before[g + 1] PROVE g = h
  <2>1. leaf_offset(g) \in Nat /\ leaf_offset(g + 1) = leaf_offset(g) + hints.counts[g] /\ hints.counts[g] \in Nat
    BY DEF Laid
  <2> DEFINE j == (p0 - 1) - leaf_offset(g)
  <2>2. j \in 0 .. hints.counts[g] - 1 /\ leaf_offset(h) + i = leaf_offset(g) + j
    BY <1>4, <1>6, <1>10, <2>1
  <2> HIDE DEF j
  <2> QED BY <2>2, LeavesApart
<1>11. block(p0) = h
  <2> HIDE DEF p0
  <2> QED BY <1>9, <1>10
<1>12. p0 - before[h] = i + 1
  BY <1>4, <1>6
<1>13. ReferenceLeaves[p0] = ReferenceLeaf(block(p0), p0 - before[block(p0)])
  <2> HIDE DEF p0, block
  <2> QED BY <1>5, <1>8
<1>14. ReferenceLeaves[p0] = ReferenceLeaf(h, i + 1)
  <2> HIDE DEF p0, block
  <2> QED BY <1>11, <1>12, <1>13
<1> QED BY <1>14

\* A node of a tree is in its row.
LEMMA NodePlaces ==
    ASSUME Laid, NEW row \in 0 .. forest_rows
    PROVE  /\ leaves \div Pow2[row] \in Nat /\ forest_rows - row \in Nat /\ Pow2[forest_rows - row] \in Nat
           /\ leaves \div Pow2[row] <= Pow2[forest_rows - row]
           /\ start_position_at_row(row, forest_rows) \in Nat
<1> DEFINE R == forest_rows
           P == Pow2[row]
           Q == Pow2[R - row]
           m == leaves \div P
<1>1. /\ R \in Nat /\ R + 1 <= MaxShift /\ leaves \in Nat /\ leaves <= Pow2[R] /\ MaxShift \in Nat
  BY ShiftAssumption DEF Laid
<1>2. row \in Nat /\ R - row \in Nat /\ row + (R - row) = R /\ row \in 0 .. MaxShift /\ R - row \in 0 .. MaxShift
  BY <1>1
<1> HIDE DEF R
<1>3. P \in Nat /\ Q \in Nat /\ 1 <= P /\ Pow2[R] = P * Q
  <2>1. P \in Nat /\ Q \in Nat
    BY <1>2, PowDef
  <2>2. 1 <= P
    BY <1>1, <1>2, PowGrows
  <2>3. Pow2[R] = P * Q
    BY <1>1, <1>2, PowSplit
  <2> QED BY <2>1, <2>2, <2>3
<1>4. m \in Nat /\ P * m <= leaves
  <2>1. P \in Nat \ {0} /\ leaves \in Nat
    BY <1>1, <1>3
  <2> HIDE DEF P
  <2> QED BY <2>1, Divide
<1> HIDE DEF P, Q, m
<1>5. m <= Q
  <2>1. SUFFICES ASSUME m > Q PROVE FALSE
    BY <1>3, <1>4
  <2>2. PICK d \in Nat : m = (Q + 1) + d
    <3>1. m - (Q + 1) \in Nat /\ m = (Q + 1) + (m - (Q + 1))
      BY <1>3, <1>4, <2>1
    <3> QED BY <3>1
  <2>3. P * m = P * (Q + 1) + P * d /\ P * d \in Nat /\ P * (Q + 1) \in Nat
    BY <1>3, <2>2
  <2>4. P * (Q + 1) = P * Q + P /\ P * Q \in Nat
    BY <1>3
  <2> QED BY <1>1, <1>3, <1>4, <2>3, <2>4
<1>6. start_position_at_row(row, R) \in Nat
  <2>1. row \in 0 .. R
    BY DEF R
  <2> QED BY <1>1, <2>1, RowBounds
<1> QED BY <1>2, <1>3, <1>4, <1>5, <1>6 DEF R, P, Q, m

\* Two nodes of the trees have two positions.
LEMMA NodesApart ==
    ASSUME Laid, NEW row \in 0 .. forest_rows, NEW o \in 0 .. (leaves \div Pow2[row]) - 1,
           NEW other \in 0 .. forest_rows, NEW j \in Nat, j < Pow2[forest_rows - other],
           At(row, o) = At(other, j)
    PROVE  row = other /\ o = j
<1>1. forest_rows \in Nat /\ forest_rows + 1 <= MaxShift
  BY DEF Laid
<1>2. o \in Nat /\ o < Pow2[forest_rows - row]
  BY NodePlaces
<1> QED BY <1>1, <1>2, PositionsApart DEF At

---------------------------------------------------------------------------
(* Steps of the threads, and what they leave alone *)

\* The reference is a function of the file and the chain.
LEMMA ReferenceFrame ==
    ASSUME UNCHANGED <<chain, hints, layout>>
    PROVE  /\ \A row, offset : At(row, offset)' = At(row, offset)
           /\ \A x : ReferenceTree(ReferenceLeaves)'[x] = ReferenceTree(ReferenceLeaves)[x]
           /\ (Laid' <=> Laid) /\ (SameCounts' <=> SameCounts) /\ tip_height' = tip_height
           /\ forest_rows' = forest_rows /\ leaves' = leaves
           /\ \A k, c : Chasing(k, c)' <=> Chasing(k, c)
<1>1. \A h, i : ReferenceLeaf(h, i)' = ReferenceLeaf(h, i)
  BY DEF ReferenceLeaf, LeafNode, block_at_height
<1>2. ReferenceLeaves' = ReferenceLeaves
  BY <1>1 DEF ReferenceLeaves
<1>3. ReferenceTree(ReferenceLeaves)' = ReferenceTree(ReferenceLeaves)
  BY <1>2
<1>4. \A row, offset : At(row, offset)' = At(row, offset)
  BY LayoutFrame DEF At
<1>5. tip_height' = tip_height
  BY DEF tip_height
<1> QED BY <1>3, <1>4, <1>5, LayoutFrame

Working == phase \in {"building", "joining"}

LEMMA WorkStep ==
    ASSUME ValueInv, Working, Working', UNCHANGED <<chain, hints, layout>>,
           joined' \in Nat, phase' = "joining" => LeafWorkers # {},
           DOMAIN nodes' = DOMAIN nodes, Threads',
           \A c \in ChaserWorkers : chaser'[c].pc = "run" =>
              Chasing(chaser'[c], c) /\ chaser'[c].child \in {"last", "left", "right"},
           Claims', SameCounts => NextHint' /\ Values'
    PROVE  ValueInv'
<1>1. /\ hints \in AllHints /\ layout = Layout(hints.counts) /\ hints.stop <= tip_height
      /\ Laid /\ DOMAIN nodes = 0 .. forest_capacity(forest_rows) - 1 /\ chain' \in DOMAIN Chains
  BY DEF ValueInv, Working
<1>2. /\ hints' \in AllHints /\ layout' = Layout(hints'.counts) /\ hints'.stop <= tip_height'
      /\ Laid' /\ DOMAIN nodes' = 0 .. forest_capacity(forest_rows') - 1
  BY <1>1, ReferenceFrame
<1>3. Chasers'
  BY LayoutFrame DEF Chasers
<1>4. SameCounts' => NextHint' /\ Values'
  BY ReferenceFrame
<1>5. phase' \in {"building", "joining"}
  BY DEF Working
<1> QED BY <1>1, <1>2, <1>3, <1>4, <1>5 DEF ValueInv

\* Waking a chaser does not change what it looks for.
LEMMA WokenLooks ==
    ASSUME Threads, NEW c \in ChaserWorkers
    PROVE  Woken[c].child = chaser[c].child
<1>1. DOMAIN chaser[c] = DOMAIN IdleChaser /\ Woken[c] = [chaser[c] EXCEPT !.parked = FALSE]
  BY DEF Threads, Woken
<1> QED BY <1>1 DEF IdleChaser

\* A worker moves on within what has been claimed.
LEMMA ClaimsMove ==
    ASSUME Claims, Threads, UNCHANGED <<chain, hints, next_chunk>>, NEW w \in LeafWorkers, NEW rec,
           leaf' = [leaf EXCEPT ![w] = rec], leaf[w].pc \notin {"failed", "panicked"},
           rec.pc = "ended" => ~(next_chunk * HeightChunk < hints.stop),
           rec.pc = "fill" => /\ rec.height \in 1 .. hints.stop /\ rec.end \in rec.height .. hints.stop
                              /\ rec.local \in 0 .. Len(LeavesOf[chain][rec.height]),
           \A h \in 1 .. hints.stop : Filling(w) /\ h \in leaf[w].height .. leaf[w].end =>
              \/ hints.counts[h] = Len(LeavesOf[chain][h])
              \/ rec.pc = "fill" /\ h \in rec.height .. rec.end
              \/ rec.pc \in {"failed", "panicked"}
    PROVE  Claims'
<1>1. leaf'[w] = rec /\ \A v \in LeafWorkers : v # w => leaf'[v] = leaf[v]
  BY DEF Threads
<1>2. \A v \in LeafWorkers :
          /\ leaf'[v].pc = "ended" => ~(next_chunk * HeightChunk < hints.stop)
          /\ Filling(v)' => /\ leaf'[v].height \in 1 .. hints.stop /\ leaf'[v].end \in leaf'[v].height .. hints.stop
                            /\ leaf'[v].local \in 0 .. Len(LeavesOf[chain][leaf'[v].height])
  BY <1>1 DEF Claims, Filling
<1>3. ASSUME NEW h \in 1 .. hints.stop, h <= next_chunk * HeightChunk, hints.counts[h] # Len(LeavesOf[chain][h])
      PROVE  \/ \E v \in LeafWorkers : Filling(v)' /\ h \in leaf'[v].height .. leaf'[v].end
             \/ \E v \in LeafWorkers : leaf'[v].pc \in {"failed", "panicked"}
  <2>1. CASE \E v \in LeafWorkers : Filling(v) /\ h \in leaf[v].height .. leaf[v].end
    <3>1. PICK v \in LeafWorkers : Filling(v) /\ h \in leaf[v].height .. leaf[v].end
      BY <2>1
    <3>2. CASE v = w
      BY <1>1, <1>3, <3>1, <3>2 DEF Filling
    <3>3. CASE v # w
      BY <1>1, <3>1, <3>3 DEF Filling
    <3> QED BY <3>2, <3>3
  <2>2. CASE \E v \in LeafWorkers : leaf[v].pc \in {"failed", "panicked"}
    BY <1>1, <2>2
  <2> QED BY <1>3, <2>1, <2>2 DEF Claims
<1>4. next_chunk' \in Nat
  BY DEF Claims
<1> QED BY <1>2, <1>3, <1>4 DEF Claims

\* Nodes are in the file.
LEMMA NodeInFile ==
    ASSUME Laid, NEW row \in 0 .. forest_rows, NEW o \in 0 .. (leaves \div Pow2[row]) - 1
    PROVE  At(row, o) \in 0 .. forest_capacity(forest_rows) - 1
<1> DEFINE R == forest_rows
           P == Pow2[R - row]
           s == start_position_at_row(row, R)
           m == leaves \div Pow2[row]
<1>1. R \in Nat /\ R + 1 <= MaxShift
  BY DEF Laid
<1>2. m \in Nat /\ m <= P /\ P \in Nat
  BY NodePlaces
<1>3. s \in Nat /\ s + 2 * P = Pow2[R + 1] /\ Pow2[R + 1] \in Nat
  BY <1>1, RowBounds
<1>4. At(row, o) = s + o /\ forest_capacity(R) = Pow2[R + 1] - 1 /\ o \in 0 .. m - 1
  BY DEF At, forest_capacity
<1> HIDE DEF R, P, s, m
<1>5. At(row, o) \in 0 .. forest_capacity(R) - 1
  BY <1>2, <1>3, <1>4
<1> QED BY <1>5 DEF R

\* The children of a chaser's parent are nodes of the trees.
LEMMA Children ==
    ASSUME Laid, NEW c, NEW k, Chasing(k, c)
    PROVE  /\ k.row \in 0 .. forest_rows /\ k.parent \in Nat
           /\ 2 * k.parent \in 0 .. (leaves \div Pow2[k.row]) - 1
           /\ 2 * k.parent + 1 \in 0 .. (leaves \div Pow2[k.row]) - 1
<1> DEFINE m == leaves \div Pow2[k.row]
<1>1. k.row \in 0 .. forest_rows - 1 /\ k.parent \in 0 .. parent_count(k.row) - 1
  BY ChasingTask
<1>2. forest_rows \in Nat
  BY DEF Laid
<1>3. k.row \in 0 .. forest_rows
  BY <1>1, <1>2
<1>4. m \in Nat
  BY <1>3, NodePlaces
<1>5. parent_count(k.row) = m \div 2
  BY DEF parent_count
<1> HIDE DEF m
<1>6. k.parent \in 0 .. (m \div 2) - 1
  BY <1>1, <1>5
<1>7. k.parent \in Nat /\ 2 * k.parent \in 0 .. m - 1 /\ 2 * k.parent + 1 \in 0 .. m - 1
  BY <1>4, <1>6
<1> QED BY <1>3, <1>7 DEF m

\* A step of a leaf worker.
LEMMA LeafMoves ==
    ASSUME ValueInv, Working, UNCHANGED <<phase, joined, chain, hints, layout>>,
           NEW w \in LeafWorkers, NEW rec, leaf' = [leaf EXCEPT ![w] = rec],
           DOMAIN rec = DOMAIN IdleLeaf, chaser' = chaser \/ chaser' = Woken,
           DOMAIN nodes' = DOMAIN nodes, \A p \in DOMAIN nodes : nodes[p] # Unset => nodes'[p] = nodes[p],
           Claims',
           SameCounts /\ rec.pc = "fill" =>
              /\ rec.hint \in Nat
              /\ \A n \in DOMAIN hints.indices[rec.height] :
                    n <= rec.hint <=> hints.indices[rec.height][n] < rec.local,
           SameCounts =>
              \A row \in 0 .. forest_rows : \A offset \in 0 .. (leaves \div Pow2[row]) - 1 :
                 nodes'[At(row, offset)] \in {Unset, ReferenceTree(ReferenceLeaves)[<<row, offset>>]}
    PROVE  ValueInv'
<1>1. Threads /\ Laid
  BY DEF ValueInv, Working
<1>2. leaf'[w] = rec /\ DOMAIN leaf' = LeafWorkers /\ \A v \in LeafWorkers : v # w => leaf'[v] = leaf[v]
  BY <1>1 DEF Threads
<1>3. /\ DOMAIN chaser' = ChaserWorkers
      /\ \A c \in ChaserWorkers :
            /\ DOMAIN chaser'[c] = DOMAIN IdleChaser /\ chaser'[c].pc = chaser[c].pc
            /\ chaser'[c].row = chaser[c].row /\ chaser'[c].chunk = chaser[c].chunk
            /\ chaser'[c].parent = chaser[c].parent /\ chaser'[c].child = chaser[c].child
  <2>1. DOMAIN chaser' = ChaserWorkers
    BY <1>1 DEF Threads, Woken
  <2> QED BY <1>1, <2>1, WokenStays, WokenLooks DEF Threads
<1>4. Threads'
  BY <1>1, <1>2, <1>3 DEF Threads
<1>5. \A c \in ChaserWorkers : chaser'[c].pc = "run" =>
         Chasing(chaser'[c], c) /\ chaser'[c].child \in {"last", "left", "right"}
  BY <1>3 DEF ValueInv, Working, Chasers, Chasing
<1>6. ASSUME SameCounts PROVE NextHint' /\ Values'
  <2>1. NextHint /\ Values
    BY <1>6 DEF ValueInv, Working
  <2>2. NextHint'
    BY <1>2, <1>6, <2>1 DEF NextHint, Filling
  <2>3. \A c \in ChaserWorkers : chaser'[c].pc = "run" /\ chaser'[c].child = "right" =>
           nodes'[At(chaser'[c].row, 2 * chaser'[c].parent)] # Unset
    <3>1. SUFFICES ASSUME NEW c \in ChaserWorkers, chaser'[c].pc = "run", chaser'[c].child = "right"
                   PROVE  nodes'[At(chaser[c].row, 2 * chaser[c].parent)] # Unset
      BY <1>3
    <3>2. Chasing(chaser[c], c)
      BY <1>3, <3>1 DEF ValueInv, Working, Chasers
    <3>3. At(chaser[c].row, 2 * chaser[c].parent) \in DOMAIN nodes
      BY <1>1, <3>2, Children, NodeInFile DEF ValueInv, Working
    <3>4. nodes[At(chaser[c].row, 2 * chaser[c].parent)] # Unset
      BY <1>3, <2>1, <3>1 DEF Values
    <3> QED BY <3>3, <3>4
  <2>4. Values'
    BY <1>6, <2>3, ReferenceFrame DEF Values
  <2> QED BY <2>2, <2>4
<1>7. joined' \in Nat /\ (phase' = "joining" => LeafWorkers # {}) /\ Working'
  BY DEF ValueInv, Working
<1> QED BY <1>4, <1>5, <1>6, <1>7, WorkStep

---------------------------------------------------------------------------
(* The steps of a leaf worker *)

\* A worker passes an increasing list of places: it meets the next one when it is the leaf's.
LEMMA HintCounts ==
    ASSUME NEW f, NEW N \in Nat, DOMAIN f = 1 .. N, \A n \in DOMAIN f : f[n] \in Nat,
           \A n, m \in DOMAIN f : n < m => f[n] < f[m],
           NEW k \in Nat, NEW i \in Nat, \A n \in DOMAIN f : n <= k <=> f[n] < i,
           NEW hit \in BOOLEAN, hit <=> k < N /\ f[k + 1] = i
    PROVE  /\ hit <=> \E n \in DOMAIN f : f[n] = i
           /\ \A n \in DOMAIN f : n <= (IF hit THEN k + 1 ELSE k) <=> f[n] < i + 1
<1>1. ASSUME NEW n \in DOMAIN f, f[n] = i PROVE hit /\ n = k + 1
  <2>1. n \in 1 .. N /\ ~(n <= k)
    BY <1>1
  <2>2. k < N /\ k + 1 \in DOMAIN f /\ k + 1 <= n /\ k + 1 \in Nat
    BY <2>1
  <2>3. ~(k + 1 < n)
    <3>1. SUFFICES ASSUME k + 1 < n PROVE FALSE
      OBVIOUS
    <3>2. f[k + 1] < i
      BY <1>1, <2>2, <3>1
    <3>3. k + 1 <= k
      BY <2>2, <3>2
    <3> QED BY <3>3
  <2>4. n = k + 1
    BY <2>1, <2>2, <2>3
  <2> QED BY <1>1, <2>2, <2>4
<1>2. hit => k + 1 \in DOMAIN f /\ f[k + 1] = i
  OBVIOUS
<1>3. hit <=> \E n \in DOMAIN f : f[n] = i
  BY <1>1, <1>2
<1>4. ASSUME NEW n \in DOMAIN f PROVE n <= (IF hit THEN k + 1 ELSE k) <=> f[n] < i + 1
  <2>1. n \in Nat /\ f[n] \in Nat /\ (n <= k <=> f[n] < i)
    OBVIOUS
  <2>2. CASE f[n] = i
    <3>1. hit /\ n = k + 1
      BY <1>1, <2>2
    <3> QED BY <2>1, <2>2, <3>1
  <2>3. CASE f[n] # i
    <3>1. f[n] < i + 1 <=> n <= k
      BY <2>1, <2>3
    <3>2. hit => n # k + 1
      BY <1>2, <2>3
    <3> QED BY <2>1, <3>1, <3>2
  <2> QED BY <2>2, <2>3
<1> QED BY <1>3, <1>4

\* The node of a leaf is the reference's, and its position is no other node's.
LEMMA LeafIsReference ==
    ASSUME ValueInv, Working, SameCounts, NEW w \in LeafWorkers, Filling(w), MoreLeaves(w)
    PROVE  /\ Hinted(w) \in BOOLEAN
           /\ LET hint == IF Hinted(w) THEN leaf[w].hint + 1 ELSE leaf[w].hint
                  indices == hints.indices[leaf[w].height]
              IN  /\ hint \in Nat
                  /\ \A n \in DOMAIN indices : n <= hint <=> indices[n] < leaf[w].local + 1
           /\ ReferenceTree(ReferenceLeaves)[<<0, BottomPosition(w)>>] =
                 LeafNode(leaf[w].height, Outpoint(w), ~Unindexed(w) /\ ~Hinted(w))
           /\ BottomPosition(w) \in 0 .. leaves - 1
           /\ \A row \in 0 .. forest_rows : \A offset \in 0 .. (leaves \div Pow2[row]) - 1 :
                 At(row, offset) = BottomPosition(w) => row = 0 /\ offset = BottomPosition(w)
<1> DEFINE h0 == leaf[w].height
           i0 == leaf[w].local
           f == hints.indices[h0]
           k == leaf[w].hint
           p0 == BottomPosition(w)
           T == ReferenceTree(ReferenceLeaves)
<1>1. /\ hints \in AllHints /\ layout = Layout(hints.counts) /\ Laid /\ Claims /\ NextHint
  BY DEF ValueInv, Working
<1>2. h0 \in 1 .. hints.stop /\ i0 \in 0 .. Len(LeavesOf[chain][h0])
  BY <1>1 DEF Claims
<1>3. i0 < Len(LeavesOf[chain][h0]) /\ hints.counts[h0] = Len(LeavesOf[chain][h0]) /\ hints.counts[h0] \in Nat
  BY <1>1, <1>2 DEF MoreLeaves, visit_kernel_leaf_outputs, SameCounts, Laid
<1>4. i0 \in Nat /\ i0 \in 0 .. hints.counts[h0] - 1
  BY <1>2, <1>3
<1>5. p0 = leaf_offset(h0) + i0
  BY DEF BottomPosition
<1>6. p0 \in 0 .. leaves - 1
  BY <1>1, <1>2, <1>4, <1>5, LeavesApart
<1>7. /\ Len(f) \in Nat /\ DOMAIN f = 1 .. Len(f) /\ \A n \in DOMAIN f : f[n] \in Nat
      /\ \A n, m \in DOMAIN f : n < m => f[n] < f[m]
  BY <1>1, <1>2, HintsIncrease
<1>8. k \in Nat /\ \A n \in DOMAIN f : n <= k <=> f[n] < i0
  BY <1>1 DEF NextHint
<1>9. Hinted(w) \in BOOLEAN /\ (Hinted(w) <=> k < Len(f) /\ f[k + 1] = i0)
  BY DEF Hinted
<1>10. /\ Hinted(w) <=> \E n \in DOMAIN f : f[n] = i0
       /\ \A n \in DOMAIN f : n <= (IF Hinted(w) THEN k + 1 ELSE k) <=> f[n] < i0 + 1
  <2> HIDE DEF f, k, i0
  <2> QED BY <1>4, <1>7, <1>8, <1>9, HintCounts
<1>11. (IF Hinted(w) THEN k + 1 ELSE k) \in Nat
  BY <1>8
<1>12. T[<<0, p0>>] = LeafNode(h0, Outpoint(w), ~Unindexed(w) /\ ~Hinted(w))
  <2>1. T[<<0, p0>>] = ReferenceLeaves[p0 + 1]
    BY <1>6, TreeDef
  <2>2. ReferenceLeaves[(leaf_offset(h0) + i0) + 1] = ReferenceLeaf(h0, i0 + 1)
    BY <1>1, <1>2, <1>4, ReferencePlaces
  <2>3. T[<<0, p0>>] = ReferenceLeaf(h0, i0 + 1)
    BY <1>5, <2>1, <2>2
  <2>4. Outpoint(w) = LeavesOf[chain][h0][i0 + 1]
    BY DEF Outpoint, visit_kernel_leaf_outputs
  <2>5. (Outpoint(w) \notin bip30_excluded_outpoint(h0)) = ~Unindexed(w)
    BY DEF Unindexed
  <2>6. (i0 + 1) - 1 = i0
    BY <1>4
  <2>7. (\A n \in DOMAIN f : f[n] # (i0 + 1) - 1) <=> ~Hinted(w)
    BY <1>10, <2>6
  <2>8. ReferenceLeaf(h0, i0 + 1) =
           LeafNode(h0, Outpoint(w), /\ Outpoint(w) \notin bip30_excluded_outpoint(h0)
                                     /\ \A n \in DOMAIN f : f[n] # (i0 + 1) - 1)
    BY <2>4 DEF ReferenceLeaf
  <2>9. (/\ Outpoint(w) \notin bip30_excluded_outpoint(h0)
         /\ \A n \in DOMAIN f : f[n] # (i0 + 1) - 1) = (~Unindexed(w) /\ ~Hinted(w))
    BY <1>9, <2>5, <2>7
  <2> QED BY <2>3, <2>8, <2>9
<1>13. ASSUME NEW row \in 0 .. forest_rows, NEW offset \in 0 .. (leaves \div Pow2[row]) - 1,
              At(row, offset) = p0
       PROVE  row = 0 /\ offset = p0
  <2>1. forest_rows \in Nat /\ forest_rows + 1 <= MaxShift /\ leaves \in Nat /\ leaves <= Pow2[forest_rows]
    BY <1>1 DEF Laid
  <2>2. start_position_at_row(0, forest_rows) = 0 /\ forest_rows - 0 = forest_rows /\ 0 \in 0 .. forest_rows
    BY <2>1, LeafRow
  <2>3. Pow2[forest_rows] \in Nat
    BY <2>1, PowGrows
  <2>4. p0 \in Nat /\ p0 < Pow2[forest_rows - 0]
    BY <1>6, <2>1, <2>2, <2>3
  <2>5. At(0, p0) = p0
    BY <2>2, <2>4 DEF At
  <2> HIDE DEF p0
  <2> QED BY <1>1, <1>13, <2>2, <2>4, <2>5, NodesApart
<1> QED BY <1>6, <1>9, <1>10, <1>11, <1>12, <1>13

\* The blocks up to the stop height are blocks of the chain.
LEMMA LeafCounts ==
    ASSUME ValueInv, Working, NEW h \in 1 .. hints.stop
    PROVE  Len(LeavesOf[chain][h]) \in Nat
<1>1. hints \in AllHints /\ hints.stop <= tip_height /\ chain \in DOMAIN Chains
  BY DEF ValueInv, Working
<1>2. hints.stop \in Nat
  BY <1>1, HintFacts
<1>3. Len(Chains[chain]) \in Nat /\ DOMAIN Chains[chain] = 1 .. Len(Chains[chain])
  BY <1>1, ChainsAssumption
<1>4. h \in DOMAIN Chains[chain]
  BY <1>1, <1>2, <1>3 DEF tip_height
<1> QED BY <1>1, <1>4, ChainsAssumption

LEMMA LeafWritten ==
    ASSUME ValueInv, Working, NEW w \in LeafWorkers, write_leaf(w)
    PROVE  ValueInv'
<1> DEFINE h0 == leaf[w].height
           i0 == leaf[w].local
           p0 == BottomPosition(w)
           rec == leaf'[w]
           node == LeafNode(h0, Outpoint(w), ~Unindexed(w) /\ ~Hinted(w))
<1>1. /\ UNCHANGED <<phase, joined, chain, hints, layout, next_chunk>> /\ Filling(w) /\ MoreLeaves(w) /\ Free(p0)
      /\ chaser' = chaser \/ chaser' = Woken
      /\ nodes' = [nodes EXCEPT ![p0] = node]
  BY DEF write_leaf, generator_vars, input_vars, publish, Filling, Writable
<1>2. Threads /\ Claims
  BY DEF ValueInv, Working
<1>3. /\ leaf' = [leaf EXCEPT ![w] = rec] /\ DOMAIN rec = DOMAIN IdleLeaf
      /\ rec.pc = "fill" /\ rec.height = h0 /\ rec.end = leaf[w].end /\ rec.local = i0 + 1
      /\ rec.hint = IF Hinted(w) THEN leaf[w].hint + 1 ELSE leaf[w].hint
  <2>1. DOMAIN leaf = LeafWorkers /\ DOMAIN leaf[w] = DOMAIN IdleLeaf /\ leaf[w].pc = "fill"
    BY <1>1, <1>2 DEF Threads, Filling
  <2>2. \E b, c : leaf' = [leaf EXCEPT ![w].local = @ + 1,
                                       ![w].hint = IF Hinted(w) THEN @ + 1 ELSE @,
                                       ![w].entries = b, ![w].unpublished = c]
    BY DEF write_leaf
  <2>3. /\ DOMAIN rec = DOMAIN IdleLeaf
        /\ rec.pc = "fill" /\ rec.height = h0 /\ rec.end = leaf[w].end /\ rec.local = i0 + 1
        /\ rec.hint = IF Hinted(w) THEN leaf[w].hint + 1 ELSE leaf[w].hint
    BY <2>1, <2>2 DEF IdleLeaf
  <2>4. \E r : leaf' = [leaf EXCEPT ![w] = r]
    <3>1. \A b, c : \E r : [leaf EXCEPT ![w].local = @ + 1,
                                       ![w].hint = IF Hinted(w) THEN @ + 1 ELSE @,
                                       ![w].entries = b, ![w].unpublished = c] = [leaf EXCEPT ![w] = r]
      OBVIOUS
    <3> QED BY <2>2, <3>1
  <2>5. leaf' = [leaf EXCEPT ![w] = rec]
    BY <2>1, <2>4
  <2> QED BY <2>3, <2>5
<1>4. DOMAIN nodes' = DOMAIN nodes /\ nodes'[p0] = node /\ nodes[p0] = Unset
      /\ \A p \in DOMAIN nodes : p # p0 => nodes'[p] = nodes[p]
  BY <1>1 DEF Free
<1> HIDE DEF node, p0
<1>5. \A p \in DOMAIN nodes : nodes[p] # Unset => nodes'[p] = nodes[p]
  BY <1>4
<1>6. /\ h0 \in 1 .. hints.stop /\ leaf[w].end \in h0 .. hints.stop
      /\ i0 \in 0 .. Len(LeavesOf[chain][h0]) /\ i0 < Len(LeavesOf[chain][h0])
  BY <1>1, <1>2 DEF Claims, MoreLeaves, visit_kernel_leaf_outputs
<1>7. Len(LeavesOf[chain][h0]) \in Int
  BY <1>6, LeafCounts
<1>8. i0 + 1 \in 0 .. Len(LeavesOf[chain][h0])
  BY <1>6, <1>7
<1>9. Claims'
  <2> HIDE DEF rec
  <2>1. leaf[w].pc = "fill"
    BY <1>1 DEF Filling
  <2> QED BY <1>1, <1>2, <1>3, <1>6, <1>8, <2>1, ClaimsMove
<1>10. ASSUME SameCounts
       PROVE  /\ rec.hint \in Nat
              /\ \A n \in DOMAIN hints.indices[rec.height] :
                    n <= rec.hint <=> hints.indices[rec.height][n] < rec.local
  <2> DEFINE hint == IF Hinted(w) THEN leaf[w].hint + 1 ELSE leaf[w].hint
             indices == hints.indices[h0]
  <2>1. hint \in Nat /\ \A n \in DOMAIN indices : n <= hint <=> indices[n] < i0 + 1
    BY <1>1, <1>10, LeafIsReference, ZenonT(60)
  <2>2. rec.hint = hint /\ rec.local = i0 + 1 /\ hints.indices[rec.height] = indices
    BY <1>3
  <2> HIDE DEF hint, indices, rec
  <2> QED BY <2>1, <2>2
<1>11. ASSUME SameCounts, NEW row \in 0 .. forest_rows, NEW offset \in 0 .. (leaves \div Pow2[row]) - 1
       PROVE  nodes'[At(row, offset)] \in {Unset, ReferenceTree(ReferenceLeaves)[<<row, offset>>]}
  <2>1. /\ ReferenceTree(ReferenceLeaves)[<<0, p0>>] = node
        /\ At(row, offset) = p0 => row = 0 /\ offset = p0
    BY <1>1, <1>11, LeafIsReference DEF p0, node
  <2>2. At(row, offset) \in DOMAIN nodes
    BY NodeInFile DEF ValueInv, Working
  <2>3. nodes[At(row, offset)] \in {Unset, ReferenceTree(ReferenceLeaves)[<<row, offset>>]}
    BY <1>11 DEF ValueInv, Working, Values
  <2>4. CASE At(row, offset) = p0
    BY <1>4, <2>1, <2>4
  <2>5. CASE At(row, offset) # p0
    BY <1>4, <2>2, <2>3, <2>5
  <2> QED BY <2>4, <2>5
<1> HIDE DEF rec
<1> QED BY <1>1, <1>3, <1>4, <1>5, <1>9, <1>10, <1>11, LeafMoves

\* A worker that writes no node.
LEMMA LeafTurns ==
    ASSUME ValueInv, Working, UNCHANGED <<phase, joined, chain, hints, layout, nodes>>,
           NEW w \in LeafWorkers, NEW rec, leaf' = [leaf EXCEPT ![w] = rec],
           DOMAIN rec = DOMAIN IdleLeaf, chaser' = chaser \/ chaser' = Woken, Claims',
           rec.pc = "fill" => rec.hint = 0 /\ rec.local = 0 /\ rec.height \in 1 .. hints.stop
    PROVE  ValueInv'
<1>1. hints \in AllHints
  BY DEF ValueInv, Working
<1>2. ASSUME rec.pc = "fill", NEW n \in DOMAIN hints.indices[rec.height]
      PROVE  n <= rec.hint <=> hints.indices[rec.height][n] < rec.local
  <2>1. n \in Nat \ {0} /\ hints.indices[rec.height][n] \in Nat
    BY <1>1, <1>2, HintsIncrease
  <2> QED BY <1>2, <2>1
<1>3. rec.pc = "fill" => rec.hint \in Nat
  OBVIOUS
<1>4. ASSUME SameCounts, NEW row \in 0 .. forest_rows, NEW offset \in 0 .. (leaves \div Pow2[row]) - 1
      PROVE  nodes'[At(row, offset)] \in {Unset, ReferenceTree(ReferenceLeaves)[<<row, offset>>]}
  BY <1>4 DEF ValueInv, Working, Values
<1> QED BY <1>2, <1>3, <1>4, LeafMoves

LEMMA BlockEnded ==
    ASSUME ValueInv, Working, NEW w \in LeafWorkers, end_block(w)
    PROVE  ValueInv'
<1> DEFINE h0 == leaf[w].height
           e0 == leaf[w].end
           rest == [leaf[w] EXCEPT !.pc = "headers"]
           fresh == [IdleLeaf EXCEPT !.pc = "fill", !.height = h0 + 1, !.end = e0]
<1>1. /\ UNCHANGED <<phase, joined, chain, hints, layout, next_chunk, nodes>> /\ Filling(w)
      /\ chaser' = Woken /\ ~MoreLeaves(w) /\ CountsAgree(w)
  BY DEF end_block, generator_vars, input_vars, publish, Filling
<1>2. Threads /\ Claims /\ Laid
  BY DEF ValueInv, Working
<1>3. /\ h0 \in 1 .. hints.stop /\ e0 \in h0 .. hints.stop /\ leaf[w].local \in 0 .. Len(LeavesOf[chain][h0])
      /\ leaf[w].pc = "fill" /\ hints.stop \in Nat
  BY <1>1, <1>2 DEF Claims, Filling, Laid
<1>4. hints.counts[h0] = Len(LeavesOf[chain][h0])
  <2>1. Len(LeavesOf[chain][h0]) \in Int
    BY <1>3, LeafCounts
  <2>2. hints.counts[h0] = leaf[w].local /\ ~(leaf[w].local < Len(LeavesOf[chain][h0]))
    BY <1>1 DEF MoreLeaves, visit_kernel_leaf_outputs, CountsAgree, leaf_count_at_height
  <2> QED BY <1>3, <2>1, <2>2
<1>5. CASE h0 = e0
  <2>1. leaf' = [leaf EXCEPT ![w] = rest]
    BY <1>5 DEF end_block
  <2>2. DOMAIN rest = DOMAIN IdleLeaf /\ rest.pc = "headers"
    BY <1>2 DEF Threads, IdleLeaf
  <2> HIDE DEF rest
  <2>3. \A h \in h0 .. e0 : h = h0
    BY <1>3, <1>5
  <2>4. Claims'
    BY <1>1, <1>2, <1>3, <1>4, <2>1, <2>2, <2>3, ClaimsMove
  <2> QED BY <1>1, <2>1, <2>2, <2>4, LeafTurns
<1>6. CASE h0 # e0
  <2>1. leaf' = [leaf EXCEPT ![w] = fresh]
    BY <1>6 DEF end_block
  <2>2. /\ DOMAIN fresh = DOMAIN IdleLeaf /\ fresh.pc = "fill" /\ fresh.height = h0 + 1
        /\ fresh.end = e0 /\ fresh.local = 0 /\ fresh.hint = 0
    BY DEF IdleLeaf
  <2> HIDE DEF fresh
  <2>3. h0 + 1 \in 1 .. hints.stop /\ e0 \in h0 + 1 .. hints.stop
    BY <1>3, <1>6
  <2>4. \A h \in h0 .. e0 : h = h0 \/ h \in h0 + 1 .. e0
    BY <1>3
  <2>5. 0 \in 0 .. Len(LeavesOf[chain][h0 + 1])
    BY <2>3, LeafCounts
  <2>6. Claims'
    BY <1>1, <1>2, <1>3, <1>4, <2>1, <2>2, <2>3, <2>4, <2>5, ClaimsMove
  <2> QED BY <1>1, <2>1, <2>2, <2>3, <2>6, LeafTurns
<1> QED BY <1>5, <1>6

LEMMA LeafStopped ==
    ASSUME ValueInv, Working, NEW w \in LeafWorkers,
           \/ write_refused(w) \/ count_changed(w) \/ leaf_failure(w) \/ leaf_panic(w) \/ put_batch(w)
    PROVE  ValueInv'
<1>1. /\ UNCHANGED <<phase, joined, chain, hints, layout, next_chunk, nodes>>
      /\ chaser' = chaser \/ chaser' = Woken
  BY DEF write_refused, count_changed, leaf_failure, leaf_panic, put_batch, LeafError, abort,
         generator_vars, input_vars
<1>2. PICK rest : /\ leaf' = [leaf EXCEPT ![w] = rest]
                  /\ \/ rest = IdleLeaf /\ leaf[w].pc = "headers"
                     \/ /\ rest \in {[IdleLeaf EXCEPT !.pc = "failed"], [IdleLeaf EXCEPT !.pc = "panicked"]}
                        /\ leaf[w].pc \in {"fill", "headers"}
  BY DEF write_refused, count_changed, leaf_failure, leaf_panic, put_batch, LeafError
<1>3. /\ DOMAIN rest = DOMAIN IdleLeaf /\ rest.pc \notin {"fill", "ended"}
      /\ leaf[w].pc \in {"fill", "headers"}
      /\ rest.pc \in {"failed", "panicked"} \/ leaf[w].pc = "headers"
  BY <1>2 DEF IdleLeaf
<1>4. Threads /\ Claims
  BY DEF ValueInv, Working
<1>5. Claims'
  BY <1>1, <1>2, <1>3, <1>4, ClaimsMove DEF Filling
<1> QED BY <1>1, <1>2, <1>3, <1>5, LeafTurns

LEMMA ChunkAcquired ==
    ASSUME ValueInv, NEW w \in LeafWorkers, acquire(w)
    PROVE  ValueInv'
<1> DEFINE claimed == next_chunk * HeightChunk
           start1 == claimed + 1
           rest == [leaf[w] EXCEPT !.pc = "ended"]
           fresh == [IdleLeaf EXCEPT !.pc = "fill", !.height = start1, !.end = chunk_end(next_chunk)]
<1>1. UNCHANGED <<phase, joined, chain, hints, layout, nodes, chaser>> /\ leaf[w].pc = "acquire" /\ Working
  BY DEF acquire, generator_vars, input_vars, Working
<1>2. Threads /\ Claims /\ Laid
  BY <1>1 DEF ValueInv, Working
<1>3. CASE ~(claimed < Stop)
  <2>1. leaf' = [leaf EXCEPT ![w] = rest] /\ UNCHANGED next_chunk
    BY <1>3 DEF acquire
  <2>2. DOMAIN rest = DOMAIN IdleLeaf /\ rest.pc = "ended"
    BY <1>2 DEF Threads, IdleLeaf
  <2> HIDE DEF rest
  <2>3. Claims'
    BY <1>1, <1>2, <1>3, <2>1, <2>2, ClaimsMove DEF Stop, Filling
  <2> QED BY <1>1, <2>1, <2>2, <2>3, LeafTurns
<1>4. CASE claimed < Stop
  <2>1. leaf' = [leaf EXCEPT ![w] = fresh] /\ next_chunk' = next_chunk + 1
    BY <1>4 DEF acquire
  <2>2. /\ DOMAIN fresh = DOMAIN IdleLeaf /\ fresh.pc = "fill" /\ fresh.height = start1
        /\ fresh.end = chunk_end(next_chunk) /\ fresh.local = 0 /\ fresh.hint = 0
    BY DEF IdleLeaf
  <2> HIDE DEF fresh
  <2>3. DOMAIN leaf' = LeafWorkers /\ \A v \in LeafWorkers : leaf'[v] = IF v = w THEN fresh ELSE leaf[v]
    BY <1>2, <2>1 DEF Threads
  <2>4. next_chunk \in Nat /\ hints.stop \in Nat /\ HeightChunk \in Nat \ {0}
    BY <1>2, BuildAssumption DEF Claims, Laid
  <2>5. claimed \in Nat /\ claimed < hints.stop /\ next_chunk' * HeightChunk = claimed + HeightChunk
    BY <1>4, <2>1, <2>4 DEF Stop
  <2>6. /\ chunk_end(next_chunk) \in start1 .. hints.stop /\ start1 \in 1 .. hints.stop
        /\ \A h \in 1 .. hints.stop :
              h <= claimed + HeightChunk => h <= claimed \/ h \in start1 .. chunk_end(next_chunk)
    <3>1. (next_chunk + 1) * HeightChunk = claimed + HeightChunk
      BY <2>4
    <3> QED BY <2>4, <2>5, <3>1 DEF chunk_end, Stop
  <2>7. 0 \in 0 .. Len(LeavesOf[chain][start1])
    BY <1>1, <2>6, LeafCounts
  <2>8. \A v \in LeafWorkers : leaf[v].pc # "ended"
    BY <1>2, <2>5 DEF Claims
  <2>9. Claims'
    <3>1. ASSUME NEW v \in LeafWorkers
          PROVE  /\ leaf'[v].pc # "ended"
                 /\ Filling(v)' => /\ leaf'[v].height \in 1 .. hints.stop
                                   /\ leaf'[v].end \in leaf'[v].height .. hints.stop
                                   /\ leaf'[v].local \in 0 .. Len(LeavesOf[chain][leaf'[v].height])
      <4>1. CASE v = w
        BY <2>2, <2>3, <2>6, <2>7, <4>1
      <4>2. CASE v # w
        BY <1>2, <2>3, <2>8, <4>2 DEF Claims, Filling
      <4> QED BY <4>1, <4>2
    <3>2. ASSUME NEW h \in 1 .. hints.stop, h <= next_chunk' * HeightChunk
          PROVE  \/ hints.counts[h] = Len(LeavesOf[chain][h])
                 \/ \E v \in LeafWorkers : Filling(v)' /\ h \in leaf'[v].height .. leaf'[v].end
                 \/ \E v \in LeafWorkers : leaf'[v].pc \in {"failed", "panicked"}
      <4>1. CASE h \in start1 .. chunk_end(next_chunk)
        BY <2>2, <2>3, <4>1 DEF Filling
      <4>2. CASE h <= claimed
        <5>1. \/ hints.counts[h] = Len(LeavesOf[chain][h])
              \/ \E v \in LeafWorkers : Filling(v) /\ h \in leaf[v].height .. leaf[v].end
              \/ \E v \in LeafWorkers : leaf[v].pc \in {"failed", "panicked"}
          BY <1>2, <4>2 DEF Claims
        <5>2. \A v \in LeafWorkers : leaf[v].pc \in {"fill", "failed", "panicked"} => leaf'[v] = leaf[v]
          BY <1>1, <2>3
        <5> QED BY <5>1, <5>2 DEF Filling
      <4> QED BY <2>5, <2>6, <3>2, <4>1, <4>2
    <3>3. next_chunk' \in Nat
      BY <2>1, <2>4
    <3> QED BY <1>1, <3>1, <3>2, <3>3 DEF Claims
  <2> QED BY <1>1, <2>1, <2>2, <2>6, <2>9, LeafTurns
<1> QED BY <1>3, <1>4

---------------------------------------------------------------------------
(* The steps of a chaser *)

LEMMA SeekLast ==
    ASSUME NEW c, NEW row PROVE Seek(c, row).child = "last"
<1> DEFINE rs == {r \in row .. forest_rows - 1 :
                     /\ parent_count(r) > 0
                     /\ c < deterministic_chunk_count(parent_count(r))}
           r0 == CHOOSE q \in rs : \A o \in rs : q <= o
<1>1. CASE rs = {}
  BY <1>1 DEF Seek, IdleChaser
<1>2. CASE rs # {}
  <2>1. Seek(c, row) = [IdleChaser EXCEPT !.row = r0, !.chunk = c,
                                          !.parent = deterministic_chunk(parent_count(r0), c).first]
    BY <1>2 DEF Seek
  <2> HIDE DEF r0
  <2> QED BY <2>1 DEF IdleChaser
<1> QED BY <1>1, <1>2

\* After a parent, a chaser does not look for a right child.
LEMMA AfterLooks ==
    ASSUME NEW c \in ChaserWorkers, DOMAIN chaser[c] = DOMAIN IdleChaser
    PROVE  After(c).child \in {"last", "left"}
<1> DEFINE k == chaser[c]
           next == k.chunk + Cardinality(ChaserWorkers)
           first == deterministic_chunk(parent_count(k.row), next).first
<1>1. \/ After(c) = [k EXCEPT !.parent = @ + 1, !.child = "left"]
      \/ After(c) = [k EXCEPT !.chunk = next, !.parent = first, !.child = "last"]
      \/ After(c) = Seek(c, k.row + 1)
  BY DEF After
<1>2. CASE After(c) = [k EXCEPT !.parent = @ + 1, !.child = "left"]
  BY <1>2 DEF IdleChaser
<1>3. CASE After(c) = [k EXCEPT !.chunk = next, !.parent = first, !.child = "last"]
  <2> HIDE DEF next, first
  <2> QED BY <1>3 DEF IdleChaser
<1>4. CASE After(c) = Seek(c, k.row + 1)
  BY <1>4, SeekLast
<1> QED BY <1>1, <1>2, <1>3, <1>4

\* A step that leaves the leaf workers alone.
LEMMA ClaimsFrame ==
    ASSUME UNCHANGED <<chain, hints, next_chunk, leaf>>
    PROVE  (Claims <=> Claims') /\ (NextHint <=> NextHint')
<1>1. \A w : Filling(w) <=> Filling(w)'
  BY DEF Filling
<1>2. Claims <=> Claims'
  BY <1>1 DEF Claims
<1>3. NextHint <=> NextHint'
  BY <1>1 DEF NextHint
<1> QED BY <1>2, <1>3

LEMMA ParentWritten ==
    ASSUME ValueInv, NEW c \in ChaserWorkers, write_parent(c)
    PROVE  ValueInv'
<1> DEFINE r0 == chaser[c].row
           q0 == chaser[c].parent
           p0 == At(r0 + 1, q0)
           l0 == At(r0, 2 * q0)
           m0 == At(r0, 2 * q0 + 1)
           node == combine_children(nodes[l0], nodes[m0])
           T == ReferenceTree(ReferenceLeaves)
<1>1. /\ UNCHANGED <<phase, joined, chain, hints, layout, next_chunk, leaf>> /\ Working
      /\ chaser[c].pc = "run" /\ chaser[c].child = "right" /\ Found(c) /\ Free(ParentPosition(c))
  BY DEF write_parent, generator_vars, input_vars, Looking, Working
<1>2. Threads /\ Laid /\ Claims /\ Chasers
  BY <1>1 DEF ValueInv, Working
<1>3. Chasing(chaser[c], c)
  BY <1>1, <1>2 DEF Chasers
<1>4. /\ r0 \in 0 .. forest_rows - 1 /\ q0 \in 0 .. parent_count(r0) - 1 /\ q0 \in Nat
      /\ 2 * q0 \in 0 .. (leaves \div Pow2[r0]) - 1 /\ 2 * q0 + 1 \in 0 .. (leaves \div Pow2[r0]) - 1
      /\ r0 \in 0 .. forest_rows
  BY <1>2, <1>3, ChasingTask, Children
<1>5. ParentPosition(c) = p0 /\ Wanted(c) = m0 /\ Wanted(c) - 1 = l0
  <2>1. ParentPosition(c) = p0
    BY DEF ParentPosition, At
  <2>2. start_position_at_row(r0, forest_rows) \in Nat
    BY <1>2, <1>4, NodePlaces
  <2>3. Wanted(c) = start_position_at_row(r0, forest_rows) + 2 * q0 + 1
    BY <1>1 DEF Wanted
  <2>4. /\ m0 = start_position_at_row(r0, forest_rows) + (2 * q0 + 1)
        /\ l0 = start_position_at_row(r0, forest_rows) + 2 * q0
    BY DEF At
  <2> QED BY <1>4, <2>1, <2>2, <2>3, <2>4
<1>6. /\ nodes' = [nodes EXCEPT ![p0] = node] /\ nodes[p0] = Unset /\ p0 \in DOMAIN nodes /\ nodes[m0] # Unset
  BY <1>1, <1>5 DEF write_parent, Free, Found
<1>7. /\ DOMAIN nodes' = DOMAIN nodes /\ nodes'[p0] = node
      /\ \A p \in DOMAIN nodes : p # p0 => nodes'[p] = nodes[p]
  BY <1>6
<1>8. /\ DOMAIN chaser' = ChaserWorkers /\ chaser'[c] = After(c)
      /\ \A d \in ChaserWorkers : d # c =>
            /\ DOMAIN chaser'[d] = DOMAIN IdleChaser /\ chaser'[d].child = chaser[d].child
            /\ chaser'[d].pc = chaser[d].pc /\ chaser'[d].row = chaser[d].row
            /\ chaser'[d].chunk = chaser[d].chunk /\ chaser'[d].parent = chaser[d].parent
  <2>1. chaser' = [chaser EXCEPT ![c] = After(c)] \/ chaser' = [Woken EXCEPT ![c] = After(c)]
    BY DEF write_parent
  <2>2. DOMAIN Woken = ChaserWorkers
    BY DEF Woken
  <2>3. CASE chaser' = [chaser EXCEPT ![c] = After(c)]
    BY <1>2, <2>3 DEF Threads
  <2>4. CASE chaser' = [Woken EXCEPT ![c] = After(c)]
    <3>1. \A d \in ChaserWorkers : d # c => chaser'[d] = Woken[d]
      BY <2>2, <2>4
    <3> QED BY <1>2, <2>2, <2>4, <3>1, WokenStays, WokenLooks
  <2> QED BY <2>1, <2>3, <2>4
<1>9. DOMAIN chaser[c] = DOMAIN IdleChaser
  BY <1>2 DEF Threads
<1>10. /\ DOMAIN After(c) = DOMAIN IdleChaser /\ (After(c).pc = "run" => Chasing(After(c), c))
       /\ After(c).child \in {"last", "left"}
  BY <1>1, <1>2, <1>3, <1>9, AfterChases, AfterLooks
<1>11. Threads'
  BY <1>1, <1>2, <1>8, <1>10 DEF Threads
<1>12. \A d \in ChaserWorkers : chaser'[d].pc = "run" =>
          Chasing(chaser'[d], d) /\ chaser'[d].child \in {"last", "left", "right"}
  <2>1. \A d \in ChaserWorkers : d # c /\ chaser'[d].pc = "run" =>
           Chasing(chaser'[d], d) /\ chaser'[d].child \in {"last", "left", "right"}
    BY <1>2, <1>8 DEF Chasers, Chasing
  <2> QED BY <1>8, <1>10, <2>1
<1>13. Claims'
  BY <1>1, <1>2, ClaimsFrame
<1> HIDE DEF p0, l0, m0, node, T
<1>14. ASSUME SameCounts PROVE NextHint' /\ Values'
  <2>1. NextHint /\ Values
    BY <1>1, <1>14 DEF ValueInv, Working
  <2>2. nodes[l0] = T[<<r0, 2 * q0>>] /\ nodes[m0] = T[<<r0, 2 * q0 + 1>>]
    <3>1. nodes[l0] # Unset
      BY <1>1, <2>1 DEF Values, l0
    <3>2. nodes[l0] \in {Unset, T[<<r0, 2 * q0>>]} /\ nodes[m0] \in {Unset, T[<<r0, 2 * q0 + 1>>]}
      BY <1>4, <2>1 DEF Values, l0, m0, T
    <3> QED BY <1>6, <3>1, <3>2
  <2>3. node = T[<<r0 + 1, q0>>]
    <3>1. r0 \in 0 .. MaxShift - 1
      BY <1>2, <1>4, ShiftAssumption DEF Laid
    <3>2. T[<<r0 + 1, q0>>] = combine_children(T[<<r0, 2 * q0>>], T[<<r0, 2 * q0 + 1>>])
      BY <1>4, <3>1, TreeDef DEF T
    <3> QED BY <2>2, <3>2 DEF node
  <2>4. ASSUME NEW row \in 0 .. forest_rows, NEW offset \in 0 .. (leaves \div Pow2[row]) - 1
        PROVE  nodes'[At(row, offset)] \in {Unset, T[<<row, offset>>]}
    <3>1. CASE At(row, offset) = p0
      <4>1. r0 + 1 \in 0 .. forest_rows /\ q0 < Pow2[forest_rows - (r0 + 1)]
        BY <1>2, <1>4, ParentCounts, ParentPlaces
      <4>2. row = r0 + 1 /\ offset = q0
        BY <1>2, <1>4, <3>1, <4>1, NodesApart DEF p0
      <4> QED BY <1>7, <2>3, <3>1, <4>2
    <3>2. CASE At(row, offset) # p0
      <4>1. At(row, offset) \in DOMAIN nodes
        BY <1>1, <1>2, NodeInFile DEF ValueInv, Working
      <4>2. nodes[At(row, offset)] \in {Unset, T[<<row, offset>>]}
        BY <2>1 DEF Values, T
      <4> QED BY <1>7, <3>2, <4>1, <4>2
    <3> QED BY <3>1, <3>2
  <2>5. ASSUME NEW d \in ChaserWorkers, chaser'[d].pc = "run", chaser'[d].child = "right"
        PROVE  nodes'[At(chaser'[d].row, 2 * chaser'[d].parent)] # Unset
    <3>1. d # c
      BY <1>8, <1>10, <2>5
    <3>2. /\ chaser[d].pc = "run" /\ chaser[d].child = "right"
          /\ chaser'[d].row = chaser[d].row /\ chaser'[d].parent = chaser[d].parent
      BY <1>8, <2>5, <3>1
    <3> DEFINE p == At(chaser[d].row, 2 * chaser[d].parent)
    <3>3. nodes[p] # Unset
      BY <2>1, <3>2 DEF Values
    <3>4. p \in DOMAIN nodes
      <4>1. Chasing(chaser[d], d)
        BY <1>2, <3>2 DEF Chasers
      <4> QED BY <1>1, <1>2, <4>1, Children, NodeInFile DEF ValueInv, Working
    <3> HIDE DEF p
    <3>5. nodes'[p] # Unset
      BY <1>6, <1>7, <3>3, <3>4
    <3> QED BY <3>2, <3>5 DEF p
  <2>6. Values'
    BY <1>1, <2>4, <2>5, ReferenceFrame DEF Values, T
  <2> QED BY <1>1, <2>1, <2>6, ClaimsFrame
<1>15. joined' \in Nat /\ (phase' = "joining" => LeafWorkers # {}) /\ Working'
  BY <1>1 DEF ValueInv, Working
<1> QED BY <1>1, <1>7, <1>11, <1>12, <1>13, <1>14, <1>15, WorkStep

\* A step that moves no chaser, and writes nothing.
LEMMA ChasersStay ==
    ASSUME ValueInv, Working, Working', UNCHANGED <<chain, hints, layout, next_chunk, nodes, leaf>>,
           joined' \in Nat, phase' = "joining" => LeafWorkers # {},
           DOMAIN chaser' = ChaserWorkers,
           \A d \in ChaserWorkers :
              /\ DOMAIN chaser'[d] = DOMAIN IdleChaser
              /\ chaser'[d].pc = "run" =>
                    /\ chaser[d].pc = "run" /\ chaser'[d].row = chaser[d].row
                    /\ chaser'[d].chunk = chaser[d].chunk /\ chaser'[d].parent = chaser[d].parent
                    /\ chaser'[d].child \in {"last", "left", "right"}
                    /\ chaser'[d].child = "right" =>
                          \/ chaser[d].child = "right"
                          \/ nodes[At(chaser[d].row, 2 * chaser[d].parent)] # Unset
    PROVE  ValueInv'
<1>1. Threads /\ Claims /\ Chasers
  BY DEF ValueInv, Working
<1>2. Threads'
  BY <1>1 DEF Threads
<1>3. \A d \in ChaserWorkers : chaser'[d].pc = "run" =>
         Chasing(chaser'[d], d) /\ chaser'[d].child \in {"last", "left", "right"}
  BY <1>1 DEF Chasers, Chasing
<1>4. ASSUME SameCounts PROVE NextHint' /\ Values'
  <2>1. NextHint /\ Values
    BY <1>4 DEF ValueInv, Working
  <2>2. \A d \in ChaserWorkers : chaser'[d].pc = "run" /\ chaser'[d].child = "right" =>
           nodes[At(chaser'[d].row, 2 * chaser'[d].parent)] # Unset
    BY <2>1 DEF Values
  <2>3. Values'
    BY <2>1, <2>2, ReferenceFrame DEF Values
  <2> QED BY <2>1, <2>3, ClaimsFrame
<1>5. Claims'
  BY <1>1, ClaimsFrame
<1> QED BY <1>2, <1>3, <1>4, <1>5, WorkStep

LEMMA ChaserLooks ==
    ASSUME ValueInv, NEW c \in ChaserWorkers,
           read_ready(c) \/ wait_child(c) \/ parent_refused(c) \/ chaser_aborted(c)
    PROVE  ValueInv'
<1>1. /\ UNCHANGED <<phase, joined, chain, hints, layout, next_chunk, nodes, leaf>> /\ Working
      /\ chaser[c].pc = "run"
  BY DEF read_ready, wait_child, parent_refused, chaser_aborted, generator_vars, input_vars, Looking, Working
<1>2. Threads /\ Laid /\ \A d \in ChaserWorkers : chaser[d].pc = "run" => chaser[d].child \in {"last", "left", "right"}
  BY <1>1 DEF ValueInv, Working, Chasers
<1>3. /\ DOMAIN chaser = ChaserWorkers /\ DOMAIN Woken = ChaserWorkers
      /\ \A d \in ChaserWorkers : DOMAIN chaser[d] = DOMAIN IdleChaser
  BY <1>2 DEF Threads, Woken
<1>4. /\ DOMAIN chaser' = ChaserWorkers
      /\ \A d \in ChaserWorkers :
            /\ DOMAIN chaser'[d] = DOMAIN IdleChaser
            /\ chaser'[d].pc = "run" =>
                  /\ chaser[d].pc = "run" /\ chaser'[d].row = chaser[d].row
                  /\ chaser'[d].chunk = chaser[d].chunk /\ chaser'[d].parent = chaser[d].parent
                  /\ chaser'[d].child \in {"last", "left", "right"}
                  /\ chaser'[d].child = "right" =>
                        \/ chaser[d].child = "right"
                        \/ nodes[At(chaser[d].row, 2 * chaser[d].parent)] # Unset
  <2>1. CASE read_ready(c)
    <3> DEFINE child == IF chaser[c].child = "last" THEN "left" ELSE "right"
    <3>1. chaser' = [chaser EXCEPT ![c].child = child]
      BY <2>1 DEF read_ready
    <3> HIDE DEF child
    <3>2. /\ DOMAIN chaser' = ChaserWorkers
          /\ \A d \in ChaserWorkers :
                /\ DOMAIN chaser'[d] = DOMAIN IdleChaser /\ chaser'[d].pc = chaser[d].pc
                /\ chaser'[d].row = chaser[d].row /\ chaser'[d].chunk = chaser[d].chunk
                /\ chaser'[d].parent = chaser[d].parent
                /\ chaser'[d].child = IF d = c THEN child ELSE chaser[d].child
      BY <1>3, <3>1 DEF IdleChaser
    <3>3. child = "right" => nodes[At(chaser[c].row, 2 * chaser[c].parent)] # Unset
      <4>1. SUFFICES ASSUME child = "right" PROVE nodes[At(chaser[c].row, 2 * chaser[c].parent)] # Unset
        OBVIOUS
      <4>2. chaser[c].child = "left"
        <5>1. chaser[c].child \notin {"last", "right"}
          BY <2>1, <4>1 DEF child, read_ready
        <5>2. chaser[c].child \in {"last", "left", "right"}
          BY <1>1, <1>2
        <5> QED BY <5>1, <5>2
      <4>3. Wanted(c) = At(chaser[c].row, 2 * chaser[c].parent)
        BY <4>2 DEF Wanted, At
      <4> QED BY <2>1, <4>3 DEF read_ready, Found
    <3>4. child \in {"last", "left", "right"}
      BY DEF child
    <3> QED BY <1>2, <3>2, <3>3, <3>4
  <2>2. CASE wait_child(c)
    <3>1. chaser' = [chaser EXCEPT ![c].parked = TRUE]
      BY <2>2 DEF wait_child
    <3> QED BY <1>2, <1>3, <3>1 DEF IdleChaser
  <2>3. CASE parent_refused(c) \/ chaser_aborted(c)
    <3> DEFINE failed == [IdleChaser EXCEPT !.pc = "failed"]
    <3>1. chaser' = [Woken EXCEPT ![c] = failed]
      BY <2>3 DEF parent_refused, chaser_aborted
    <3>2. DOMAIN failed = DOMAIN IdleChaser /\ failed.pc # "run"
      BY DEF IdleChaser
    <3> HIDE DEF failed
    <3>3. DOMAIN chaser' = ChaserWorkers /\ \A d \in ChaserWorkers : chaser'[d] = IF d = c THEN failed ELSE Woken[d]
      BY <1>3, <3>1
    <3> QED BY <1>2, <3>2, <3>3, WokenStays, WokenLooks
  <2> QED BY <2>1, <2>2, <2>3
<1>5. joined' \in Nat /\ (phase' = "joining" => LeafWorkers # {}) /\ Working'
  BY <1>1 DEF ValueInv, Working
<1> QED BY <1>1, <1>4, <1>5, ChasersStay

---------------------------------------------------------------------------
(* The steps of the main thread *)

LEMMA ForestCreated ==
    ASSUME GeneratorInv, ValueInv, build_with_source
    PROVE  ValueInv'
<1>1. /\ phase = "check" /\ phase' = "building" /\ Buildable
      /\ nodes' = [p \in 0 .. forest_capacity(forest_rows) - 1 |-> Unset]
      /\ chaser' = [c \in ChaserWorkers |-> Seek(c, 0)]
      /\ UNCHANGED <<chain, hints, layout, next_chunk, leaf, joined>>
  BY DEF build_with_source, generator_vars, input_vars
<1>2. /\ hints \in AllHints /\ layout = Layout(hints.counts) /\ joined \in Nat
      /\ next_chunk = 0 /\ leaf = [w \in LeafWorkers |-> IdleLeaf] /\ chain \in DOMAIN Chains
  BY <1>1 DEF ValueInv, GeneratorInv
<1>3. Laid /\ hints.stop <= tip_height
  BY <1>1, <1>2, LayoutLaid DEF Buildable
<1>4. UNCHANGED <<chain, hints, layout>>
  BY <1>1
<1>5. /\ hints' \in AllHints /\ layout' = Layout(hints'.counts) /\ hints'.stop <= tip_height'
      /\ chain' \in DOMAIN Chains /\ joined' \in Nat
      /\ Laid' /\ forest_rows' = forest_rows /\ leaves' = leaves
  BY <1>1, <1>2, <1>3, <1>4, ReferenceFrame
<1>6. DOMAIN nodes' = 0 .. forest_capacity(forest_rows') - 1
  BY <1>1, <1>5
<1>7. \A c \in ChaserWorkers :
         /\ DOMAIN chaser'[c] = DOMAIN IdleChaser /\ chaser'[c].child = "last"
         /\ chaser'[c].pc = "run" => Chasing(chaser'[c], c)
  BY <1>1, <1>3, SeekChases, SeekLast
<1>8. DOMAIN leaf' = LeafWorkers /\ \A w \in LeafWorkers : leaf'[w] = IdleLeaf
  BY <1>1, <1>2
<1>9. \A w \in LeafWorkers : ~Filling(w)' /\ leaf'[w].pc = "acquire"
  BY <1>8 DEF Filling, IdleLeaf
<1>10. Threads'
  <2>1. DOMAIN chaser' = ChaserWorkers
    BY <1>1
  <2> QED BY <1>7, <1>8, <2>1 DEF Threads
<1>11. Chasers'
  BY <1>4, <1>7, LayoutFrame DEF Chasers
<1>12. Claims'
  <2>1. next_chunk' = 0 /\ 0 * HeightChunk = 0
    BY <1>1, <1>2, BuildAssumption
  <2>2. \A h \in 1 .. hints.stop : ~(h <= next_chunk' * HeightChunk)
    BY <1>3, <2>1 DEF Laid
  <2> QED BY <1>1, <1>9, <2>1, <2>2 DEF Claims
<1>13. NextHint'
  BY <1>9 DEF NextHint
<1>14. Values'
  <2>1. ASSUME NEW row \in 0 .. forest_rows, NEW offset \in 0 .. (leaves \div Pow2[row]) - 1
        PROVE  nodes'[At(row, offset)] = Unset
    BY <1>1, <1>3, NodeInFile
  <2> QED BY <1>4, <1>7, <2>1, ReferenceFrame DEF Values
<1> QED BY <1>1, <1>5, <1>6, <1>10, <1>11, <1>12, <1>13, <1>14 DEF ValueInv

LEMMA LeafJoined ==
    ASSUME ValueInv, join_leaf
    PROVE  ValueInv'
<1>1. /\ phase = "building" /\ phase' \in {"building", "joining"} /\ joined' = joined + 1
      /\ joined < Cardinality(LeafWorkers)
      /\ UNCHANGED <<chain, hints, layout, next_chunk, nodes, leaf>>
      /\ chaser' = chaser \/ chaser' = Woken
  BY DEF join_leaf, abort, generator_vars, input_vars
<1>2. Working /\ Working'
  BY <1>1 DEF Working
<1>3. joined \in Nat /\ Threads /\ Chasers
  BY <1>1 DEF ValueInv
<1>4. joined' \in Nat
  BY <1>1, <1>3
<1>5. LeafWorkers # {}
  <2>1. SUFFICES ASSUME LeafWorkers = {} PROVE FALSE
    OBVIOUS
  <2>2. Cardinality(LeafWorkers) = 0
    BY <2>1, FS_EmptySet
  <2> QED BY <1>1, <1>3, <2>2
<1>6. DOMAIN chaser' = ChaserWorkers
  BY <1>1, <1>3 DEF Threads, Woken
<1>7. \A c \in ChaserWorkers :
         /\ DOMAIN chaser'[c] = DOMAIN IdleChaser
         /\ chaser'[c].pc = chaser[c].pc /\ chaser'[c].row = chaser[c].row
         /\ chaser'[c].chunk = chaser[c].chunk /\ chaser'[c].parent = chaser[c].parent
         /\ chaser'[c].child = chaser[c].child
  BY <1>1, <1>3, WokenStays, WokenLooks DEF Threads
<1>8. \A c \in ChaserWorkers : chaser'[c].pc = "run" => chaser'[c].child \in {"last", "left", "right"}
  BY <1>3, <1>7 DEF Chasers
<1> QED BY <1>1, <1>2, <1>4, <1>5, <1>6, <1>7, <1>8, ChasersStay

\* Nothing of the build changes, except that it may end.
LEMMA BuildRests ==
    ASSUME ValueInv, UNCHANGED <<chain, hints, layout, next_chunk, nodes, leaf, chaser, joined>>,
           phase' = phase \/ (phase = "joining" /\ phase' = "built" /\ Complete)
    PROVE  ValueInv'
<1>1. /\ (Claims <=> Claims') /\ (NextHint <=> NextHint') /\ (Laid' <=> Laid) /\ (SameCounts' <=> SameCounts)
      /\ tip_height' = tip_height /\ forest_rows' = forest_rows
  BY ClaimsFrame, ReferenceFrame
<1>2. Threads <=> Threads'
  BY DEF Threads
<1>3. Chasers <=> Chasers'
  BY LayoutFrame DEF Chasers
<1>4. Values <=> Values'
  BY ReferenceFrame DEF Values
<1>5. AllInitialized <=> AllInitialized'
  BY DEF AllInitialized, forest_rows, leaves
<1> QED BY <1>1, <1>2, <1>3, <1>4, <1>5 DEF ValueInv, Complete

LEMMA ValueMainSteps ==
    ASSUME GeneratorInv, ValueInv, from_reader \/ build_refused \/ validate_forest
    PROVE  ValueInv'
<1>1. CASE from_reader
  <2>1. /\ phase = "idle" /\ phase' = "check" /\ hints' = files.output /\ layout' = Layout(files.output.counts)
        /\ files.output.kind = "hints" /\ UNCHANGED <<next_chunk, leaf, joined>>
    BY <1>1 DEF from_reader
  <2>2. files.output # Absent
    BY <2>1 DEF Absent
  <2>3. files.output \in AllHints
    BY <2>2 DEF GeneratorInv
  <2> QED BY <2>1, <2>3 DEF ValueInv
<1>2. CASE build_refused
  BY <1>2 DEF build_refused, ValueInv
<1>3. CASE validate_forest
  <2>1. /\ phase = "joining" /\ phase' = IF Complete THEN "built" ELSE "failed"
        /\ UNCHANGED <<chain, hints, layout, next_chunk, nodes, leaf, chaser, joined>>
    BY <1>3 DEF validate_forest, generator_vars, input_vars
  <2>2. CASE Complete
    BY <2>1, <2>2, BuildRests
  <2>3. CASE ~Complete
    BY <2>1, <2>3 DEF ValueInv
  <2> QED BY <2>2, <2>3
<1> QED BY <1>1, <1>2, <1>3

LEMMA ValueKept ==
    ASSUME GeneratorInv, ValueInv, [Next]_vars
    PROVE  ValueInv'
<1>0. CASE phase' \notin {"idle", "check", "building", "joining", "built"}
  BY <1>0 DEF ValueInv
<1>1. CASE UNCHANGED build_vars /\ (phase = "idle" \/ UNCHANGED chain)
  <2>1. phase' = phase /\ UNCHANGED <<hints, layout, next_chunk, nodes, leaf, chaser, joined>>
    BY <1>1 DEF build_vars, input_vars
  <2>2. CASE phase = "idle"
    BY <2>1, <2>2 DEF ValueInv
  <2>3. CASE phase # "idle"
    BY <1>1, <2>1, <2>3, BuildRests
  <2> QED BY <2>2, <2>3
<1>2. CASE phase = "idle" /\ GeneratorNext /\ UNCHANGED build_vars
  BY <1>1, <1>2
<1>3. CASE reorganize
  <2>1. phase = "idle" /\ UNCHANGED build_vars
    BY <1>3 DEF reorganize
  <2> QED BY <1>1, <2>1
<1>4. CASE BuildNext
  <2>1. CASE from_reader \/ MainStep
    BY <2>1, ValueMainSteps, ForestCreated, LeafJoined DEF MainStep
  <2>2. ASSUME NEW w \in LeafWorkers, LeafStep(w) \/ leaf_failure(w) \/ leaf_panic(w)
        PROVE  ValueInv'
    <3>1. phase' = phase /\ leaf[w].pc # "ended" /\ (leaf[w].pc = "acquire" => acquire(w))
          /\ (acquire(w) => phase = "building")
      BY <2>2 DEF LeafStep, acquire, write_leaf, write_refused, end_block, count_changed, put_batch,
                  leaf_failure, leaf_panic
    <3>2. CASE phase \in {"idle", "check"}
      <4>1. leaf[w].pc = "acquire"
        BY <3>2 DEF ValueInv, IdleLeaf
      <4> QED BY <3>1, <3>2, <4>1
    <3>3. CASE phase \in {"building", "joining"}
      BY <2>2, <3>3, ChunkAcquired, LeafWritten, BlockEnded, LeafStopped DEF LeafStep, Working
    <3>4. CASE phase = "built"
      BY <3>1, <3>4 DEF ValueInv
    <3> QED BY <1>0, <3>1, <3>2, <3>3, <3>4
  <2>3. ASSUME NEW c \in ChaserWorkers, ChaserStep(c)
        PROVE  ValueInv'
    BY <2>3, ParentWritten, ChaserLooks DEF ChaserStep
  <2> QED BY <1>4, <2>1, <2>2, <2>3 DEF BuildNext
<1>5. CASE SteadyNext
  BY <1>0, <1>5, SteadyFrame DEF SteadyPhases
<1>6. CASE UNCHANGED vars
  BY <1>1, <1>6 DEF vars, bootstrap_vars, generator_vars
<1> QED BY <1>2, <1>3, <1>4, <1>5, <1>6 DEF Next, BootstrapNext

LEMMA ValueInitial ==
    ASSUME Init PROVE ValueInv
  BY DEF Init, BootstrapInit, BuildInit, ValueInv

---------------------------------------------------------------------------
(* A forest that is built *)

\* Workers have ended, so every height was claimed and every block had its count; every node is
\* there, and is the right one.
LEMMA CompleteIsReference ==
    ASSUME ValueInv PROVE BuiltForest
<1> SUFFICES ASSUME phase = "built"
             PROVE  /\ SameCounts
                    /\ \A row \in 0 .. forest_rows : \A offset \in 0 .. (leaves \div Pow2[row]) - 1 :
                          nodes[start_position_at_row(row, forest_rows) + offset]
                              = ReferenceTree(ReferenceLeaves)[<<row, offset>>]
  BY DEF BuiltForest
<1>1. (\A w \in LeafWorkers : leaf[w].pc = "ended") /\ AllInitialized /\ LeafWorkers # {} /\ Claims /\ Laid
  BY DEF ValueInv
<1>2. SameCounts
  <2>1. PICK w \in LeafWorkers : TRUE
    BY <1>1
  <2>2. ~(next_chunk * HeightChunk < hints.stop)
    BY <1>1, <2>1 DEF Claims
  <2>3. next_chunk * HeightChunk \in Nat /\ hints.stop \in Nat
    <3>1. next_chunk \in Nat /\ HeightChunk \in Nat /\ hints.stop \in Nat
      BY <1>1, BuildAssumption DEF Claims, Laid
    <3> QED BY <3>1
  <2>4. ASSUME NEW h \in 1 .. hints.stop PROVE hints.counts[h] = Len(LeavesOf[chain][h])
    <3>1. h <= next_chunk * HeightChunk
      BY <2>2, <2>3
    <3> QED BY <1>1, <3>1 DEF Claims, Filling
  <2> QED BY <2>4 DEF SameCounts
<1>3. Values
  BY <1>2 DEF ValueInv
<1>4. ASSUME NEW row \in 0 .. forest_rows, NEW offset \in 0 .. (leaves \div Pow2[row]) - 1
      PROVE  nodes[start_position_at_row(row, forest_rows) + offset]
                = ReferenceTree(ReferenceLeaves)[<<row, offset>>]
  <2>1. nodes[At(row, offset)] # Unset
    BY <1>1 DEF AllInitialized, At
  <2>2. nodes[At(row, offset)] \in {Unset, ReferenceTree(ReferenceLeaves)[<<row, offset>>]}
    BY <1>3 DEF Values
  <2> QED BY <2>1, <2>2 DEF At
<1> QED BY <1>2, <1>4

\* A build that ends well has read a chain with the file's counts and has the reference's node at
\* every position, for every number of leaf workers and chasers, every order of their steps, every
\* chunk and batch size and through failed reads, panics and aborts (build_with_source,
\* validate_forest).
THEOREM BuiltIsReference == Spec => []BuiltForest
<1>1. Init => GeneratorInv /\ ValueInv
  BY GeneratorInitial, ValueInitial
<1>2. (GeneratorInv /\ ValueInv) /\ [Next]_vars => (GeneratorInv /\ ValueInv)'
  BY GeneratorKept, ValueKept
<1>3. ValueInv => BuiltForest
  BY CompleteIsReference
<1> QED BY <1>1, <1>2, <1>3, PTL DEF Spec
=============================================================================
