----------------------- MODULE PersistenceStoreProofs -----------------------
(***************************************************************************)
(* Proofs about Persistence: proof file, proof index and headers against   *)
(* the journal, for any block tree, window size, retention and any number  *)
(* of reorganizations and stops.  Proofs and index entries are followed in *)
(* behaviours in which no stored data is lost, headers in those in which,  *)
(* besides, no peer makes a P2P thread store one: the runs                 *)
(* persistence_relapse and persistence_peer show that both are needed.     *)
(***************************************************************************)
EXTENDS PersistenceForestProofs

USE DEF TipOK, PublishSteps, StoreSteps, RollbackSteps, UndoSteps

-----------------------------------------------------------------------------
(* The inductive invariant of the proof file and its index *)

\* The blocks above the root on the branch of b.
Line(b) == Branch[b] \ {Root}

\* The published chain.
Chain == Line(JTip)

\* The index as the next batch will leave it.
Merged == [b \in Blocks |-> IF indexes[b] # 0 THEN indexes[b] ELSE index[b]]

Place(b) == IF b = Root THEN 0 ELSE Merged[b]

\* The entries of the chain are those of its first blocks.
Prefix(f) == \A b, c \in Chain : Height[b] <= Height[c] /\ f[c] # 0 => f[b] # 0

Full(f) == \A b \in Chain : f[b] # 0

\* Proofs are in the file in the order of their blocks.
Rising(S) ==
    \A b, c \in S : Height[b] < Height[c] /\ Merged[b] # 0 /\ Merged[c] # 0 => Merged[b] < Merged[c]

\* Every entry, stored or on its way, is a readable proof of a block that is
\* or was published, and what is committed is indexed durably.
InvIndex ==
    /\ \A b \in Blocks : index_disk[b] # 0 => index[b] = index_disk[b]
    /\ \A b \in Blocks : index[b] # 0 => Merged[b] = index[b] /\ index[b] <= proofs_synced
    /\ \A b \in Blocks : Merged[b] # 0 => Readable(Merged[b], b) /\ b \in Chain \cup OrphanedBlocks
    /\ Prefix(index_disk) /\ Prefix(index)
    /\ Rising(Chain)
    /\ \A b \in Chain : Height[b] <= committed => index_disk[b] # 0

\* Steps with places that are not in the index yet.
FreshSteps == {"proof_sync", "put_headers", "header_sync", "append_batch", "index_flush"}

\* While the threads run, only the worker's chain and the journal's are in the
\* index, and the file ends with the tip's proof.
InvHeld ==
    Up =>
        /\ \A b \in Blocks : Merged[b] # 0 => b \in Line(dtip) \cup Chain
        /\ Rising(Line(dtip))
        /\ wpc = "append" => \A b \in Blocks : index[b] # 0 => b \in Line(dtip)
        /\ wpc \notin FreshSteps \cup {"failed"} => indexes = NoIndexes
        /\ wpc # "failed" /\ (command.kind # "rollback" \/ wpc \in {"idle", "rollback_height"}) =>
              Len(proofs) = Place(IF wpc = "append" THEN dtip ELSE JTip)

\* What the worker's steps have stored so far.
InvStored ==
    /\ wpc \in FreshSteps => Full(Merged)
    /\ wpc \in FreshSteps \ {"proof_sync"} => proofs_synced = Len(proofs)
    /\ wpc \in {"index_flush", "apply", "forest_sync", "update_height"} => Full(index)
    /\ wpc \in {"apply", "forest_sync", "update_height"} => Full(index_disk)
    /\ wpc \in {"truncate", "rollback_height"} => index[Orphan] = 0

ReplaySteps == {"replay", "replay_sync", "cleanup", "cleanup_sync", "recover_tip",
                "recover_height"}

\* What the recovery's steps have repaired so far.
InvRepaired ==
    /\ pc \in {"down", "repair"} \cup ReplaySteps => indexes = NoIndexes
    /\ pc \in {"repair_sync", "repair_index", "repair_flush"} => Full(Merged)
    /\ pc \in {"repair_index", "repair_flush"} => proofs_synced = Len(proofs)
    /\ pc \in {"repair_flush"} \cup ReplaySteps => Full(index)
    /\ pc \in ReplaySteps => Full(index_disk)
    /\ pc \in {"cleanup_sync", "recover_tip", "recover_height"} =>
          \A b \in Blocks : index[b] # 0 => b \in Chain
    /\ pc = "recover_height" => Len(proofs) = Place(JTip)

\* A request whose block had the place of its height, and so all blocks below
\* it, finds them there whenever they are in the file.
InvAsked ==
    /\ ~Up => asked = NoRequest
    /\ asked # NoRequest =>
          /\ asked.block \in Blocks \ {Root}
          /\ asked.place = Height[asked.block] =>
                \A c \in Line(asked.block) : Merged[c] # 0 => Merged[c] = Height[c]

InvProofFaults == fault \notin {"truncate", "recovered tip"}

Places == InvIndex /\ InvHeld /\ InvStored /\ InvRepaired /\ InvAsked /\ InvProofFaults

-----------------------------------------------------------------------------
(* The inductive invariant of the headers *)

Headed(hd) == \A b \in Chain : hd[Height[b]] = b

Only(hd, S) == \A h \in Heights : hd[h] # NoBlock => hd[h] \in S

\* Every header is one of a block that is or was published, and committed
\* blocks have theirs, cached and on the medium.
InvHeaders ==
    /\ Only(headers, Chain \cup OrphanedBlocks) /\ Only(headers_disk, Chain \cup OrphanedBlocks)
    /\ \A b \in Chain : Height[b] <= committed =>
          headers[Height[b]] = b /\ headers_disk[Height[b]] = b

\* What the worker's steps have stored or removed so far.
InvHeadersStored ==
    /\ Up => Only(headers, Line(dtip) \cup Chain) /\ Only(headers_disk, Line(dtip) \cup Chain)
    /\ wpc \in {"header_sync", "append_batch", "index_flush", "apply", "forest_sync",
                "update_height"} => Headed(headers)
    /\ wpc \in {"append_batch", "index_flush", "apply", "forest_sync", "update_height"} =>
          Headed(headers_disk)
    /\ wpc \in {"remove_header_sync", "remove_index", "truncate", "rollback_height"} =>
          \A h \in Heights : headers[h] # Orphan
    /\ wpc \in {"remove_index", "truncate", "rollback_height"} =>
          \A h \in Heights : headers_disk[h] # Orphan

\* What the recovery's steps have repaired so far.
InvHeadersRepaired ==
    /\ pc \in {"repair_sync", "repair_index", "repair_flush"} \cup ReplaySteps => Headed(headers)
    /\ pc \in {"repair_index", "repair_flush"} \cup ReplaySteps => Headed(headers_disk)
    /\ pc \in {"cleanup_sync", "recover_tip", "recover_height"} => Only(headers, Chain)
    /\ pc \in {"recover_tip", "recover_height"} => Only(headers_disk, Chain)

InvGap == fault # "gap"

HeadersOK == InvHeaders /\ InvHeadersStored /\ InvHeadersRepaired /\ InvGap

-----------------------------------------------------------------------------
(* Rolled back records *)

\* A record that is still forward is below all that were published after it,
\* and no retained record, rolled back or not, is one of the base's.  So what
\* the clean-up of a recovery removes is never of the published chain.
InvDescends ==
    /\ \A i \in ForwardRecords, j \in Retained : i <= j => log[i].block \in Branch[log[j].block]
    /\ \A j \in Retained : log[j].block \notin Branch[Base]

\* A window is published on top of the chain, above every forward record.
LEMMA PublishDescends ==
    ASSUME Safe, InvDescends, publish
    PROVE  InvDescends'
<1> DEFINE s == command.blocks
           L == Len(log)
<1>1. /\ command.kind = "publish" /\ wpc = "publish" /\ floor' = floor
      /\ log' = log \o [i \in 1 .. Len(s) |-> ForwardRecord(tail[i])]
  BY DEF publish, Running
<1>2. Up /\ Working /\ ~Restored
  BY <1>1 DEF Safe, Threads, InvIdle, Up, NoCommand, Working, Restored, InvChannel
<1>3. /\ s \in Seq(Blocks) /\ Len(s) # 0 /\ Extends(Below, s) /\ dtip = Below /\ dtip \in Blocks
  BY <1>1, <1>2, PublishCommand DEF Safe, Types
<1>4. JTip = dtip
  BY <1>1, <1>2 DEF Safe, Forest, InvWorker
<1>5. \A i \in 1 .. Len(s) : tail[i] = s[i]
  BY <1>1, <1>2 DEF Safe, Threads, InvDurable, InvChannel
<1>6. [i \in 1 .. Len(s) |-> ForwardRecord(tail[i])] = [i \in 1 .. Len(s) |-> ForwardRecord(s[i])]
  BY <1>5
<1>7. LogTypes /\ InvLog /\ TipOK /\ (Retained = {} <=> log = << >>)
  BY SafeTip
<1> HIDE DEF s
<1>8. /\ Len(log') = L + Len(s)
      /\ \A i \in 1 .. L : log'[i] = log[i]
      /\ \A i \in 1 .. Len(s) : log'[L + i] = ForwardRecord(s[i])
  BY <1>1, <1>3, <1>6, <1>7, PublishedRecords
<1>9. /\ Retained # {} => Base' = Base
      /\ Retained = {} => Base' = Root
  BY <1>1, <1>3, <1>4, <1>6, <1>7, Publication
<1>10. L \in Nat /\ Len(s) \in Nat /\ floor \in Nat \ {0} /\ Retained \subseteq 1 .. L /\ Retained = floor .. L
  BY <1>3, <1>7, RetainedFacts DEF Retained
<1> HIDE DEF L
<1>11. \A j \in Retained' : j \in Retained \/ \E k \in 1 .. Len(s) : j = L + k
  <2> SUFFICES ASSUME NEW j \in floor .. L + Len(s), j \notin floor .. L
               PROVE  \E k \in 1 .. Len(s) : j = L + k
    BY <1>1, <1>8, <1>10 DEF Retained
  <2>1. j - L \in 1 .. Len(s) /\ j = L + (j - L)
    <3>1. floor <= L + 1
      BY <1>7 DEF LogTypes, L
    <3> QED BY <1>10, <3>1
  <2> QED BY <2>1
<1>12. \A j \in Retained : log'[j] = log[j] /\ j \in 1 .. L
  BY <1>8, <1>10
<1>13. \A j \in Retained' : j \in Retained => (j \in ForwardRecords' <=> j \in ForwardRecords)
  BY <1>12 DEF ForwardRecords
<1>14. ASSUME NEW k \in 1 .. Len(s) PROVE log'[L + k].block = s[k]
  <2>1. log'[L + k] = ForwardRecord(s[k])
    BY <1>8
  <2> QED BY <2>1 DEF ForwardRecord
<1>15. \A k \in 1 .. Len(s) : /\ Branch[s[k]] = Branch[JTip] \cup {s[m] : m \in 1 .. k}
                              /\ s[k] \notin Branch[JTip]
  BY <1>3, <1>4, RunBranches, RunDistinct
<1>16. ASSUME NEW i \in ForwardRecords', NEW j \in Retained', i <= j
       PROVE  log'[i].block \in Branch[log'[j].block]
  <2>1. i \in Retained'
    BY DEF ForwardRecords
  <2>2. CASE i \in Retained
    <3>1. i \in ForwardRecords /\ log'[i] = log[i]
      BY <1>12, <1>13, <2>1, <2>2
    <3>2. CASE j \in Retained
      BY <1>12, <1>16, <3>1, <3>2 DEF InvDescends
    <3>3. ASSUME NEW k \in 1 .. Len(s), j = L + k
          PROVE  log'[i].block \in Branch[log'[j].block]
      <4>1. log[i].block \in ForwardBlocks /\ Retained # {}
        BY <3>1 DEF ForwardBlocks, ForwardRecords
      <4> QED BY <1>7, <1>14, <1>15, <3>1, <3>3, <4>1
    <3> QED BY <1>11, <3>2, <3>3
  <2>3. ASSUME NEW m \in 1 .. Len(s), i = L + m
        PROVE  log'[i].block \in Branch[log'[j].block]
    <3>1. PICK k \in 1 .. Len(s) : j = L + k
      <4>1. j \notin Retained
        BY <1>10, <1>16, <2>3
      <4> QED BY <1>11, <4>1
    <3>2. m \in 1 .. k
      BY <1>10, <1>16, <2>3, <3>1
    <3> QED BY <1>14, <1>15, <2>3, <3>1, <3>2
  <2> QED BY <1>11, <2>1, <2>2, <2>3
<1>17. ASSUME NEW j \in Retained'
       PROVE  log'[j].block \notin Branch[Base']
  <2>1. CASE j \in Retained
    BY <1>9, <1>12, <2>1 DEF InvDescends
  <2>2. ASSUME NEW k \in 1 .. Len(s), j = L + k
        PROVE  log'[j].block \notin Branch[Base']
    <3>1. Branch[Base'] \subseteq Branch[JTip]
      BY <1>7, <1>9
    <3> QED BY <1>14, <1>15, <2>2, <3>1
  <2> QED BY <1>11, <2>1, <2>2
<1> QED BY <1>16, <1>17 DEF InvDescends

\* Pruning only drops records of the front.
LEMMA CompleteDescends ==
    ASSUME Safe, InvDescends, log' = log, floor' = floor \/ floor' \in ForwardRecords
    PROVE  InvDescends'
<1>1. CASE floor' = floor
  BY <1>1, LogFrame DEF InvDescends
<1>2. CASE floor' \in ForwardRecords
  <2>1. LogTypes /\ InvLog
    BY SafeTip
  <2>2. /\ floor' \in Retained /\ log[floor'].block \in Blocks \ {Root}
        /\ Len(log) \in Nat /\ floor \in Nat /\ Retained \subseteq Nat /\ floor' >= floor
    BY <1>2, <2>1, RetainedFacts DEF ForwardRecords, InvLog
  <2>3. \A j \in Retained' : j \in Retained /\ floor' <= j
    BY <2>2 DEF Retained
  <2>4. \A i \in ForwardRecords' : i \in ForwardRecords
    BY <2>3 DEF ForwardRecords
  <2>5. Base' = Parent[log[floor'].block]
    BY DEF Base
  <2>6. log[floor'].block \notin Branch[Base']
    BY <2>2, <2>5, BranchParent
  <2>7. ASSUME NEW j \in Retained', log[j].block \in Branch[Base']
        PROVE  FALSE
    <3>1. log[floor'].block \in Branch[log[j].block]
      BY <1>2, <2>3 DEF InvDescends
    <3>2. Base' \in Blocks
      BY <2>2, <2>5, ParentFacts
    <3>3. Branch[log[j].block] \subseteq Branch[Base']
      BY <2>7, <3>2, BranchBelow
    <3> QED BY <2>6, <3>1, <3>3
  <2> QED BY <2>3, <2>4, <2>7 DEF InvDescends
<1> QED BY <1>1, <1>2

\* A roll back only makes forward records fewer.
LEMMA MarkDescends ==
    ASSUME Safe, InvDescends, mark_rolled_back
    PROVE  InvDescends'
<1>1. /\ command.kind = "rollback" /\ wpc = "idle" /\ ForwardRecords # {} /\ floor' = floor
  BY DEF mark_rolled_back, Running
<1>2. Up /\ Working
  BY <1>1 DEF Safe, Threads, InvIdle, Up, NoCommand, Working
<1>3. JTip = dtip
  BY <1>1, <1>2 DEF Safe, Forest, InvWorker
<1>4. dtip = Orphan /\ Orphan \in Blocks
  BY <1>1, <1>2, RollbackCommand DEF Safe, Types
<1>5. LogTypes /\ InvLog /\ JTip = log[latest_forward].block
  BY <1>1, SafeTip
<1>6. log' = [log EXCEPT ![latest_forward].status = RolledBack]
  BY <1>3, <1>4, <1>5 DEF mark_rolled_back
<1>7. Retained' = Retained /\ Base' = Base
  BY <1>1, <1>5, <1>6, RollingBack
<1>8. \A j \in 1 .. Len(log) : log'[j].block = log[j].block
  BY <1>5, <1>6 DEF LogTypes, Records
<1>9. \A j \in Retained : j \in 1 .. Len(log)
  BY <1>5, RetainedFacts
<1>10. \A i \in ForwardRecords' : i \in ForwardRecords
  <2>1. latest_forward \in ForwardRecords /\ latest_forward \in 1 .. Len(log)
    BY <1>1, <1>5, <1>9, LatestForward DEF ForwardRecords
  <2>2. \A j \in 1 .. Len(log) : j # latest_forward => log'[j] = log[j]
    BY <1>5, <1>6 DEF LogTypes
  <2>3. ASSUME NEW i \in ForwardRecords' PROVE i \in ForwardRecords
    <3>1. i \in Retained /\ log'[i].status = Forward
      BY <1>7, <2>3 DEF ForwardRecords
    <3> QED BY <1>9, <2>1, <2>2, <3>1 DEF ForwardRecords
  <2> QED BY <2>3
<1>11. \A i \in ForwardRecords : i \in Retained
  BY DEF ForwardRecords
<1> QED BY <1>7, <1>8, <1>9, <1>10, <1>11 DEF InvDescends

\* Every step keeps the order of the records.
LEMMA NextDescends ==
    ASSUME Safe, InvDescends, [Next]_vars
    PROVE  InvDescends'
<1>1. \/ UNCHANGED <<log, floor>>
      \/ publish \/ mark_rolled_back
      \/ log' = log /\ floor' \in ForwardRecords
  BY DEF Next, Producer, Worker, Recovery, Environment, vars, store_vars, journal_vars, keep_up,
     reconcile_chain, wait_for_apply, reconcile_barrier, reconciled, sync_to_tip,
     reserve_persistence, stop_range, reorg_in_range, prove_block, publish_pending, sync,
     verify_durable_tip, worker_failed, exit, persist, append, proof_sync, put, header_sync,
     index_set, index_flush, apply_forward_batch, forest_sync, update_height, complete, PruneCuts,
     discard_unpublished, sync_barrier, reorg_too_deep, apply_backward, backward_sync,
     remove_header, remove_header_sync, remove_index, truncate, rollback_height,
     header_unavailable, open, repair, repair_sync, repair_index, check_gaps, replay_journal,
     replay_sync, cleanup, cleanup_sync, recover_tip, recover_height, reorganize, set_shutdown,
     rpc_error, lookup_error, worker_fail, kill, power_loss, lose, peer_fetch, get_index,
     peer_put, grow_heights, get_proof
<1>2. CASE UNCHANGED <<log, floor>>
  BY <1>2, CompleteDescends
<1> QED BY <1>1, <1>2, CompleteDescends, PublishDescends, MarkDescends

\* Orphaned blocks are not on the published chain.
LEMMA OrphansApart ==
    ASSUME Safe, InvDescends
    PROVE  /\ OrphanedBlocks \subseteq Blocks \ {Root}
           /\ \A b \in OrphanedBlocks : b \notin Chain
           /\ ForwardBlocks \subseteq Chain
           /\ \A b \in Chain : b \in ForwardBlocks \/ (Retained # {} /\ b \in Branch[Base])
<1>1. LogTypes /\ InvLog /\ TipOK
  BY SafeTip
<1>2. ASSUME NEW b \in OrphanedBlocks
      PROVE  b \in Blocks \ {Root} /\ b \notin Branch[JTip]
  <2>1. PICK i \in Retained : b = log[i].block /\ b \notin ForwardBlocks
    BY <1>2 DEF OrphanedBlocks
  <2>2. b \in Blocks \ {Root} /\ b \notin Branch[Base]
    BY <1>1, <2>1, RetainedFacts DEF InvLog, InvDescends
  <2> QED BY <1>1, <2>1, <2>2
<1>3. ASSUME NEW b \in ForwardBlocks
      PROVE  b \in Chain
  <2>1. PICK i \in ForwardRecords : b = log[i].block
    BY <1>3 DEF ForwardBlocks
  <2>2. i \in Retained /\ b # Root
    BY <1>1, <2>1 DEF ForwardRecords, InvLog
  <2> QED BY <1>1, <1>3, <2>2 DEF Chain, Line
<1>4. ASSUME NEW b \in Chain PROVE b \in ForwardBlocks \/ (Retained # {} /\ b \in Branch[Base])
  <2>1. b \in Branch[JTip] /\ b # Root
    BY <1>4 DEF Chain, Line
  <2>2. Retained # {}
    BY <1>1, <2>1, BranchDef
  <2> QED BY <1>1, <2>1, <2>2
<1> QED BY <1>2, <1>3, <1>4 DEF Chain, Line

-----------------------------------------------------------------------------
(* What the invariants are about *)

\* The types of the stores, in the form the proofs below use.
LEMMA StoreFacts ==
    ASSUME Safe
    PROVE  /\ index \in [Blocks -> Nat] /\ index_disk \in [Blocks -> Nat]
           /\ indexes \in [Blocks -> Nat] /\ Merged \in [Blocks -> Nat]
           /\ \A b \in Blocks : Merged[b] = IF indexes[b] # 0 THEN indexes[b] ELSE index[b]
           /\ proofs \in Seq(Blocks \cup {Garbage}) /\ Len(proofs) \in Nat
           /\ proofs_synced \in Nat /\ proofs_synced <= Len(proofs)
           /\ headers \in [Heights -> Blocks \cup {NoBlock}]
           /\ headers_disk \in [Heights -> Blocks \cup {NoBlock}]
           /\ JTip \in Blocks /\ dtip \in Blocks /\ committed \in Nat
           /\ Chain \subseteq Blocks \ {Root} /\ Line(dtip) \subseteq Blocks \ {Root}
           /\ \A b \in Blocks : Height[b] \in Nat
<1>1. JTip \in Blocks
  BY SafeTip
<1>2. dtip \in Blocks /\ indexes \in [Blocks -> Nat]
  BY DEF Safe, Types, ThreadTypes
<1>3. Branch[JTip] \subseteq Blocks /\ Branch[dtip] \subseteq Blocks /\ \A b \in Blocks : Height[b] \in Nat
  BY <1>1, <1>2, HeightTypes
<1>4. committed \in Nat
  <2>1. committed \in Heights \cup {0}
    BY DEF Safe, Types, StoreTypes
  <2> QED BY <1>3, <2>1 DEF Heights
<1>5. /\ index \in [Blocks -> Nat] /\ index_disk \in [Blocks -> Nat]
      /\ proofs \in Seq(Blocks \cup {Garbage}) /\ proofs_synced \in 0 .. Len(proofs)
      /\ headers \in [Heights -> Blocks \cup {NoBlock}]
      /\ headers_disk \in [Heights -> Blocks \cup {NoBlock}]
  BY DEF Safe, Types, StoreTypes
<1>6. Len(proofs) \in Nat
  BY <1>5
<1>7. proofs_synced \in Nat /\ proofs_synced <= Len(proofs)
  BY <1>5, <1>6
<1>8. Merged \in [Blocks -> Nat] /\ \A b \in Blocks : Merged[b] = IF indexes[b] # 0 THEN indexes[b] ELSE index[b]
  BY <1>2, <1>5 DEF Merged
<1>9. Chain \subseteq Blocks \ {Root} /\ Line(dtip) \subseteq Blocks \ {Root}
  BY <1>3 DEF Chain, Line
<1> QED BY <1>1, <1>2, <1>3, <1>4, <1>5, <1>6, <1>7, <1>8, <1>9

\* The chain and the merged index depend on the journal and the index alone.
LEMMA StoreFrame ==
    ASSUME UNCHANGED <<index, indexes>>, JTip' = JTip
    PROVE  Chain' = Chain /\ Merged' = Merged
  BY DEF Chain, Line, Merged

\* Entries and proofs stay, and so does the chain.
LEMMA IndexKept ==
    ASSUME Safe, InvIndex, UNCHANGED <<index, index_disk, indexes, proofs>>, JTip' = JTip,
           proofs_synced' \in Nat, proofs_synced <= proofs_synced',
           \A b \in Blocks : Merged[b] # 0 => b \in Chain \cup OrphanedBlocks',
           \A b \in Chain : Height[b] <= committed' => index_disk[b] # 0
    PROVE  InvIndex'
<1>1. Chain' = Chain /\ Merged' = Merged
  BY StoreFrame
<1>2. \A b \in Blocks : index'[b] # 0 => Merged'[b] = index'[b] /\ index'[b] <= proofs_synced'
  BY <1>1, StoreFacts DEF InvIndex
<1>3. \A b \in Blocks : Merged'[b] # 0 => Readable(Merged[b], b)' /\ b \in Chain' \cup OrphanedBlocks'
  BY <1>1 DEF InvIndex, Readable
<1>4. Prefix(index_disk)' /\ Prefix(index)' /\ Rising(Chain)'
  BY <1>1 DEF InvIndex, Prefix, Rising
<1>5. /\ \A b \in Blocks : index_disk'[b] # 0 => index'[b] = index_disk'[b]
      /\ \A b \in Chain' : Height[b] <= committed' => index_disk'[b] # 0
  BY <1>1 DEF InvIndex
<1> QED BY <1>2, <1>3, <1>4, <1>5 DEF InvIndex

\* While the threads run there is nothing of the recovery's.
LEMMA RepairedWhileUp ==
    ASSUME Up'
    PROVE  InvRepaired'
  BY DEF Up, RecoverySteps, InvRepaired, ReplaySteps

\* While the recovery runs there is nothing of the worker's.
LEMMA StoredWhileDown ==
    ASSUME Safe', ~Up'
    PROVE  InvStored' /\ InvHeld'
<1>1. wpc' = "idle"
  BY DEF Safe, Threads, InvIdle
<1> QED BY <1>1 DEF InvStored, InvHeld, FreshSteps

\* A step of a running bridge that leaves entries, proofs and chain, and for
\* which the worker's next step requires no more than its last.
LEMMA PlacesKept ==
    ASSUME Safe, Places, Up, Up', UNCHANGED <<index, index_disk, indexes, proofs, dtip>>,
           JTip' = JTip,
           asked' \in {asked, NoRequest},
           InvProofFaults',
           proofs_synced' \in {proofs_synced, Len(proofs)},
           \A b \in Blocks : Merged[b] # 0 => b \in Chain \cup OrphanedBlocks',
           \A b \in Chain : Height[b] <= committed' => index_disk[b] # 0,
           wpc' # "failed" => (wpc' = "append" <=> wpc = "append"),
           wpc' \notin FreshSteps \cup {"failed"} => wpc \notin FreshSteps \cup {"failed"},
           /\ wpc' # "failed"
           /\ command'.kind # "rollback" \/ wpc' \in {"idle", "rollback_height"}
           => /\ wpc # "failed"
              /\ command.kind # "rollback" \/ wpc \in {"idle", "rollback_height"},
           wpc' \in FreshSteps => wpc \in FreshSteps,
           wpc' \in FreshSteps \ {"proof_sync"} =>
               wpc \in FreshSteps \ {"proof_sync"} \/ proofs_synced' = Len(proofs),
           wpc' \in {"index_flush", "apply", "forest_sync", "update_height"} =>
               wpc \in {"index_flush", "apply", "forest_sync", "update_height"},
           wpc' \in {"apply", "forest_sync", "update_height"} =>
               wpc \in {"apply", "forest_sync", "update_height"},
           wpc' \in {"truncate", "rollback_height"} =>
               wpc \in {"truncate", "rollback_height"} /\ command' = command
    PROVE  Places'
<1>1. Chain' = Chain /\ Merged' = Merged
  BY StoreFrame
<1>2. InvIndex'
  BY IndexKept, StoreFacts DEF Places
<1>3. Line(dtip)' = Line(dtip) /\ \A b \in Blocks : Place(b)' = Place(b)
  BY <1>1 DEF Line, Place
<1>4. InvHeld'
  <2>1. /\ \A b \in Blocks : Merged'[b] # 0 => b \in Line(dtip)' \cup Chain'
        /\ Rising(Line(dtip))'
    BY <1>1, <1>3 DEF Places, InvHeld, Rising
  <2>2. wpc' = "append" => \A b \in Blocks : index'[b] # 0 => b \in Line(dtip)'
    BY <1>3 DEF Places, InvHeld
  <2>3. wpc' \notin FreshSteps \cup {"failed"} => indexes' = NoIndexes
    BY DEF Places, InvHeld
  <2>4. wpc' # "failed" /\ (command'.kind # "rollback" \/ wpc' \in {"idle", "rollback_height"}) =>
              Len(proofs') = Place(IF wpc = "append" THEN dtip ELSE JTip)'
    <3> SUFFICES ASSUME wpc' # "failed",
                        command'.kind # "rollback" \/ wpc' \in {"idle", "rollback_height"}
                 PROVE  Len(proofs') = Place(IF wpc = "append" THEN dtip ELSE JTip)'
      OBVIOUS
    <3>1. Len(proofs) = Place(IF wpc = "append" THEN dtip ELSE JTip)
      BY DEF Places, InvHeld
    <3> QED BY <1>1, <3>1 DEF Place
  <2> QED BY <2>1, <2>2, <2>3, <2>4 DEF InvHeld
<1>5. InvStored'
  <2>1. wpc' \in {"truncate", "rollback_height"} => Orphan' = Orphan
    BY DEF Orphan
  <2>2. /\ wpc' \in FreshSteps => Full(Merged)'
        /\ wpc' \in {"index_flush", "apply", "forest_sync", "update_height"} => Full(index)'
        /\ wpc' \in {"apply", "forest_sync", "update_height"} => Full(index_disk)'
    BY <1>1 DEF Places, InvStored, Full
  <2>3. wpc' \in FreshSteps \ {"proof_sync"} => proofs_synced' = Len(proofs')
    BY DEF Places, InvStored
  <2>4. wpc' \in {"truncate", "rollback_height"} => index'[Orphan'] = 0
    BY <2>1 DEF Places, InvStored
  <2> QED BY <2>2, <2>3, <2>4 DEF InvStored
<1>6. InvAsked'
  BY <1>1 DEF Places, InvAsked, Line
<1> QED BY <1>2, <1>4, <1>5, <1>6, RepairedWhileUp DEF Places

\* What entries, proofs and headers are, and what is committed of them.
store_frame == <<log, floor, index, index_disk, indexes, proofs, proofs_synced, headers,
                 headers_disk, committed>>

\* A step of the producer leaves the stores; at most it puts a command in front
\* of an idle worker.
LEMMA ProducerSteady ==
    ASSUME Safe, Producer \/ rpc_error \/ lookup_error, ~exit
    PROVE  /\ Up /\ Up' /\ UNCHANGED store_frame /\ UNCHANGED <<dtip, wpc, asked>>
           /\ UNCHANGED command \/ (wpc = "idle" /\ command.kind = "none")
           /\ fault' = fault \/ fault' = "diverged"
<1> USE DEF store_vars, journal_vars, header_vars, proof_vars, index_vars, worker_vars, env_vars,
            service_vars, store_frame
<1>1. CASE \/ keep_up \/ reconcile_chain \/ lookup_error \/ wait_for_apply \/ reconciled
           \/ sync_to_tip \/ reserve_persistence \/ stop_range \/ reorg_in_range \/ rpc_error
           \/ prove_block \/ worker_failed \/ verify_durable_tip
  <2>1. /\ UNCHANGED store_frame /\ UNCHANGED <<wpc, dtip, command, asked>>
        /\ pc \in ProducerSteps /\ pc' \in ProducerSteps
        /\ fault' = fault \/ fault' = "diverged"
    BY <1>1 DEF keep_up, reconcile_chain, lookup_error, wait_for_apply, reconciled, sync_to_tip,
       reserve_persistence, stop_range, reorg_in_range, rpc_error, prove_block, worker_failed,
       verify_durable_tip, bail, ProducerSteps
  <2> QED BY <2>1, StepNames DEF Up
<1>2. CASE reconcile_barrier \/ publish_pending \/ sync
  <2>1. /\ UNCHANGED store_frame /\ UNCHANGED <<wpc, dtip, fault, asked>>
        /\ pc \in {"reconcile_drain", "publish", "drain"} /\ pc' \in ProducerSteps
        /\ UNCHANGED command \/ (submitted = 0 /\ wpc # "failed")
    BY <1>2 DEF reconcile_barrier, publish_pending, sync, WorkerAlive, Drained, ProducerSteps
  <2>2. Up /\ Up'
    <3>1. pc \in ProducerSteps
      BY <2>1 DEF ProducerSteps
    <3> QED BY <2>1, <3>1, StepNames DEF Up
  <2>3. submitted = 0 => command.kind = "none" \/ wpc = "failed"
    BY <2>1, <2>2 DEF Safe, Types, ThreadTypes, Commands, Threads, InvChannel
  <2>4. command.kind = "none" => wpc = "idle"
    BY <2>2 DEF Safe, Threads, InvChannel
  <2> QED BY <2>1, <2>2, <2>3, <2>4
<1> QED BY <1>1, <1>2 DEF Producer

-----------------------------------------------------------------------------
(* Entries and proofs: steps that leave them *)

\* What PlacesKept asks of chain and height.
LEMMA KeptAnyway ==
    ASSUME Safe, Places, UNCHANGED <<log, floor>>, committed' = committed
    PROVE  /\ JTip' = JTip
           /\ \A b \in Blocks : Merged[b] # 0 => b \in Chain \cup OrphanedBlocks'
           /\ \A b \in Chain : Height[b] <= committed' => index_disk[b] # 0
  BY LogFrame DEF Places, InvIndex

\* The producer writes neither index nor proof file.
LEMMA ProducerPlaces ==
    ASSUME Safe, Places, Producer \/ rpc_error \/ lookup_error, ~exit
    PROVE  Places'
<1>1. /\ Up /\ Up' /\ UNCHANGED store_frame /\ UNCHANGED <<dtip, wpc, asked>>
      /\ UNCHANGED command \/ (wpc = "idle" /\ command.kind = "none")
      /\ fault' = fault \/ fault' = "diverged"
  BY ProducerSteady
<1>2. InvProofFaults'
  BY <1>1 DEF Places, InvProofFaults
<1> QED BY <1>1, <1>2, KeptAnyway, PlacesKept DEF store_frame, FreshSteps

\* The worker's steps that have to do with other stores.
LEMMA WorkerElsewhere ==
    ASSUME Safe, Places,
           \/ persist \/ put \/ header_sync \/ apply_forward_batch \/ forest_sync
           \/ reorg_too_deep \/ apply_backward \/ backward_sync
           \/ remove_header \/ remove_header_sync \/ header_unavailable \/ worker_fail
    PROVE  Places'
<1> USE DEF store_vars, journal_vars, proof_vars, index_vars, producer_vars, worker_step, env_vars,
            service_vars
<1>1. /\ UNCHANGED <<log, floor, index, index_disk, indexes, proofs, proofs_synced, dtip, asked,
                     committed, pc, command>>
      /\ fault' = fault \/ fault' = "window"
      /\ \/ wpc' = "failed"
         \/ command.kind = "publish" /\ <<wpc, wpc'>> \in
              {<<"idle", "publish">>, <<"put_headers", "header_sync">>,
               <<"header_sync", "append_batch">>, <<"apply", "forest_sync">>,
               <<"forest_sync", "update_height">>}
         \/ command.kind = "rollback" /\ <<wpc, wpc'>> \in
              {<<"apply_backward", "backward_sync">>, <<"backward_sync", "remove_header">>,
               <<"remove_header", "remove_header_sync">>, <<"remove_header_sync", "remove_index">>}
  BY DEF persist, put, header_sync, apply_forward_batch, forest_sync, reorg_too_deep,
     apply_backward, backward_sync, remove_header, remove_header_sync, header_unavailable,
     worker_fail, Running, bail
<1>2. command # NoCommand \/ wpc # "idle"
  BY DEF persist, put, header_sync, apply_forward_batch, forest_sync, reorg_too_deep,
     apply_backward, backward_sync, remove_header, remove_header_sync, header_unavailable,
     worker_fail, Running, NoCommand
<1>3. Up /\ Up'
  BY <1>1, <1>2 DEF Up, Safe, Threads, InvIdle
<1>4. InvProofFaults'
  BY <1>1 DEF Places, InvProofFaults
<1>5. CASE wpc' = "failed"
  BY <1>1, <1>3, <1>4, <1>5, KeptAnyway, PlacesKept DEF FreshSteps
<1>6. CASE command.kind = "publish" /\ <<wpc, wpc'>> \in
              {<<"idle", "publish">>, <<"put_headers", "header_sync">>,
               <<"header_sync", "append_batch">>, <<"apply", "forest_sync">>,
               <<"forest_sync", "update_height">>}
  BY <1>1, <1>3, <1>4, <1>6, KeptAnyway, PlacesKept DEF FreshSteps
<1>7. CASE command.kind = "rollback" /\ <<wpc, wpc'>> \in
              {<<"apply_backward", "backward_sync">>, <<"backward_sync", "remove_header">>,
               <<"remove_header", "remove_header_sync">>, <<"remove_header_sync", "remove_index">>}
  BY <1>1, <1>3, <1>4, <1>7, KeptAnyway, PlacesKept DEF FreshSteps
<1> QED BY <1>1, <1>5, <1>6, <1>7

\* The syncs of the worker make entries and proofs durable and change none.
LEMMA WorkerSyncs ==
    ASSUME Safe, Places, proof_sync \/ discard_unpublished \/ sync_barrier \/ complete
    PROVE  Places'
<1> USE DEF store_vars, journal_vars, proof_vars, index_vars, producer_vars, worker_step, env_vars,
            service_vars, answer, Running
<1>1. /\ UNCHANGED <<log, index, index_disk, indexes, proofs, dtip, asked, pc, fault>>
      /\ command.kind # "none"
  BY DEF proof_sync, discard_unpublished, sync_barrier, complete
<1>2. Up /\ Up'
  BY <1>1 DEF Up, Safe, Threads, InvIdle, NoCommand
<1>3. InvProofFaults'
  BY <1>1 DEF Places, InvProofFaults
<1>4. CASE proof_sync
  <2>1. /\ command.kind = "publish" /\ wpc = "proof_sync" /\ wpc' = "put_headers"
        /\ proofs_synced' = Len(proofs) /\ UNCHANGED <<floor, committed, command>>
    BY <1>4 DEF proof_sync
  <2> QED BY <1>1, <1>2, <1>3, <2>1, KeptAnyway, PlacesKept DEF FreshSteps
<1>5. CASE discard_unpublished
  <2>1. /\ command.kind = "discard" /\ wpc = "idle" /\ wpc' = "idle" /\ command' = NoCommand
        /\ UNCHANGED <<floor, committed, proofs_synced>>
    BY <1>5 DEF discard_unpublished
  <2>2. command'.kind = "none"
    BY <2>1 DEF NoCommand
  <2> QED BY <1>1, <1>2, <1>3, <2>1, <2>2, KeptAnyway, PlacesKept DEF FreshSteps
<1>6. CASE sync_barrier
  <2>1. /\ command.kind \in {"sync", "shutdown"} /\ wpc = "idle" /\ wpc' = "idle" /\ command' = NoCommand
        /\ proofs_synced' = Len(proofs) /\ floor' = floor /\ committed' = Height[dtip]
    BY <1>6 DEF sync_barrier
  <2>2. command'.kind = "none" /\ committed' = committed
    BY <1>2, <2>1 DEF NoCommand, Safe, Forest, InvCommitted
  <2> QED BY <1>1, <1>2, <1>3, <2>1, <2>2, KeptAnyway, PlacesKept DEF FreshSteps
<1>7. CASE complete
  <2>1. /\ command.kind = "publish" /\ wpc = "prune" /\ wpc' = "idle" /\ command' = NoCommand
        /\ floor' = floor \/ floor' \in ForwardRecords
        /\ UNCHANGED <<committed, proofs_synced>>
    BY <1>7 DEF complete, PruneCuts
  <2>2. command'.kind = "none" /\ Working
    BY <1>2, <2>1 DEF NoCommand, Working
  <2>3. JTip = dtip
    BY <2>1, <2>2 DEF Safe, Forest, InvWorker
  <2>4. JTip' = JTip
    BY <1>1, <2>1, SafeTip, LogFrame, Pruning
  <2>5. \A b \in Blocks : Merged[b] # 0 => b \in Chain \cup OrphanedBlocks'
    BY <1>2, <2>3 DEF Places, InvHeld, Chain
  <2>6. \A b \in Chain : Height[b] <= committed' => index_disk[b] # 0
    BY <2>1 DEF Places, InvIndex
  <2> QED BY <1>1, <1>2, <1>3, <2>1, <2>2, <2>4, <2>5, <2>6, PlacesKept DEF FreshSteps
<1> QED BY <1>4, <1>5, <1>6, <1>7

-----------------------------------------------------------------------------
(* Entries and proofs: the operations on them *)

\* Proofs appended, and their places.
LEMMA Appended ==
    ASSUME Safe, NEW t \in Seq(Blocks), append_proofs(t), index' = index,
           \A i, j \in 1 .. Len(t) : t[i] = t[j] => i = j
    PROVE  /\ Len(t) \in Nat /\ Len(proofs') = Len(proofs) + Len(t)
           /\ \A k \in 1 .. Len(t) : /\ Merged'[t[k]] = Len(proofs) + k
                                     /\ proofs'[Len(proofs) + k] = t[k]
           /\ \A i \in 1 .. Len(proofs) : proofs'[i] = proofs[i]
           /\ \A b \in Blocks : b \notin SetOf(t) => Merged'[b] = index[b]
<1>1. /\ proofs' = proofs \o t /\ proofs \in Seq(Blocks \cup {Garbage}) /\ Len(proofs) \in Nat
      /\ t \in Seq(Blocks \cup {Garbage}) /\ Len(t) \in Nat
  BY StoreFacts DEF append_proofs
<1>2. Len(proofs') = Len(proofs) + Len(t)
  BY <1>1
<1>3. \A i \in 1 .. Len(proofs) : proofs'[i] = proofs[i]
  BY <1>1
<1>4. \A k \in 1 .. Len(t) : proofs'[Len(proofs) + k] = t[k]
  BY <1>1
<1>5. \A b \in Blocks : indexes'[b] = IF \E i \in 1 .. Len(t) : t[i] = b
                                      THEN Len(proofs) + (CHOOSE i \in 1 .. Len(t) : t[i] = b)
                                      ELSE 0
  BY DEF append_proofs
<1>6. \A b \in Blocks : Merged'[b] = IF indexes'[b] # 0 THEN indexes'[b] ELSE index'[b]
  BY DEF Merged
<1>7. ASSUME NEW k \in 1 .. Len(t) PROVE Merged'[t[k]] = Len(proofs) + k
  <2>1. t[k] \in Blocks /\ \E i \in 1 .. Len(t) : t[i] = t[k]
    BY <1>1
  <2>2. (CHOOSE i \in 1 .. Len(t) : t[i] = t[k]) = k
    OBVIOUS
  <2>3. indexes'[t[k]] = Len(proofs) + k
    BY <1>5, <2>1, <2>2
  <2>4. Len(proofs) + k # 0
    BY <1>1
  <2> QED BY <1>6, <2>1, <2>3, <2>4
<1>8. ASSUME NEW b \in Blocks, b \notin SetOf(t) PROVE Merged'[b] = index[b]
  BY <1>5, <1>6, <1>8 DEF SetOf
<1> QED BY <1>1, <1>2, <1>3, <1>4, <1>7, <1>8

\* The missing proofs of the chain are appended in its order.
LEMMA AppendIndex ==
    ASSUME Safe, InvIndex, indexes = NoIndexes, NEW t \in Seq(Blocks), append_proofs(t),
           UNCHANGED <<log, floor, index, index_disk, proofs_synced, committed>>,
           \A i, j \in 1 .. Len(t) : i < j => Height[t[i]] < Height[t[j]],
           \A k \in 1 .. Len(t) : t[k] \in Chain /\ index[t[k]] = 0,
           \A b \in Chain : index[b] # 0 \/ b \in SetOf(t),
           \A b \in Chain, k \in 1 .. Len(t) : index[b] # 0 => Height[b] < Height[t[k]]
    PROVE  /\ InvIndex' /\ Full(Merged)' /\ Chain' = Chain
           /\ Len(proofs') = Len(proofs) + Len(t)
           /\ \A k \in 1 .. Len(t) : Merged'[t[k]] = Len(proofs) + k
           /\ \A b \in Blocks : b \notin SetOf(t) => Merged'[b] = index[b]
<1>1. JTip' = JTip /\ OrphanedBlocks' = OrphanedBlocks
  BY LogFrame
<1>2. Chain' = Chain
  BY <1>1 DEF Chain, Line
<1>3. /\ index \in [Blocks -> Nat] /\ Len(proofs) \in Nat /\ Chain \subseteq Blocks
      /\ proofs_synced \in Nat /\ proofs_synced <= Len(proofs) /\ Len(t) \in Nat
      /\ \A b \in Blocks : Height[b] \in Nat
  BY StoreFacts
<1>4. \A i, j \in 1 .. Len(t) : t[i] = t[j] => i = j
  <2> SUFFICES ASSUME NEW i \in 1 .. Len(t), NEW j \in 1 .. Len(t), i # j PROVE t[i] # t[j]
    OBVIOUS
  <2>1. t[i] \in Blocks /\ t[j] \in Blocks /\ (i < j \/ j < i)
    BY <1>3
  <2>2. Height[t[i]] # Height[t[j]]
    <3>1. Height[t[i]] \in Nat /\ Height[t[j]] \in Nat
      BY <1>3, <2>1
    <3>2. Height[t[i]] < Height[t[j]] \/ Height[t[j]] < Height[t[i]]
      BY <2>1
    <3> QED BY <3>1, <3>2
  <2> QED BY <2>2
<1>5. /\ Len(proofs') = Len(proofs) + Len(t)
      /\ \A k \in 1 .. Len(t) : /\ Merged'[t[k]] = Len(proofs) + k
                                /\ proofs'[Len(proofs) + k] = t[k]
      /\ \A i \in 1 .. Len(proofs) : proofs'[i] = proofs[i]
      /\ \A b \in Blocks : b \notin SetOf(t) => Merged'[b] = index[b]
  BY <1>4, Appended
<1>6. \A b \in SetOf(t) : \E k \in 1 .. Len(t) : b = t[k]
  BY DEF SetOf
<1>7. \A b \in Blocks : Merged[b] = index[b]
  BY StoreFacts DEF NoIndexes
<1>8. \A b \in Blocks : index[b] # 0 => /\ Merged'[b] = index[b] /\ index[b] <= proofs_synced
                                        /\ index[b] \in 1 .. Len(proofs) /\ proofs[index[b]] = b
                                        /\ b \in Chain \cup OrphanedBlocks
  <2> SUFFICES ASSUME NEW b \in Blocks, index[b] # 0
               PROVE  /\ Merged'[b] = index[b] /\ index[b] <= proofs_synced
                      /\ index[b] \in 1 .. Len(proofs) /\ proofs[index[b]] = b
                      /\ b \in Chain \cup OrphanedBlocks
    OBVIOUS
  <2>1. b \notin SetOf(t)
    BY <1>6
  <2>2. Merged'[b] = index[b] /\ Merged[b] = index[b]
    BY <1>5, <1>7, <2>1
  <2>3. Readable(index[b], b) /\ b \in Chain \cup OrphanedBlocks /\ index[b] <= proofs_synced
    BY <2>2 DEF InvIndex
  <2> QED BY <2>2, <2>3 DEF Readable
<1>9. ASSUME NEW b \in Blocks, Merged'[b] # 0
      PROVE  Readable(Merged[b], b)' /\ b \in Chain' \cup OrphanedBlocks'
  <2>1. CASE b \in SetOf(t)
    <3>1. PICK k \in 1 .. Len(t) : b = t[k]
      BY <1>6, <2>1
    <3>2. Len(proofs) + k \in 1 .. Len(proofs')
      BY <1>3, <1>5
    <3> QED BY <1>2, <1>5, <3>1, <3>2 DEF Readable
  <2>2. CASE b \notin SetOf(t)
    <3>1. Merged'[b] = index[b] /\ index[b] # 0
      BY <1>5, <1>9, <2>2
    <3>2. index[b] \in 1 .. Len(proofs')
      BY <1>3, <1>5, <1>8, <3>1
    <3> QED BY <1>1, <1>2, <1>5, <1>8, <3>1, <3>2 DEF Readable
  <2> QED BY <2>1, <2>2
<1>10. Prefix(index_disk)' /\ Prefix(index)'
  BY <1>2 DEF InvIndex, Prefix
<1>11. ASSUME NEW b \in Chain, NEW c \in Chain, Height[b] < Height[c]
       PROVE  Merged'[b] < Merged'[c]
  <2>1. CASE b \in SetOf(t) /\ c \in SetOf(t)
    <3>1. PICK i \in 1 .. Len(t) : b = t[i]
      BY <1>6, <2>1
    <3>2. PICK j \in 1 .. Len(t) : c = t[j]
      BY <1>6, <2>1
    <3>3. i < j
      <4>1. ~(j < i) /\ i # j
        BY <1>3, <1>11, <3>1, <3>2
      <4> QED BY <1>3, <4>1
    <3> QED BY <1>3, <1>5, <3>1, <3>2, <3>3
  <2>2. CASE b \in SetOf(t) /\ c \notin SetOf(t)
    <3>1. PICK i \in 1 .. Len(t) : b = t[i]
      BY <1>6, <2>2
    <3>2. index[c] # 0
      BY <2>2
    <3>3. Height[c] < Height[b]
      BY <3>1, <3>2
    <3> QED BY <1>3, <1>11, <3>3
  <2>3. CASE b \notin SetOf(t) /\ c \in SetOf(t)
    <3>1. PICK j \in 1 .. Len(t) : c = t[j]
      BY <1>6, <2>3
    <3>2. Merged'[b] = index[b] /\ index[b] \in 1 .. Len(proofs)
      BY <1>3, <1>8, <2>3
    <3> QED BY <1>3, <1>5, <3>1, <3>2
  <2>4. CASE b \notin SetOf(t) /\ c \notin SetOf(t)
    <3>1. index[b] # 0 /\ index[c] # 0
      BY <2>4
    <3> QED BY <1>3, <1>7, <1>8, <1>11, <3>1 DEF InvIndex, Rising
  <2> QED BY <2>1, <2>2, <2>3, <2>4
<1>12. Rising(Chain)'
  BY <1>2, <1>11 DEF Rising
<1>13. ASSUME NEW b \in Chain PROVE Merged'[b] # 0
  <2>1. CASE b \in SetOf(t)
    <3>1. PICK i \in 1 .. Len(t) : b = t[i]
      BY <1>6, <2>1
    <3> QED BY <1>3, <1>5, <3>1
  <2>2. CASE b \notin SetOf(t)
    BY <1>3, <1>8, <2>2
  <2> QED BY <2>1, <2>2
<1>14. Full(Merged)'
  BY <1>2, <1>13 DEF Full
<1>15. /\ \A b \in Blocks : index_disk'[b] # 0 => index'[b] = index_disk'[b]
       /\ \A b \in Blocks : index'[b] # 0 => Merged'[b] = index'[b] /\ index'[b] <= proofs_synced'
       /\ \A b \in Chain' : Height[b] <= committed' => index_disk'[b] # 0
  BY <1>2, <1>8 DEF InvIndex
<1>16. InvIndex'
  BY <1>9, <1>10, <1>12, <1>15 DEF InvIndex
<1> QED BY <1>2, <1>5, <1>14, <1>16

\* The places go into the index.
LEMMA SetIndex ==
    ASSUME Safe, InvIndex, append_batch, Full(Merged), proofs_synced = Len(proofs),
           UNCHANGED <<log, floor, index_disk, indexes, proofs, proofs_synced, committed>>
    PROVE  InvIndex' /\ Merged' = Merged /\ Chain' = Chain /\ Full(index)' /\ index' = Merged
<1>1. JTip' = JTip /\ OrphanedBlocks' = OrphanedBlocks
  BY LogFrame
<1>2. Chain' = Chain
  BY <1>1 DEF Chain, Line
<1>3. index' = Merged
  BY DEF append_batch, Merged
<1>4. /\ Merged \in [Blocks -> Nat] /\ Chain \subseteq Blocks
      /\ \A b \in Blocks : Merged[b] = IF indexes[b] # 0 THEN indexes[b] ELSE index[b]
  BY StoreFacts
<1>5. Merged' = Merged
  <2>1. \A b \in Blocks : (IF indexes[b] # 0 THEN indexes[b] ELSE Merged[b]) = Merged[b]
    BY <1>4
  <2>2. Merged' = [b \in Blocks |-> IF indexes[b] # 0 THEN indexes[b] ELSE Merged[b]]
    BY <1>3 DEF Merged
  <2> QED BY <1>4, <2>1, <2>2
<1>6. Full(index)' /\ Prefix(index)'
  BY <1>2, <1>3 DEF Full, Prefix
<1>7. \A b \in Blocks : Merged[b] # 0 => /\ Readable(Merged[b], b) /\ Merged[b] <= proofs_synced
                                         /\ b \in Chain \cup OrphanedBlocks
  BY DEF InvIndex, Readable
<1>8. \A b \in Blocks : index'[b] # 0 => Merged'[b] = index'[b] /\ index'[b] <= proofs_synced'
  BY <1>3, <1>5, <1>7
<1>9. \A b \in Blocks : Merged'[b] # 0 => Readable(Merged[b], b)' /\ b \in Chain' \cup OrphanedBlocks'
  BY <1>1, <1>2, <1>5, <1>7 DEF Readable
<1>10. Prefix(index_disk)' /\ Rising(Chain)'
  BY <1>2, <1>5 DEF InvIndex, Prefix, Rising
<1>11. \A b \in Blocks : index_disk'[b] # 0 => index'[b] = index_disk'[b]
  BY <1>3 DEF InvIndex
<1>12. \A b \in Chain' : Height[b] <= committed' => index_disk'[b] # 0
  BY <1>2 DEF InvIndex
<1> QED BY <1>2, <1>3, <1>5, <1>6, <1>8, <1>9, <1>10, <1>11, <1>12 DEF InvIndex

\* The index is flushed.
LEMMA FlushIndex ==
    ASSUME Safe, InvIndex, index_disk' = index, indexes' = NoIndexes, Full(index),
           UNCHANGED <<log, floor, index, proofs, proofs_synced, committed>>
    PROVE  /\ InvIndex' /\ Merged' = index /\ Chain' = Chain /\ Full(index)' /\ Full(index_disk)'
           /\ \A b \in Chain : Merged[b] = index[b]
<1>1. JTip' = JTip /\ OrphanedBlocks' = OrphanedBlocks
  BY LogFrame
<1>2. Chain' = Chain
  BY <1>1 DEF Chain, Line
<1>3. index \in [Blocks -> Nat] /\ Chain \subseteq Blocks
  BY StoreFacts
<1>4. Merged' = index
  <2>1. Merged' = [b \in Blocks |-> index[b]]
    BY DEF Merged, NoIndexes
  <2> QED BY <1>3, <2>1
<1>5. \A b \in Blocks : index[b] # 0 => Merged[b] = index[b]
  BY DEF InvIndex
<1>6. Full(index)' /\ Full(index_disk)' /\ Prefix(index)' /\ Prefix(index_disk)'
  BY <1>2 DEF Full, Prefix
<1>7. \A b \in Blocks : Merged'[b] # 0 => Readable(Merged[b], b)' /\ b \in Chain' \cup OrphanedBlocks'
  BY <1>1, <1>2, <1>4, <1>5 DEF InvIndex, Readable
<1>8. Rising(Chain)'
  BY <1>2, <1>3, <1>4, <1>5 DEF InvIndex, Rising
<1>9. \A b \in Blocks : index'[b] # 0 => Merged'[b] = index'[b] /\ index'[b] <= proofs_synced'
  BY <1>4 DEF InvIndex
<1>10. \A b \in Chain' : Height[b] <= committed' => index_disk'[b] # 0
  BY <1>2 DEF Full
<1>11. \A b \in Chain : Merged[b] = index[b]
  BY <1>3, <1>5 DEF Full
<1> QED BY <1>2, <1>4, <1>6, <1>7, <1>8, <1>9, <1>10, <1>11 DEF InvIndex

\* Entries of blocks that are not on the chain are removed.
LEMMA RemoveIndexes ==
    ASSUME Safe, InvIndex, NEW S, remove_indexes(S), indexes = NoIndexes,
           \A b \in Chain : b \notin S,
           UNCHANGED <<log, floor, indexes, proofs, proofs_synced, committed>>
    PROVE  /\ InvIndex' /\ Chain' = Chain
           /\ \A b \in Blocks : Merged[b] = index[b] /\ Merged'[b] = index'[b]
           /\ \A b \in Blocks : /\ index'[b] = IF b \in S THEN 0 ELSE index[b]
                                /\ index_disk'[b] = IF b \in S THEN 0 ELSE index_disk[b]
<1>1. JTip' = JTip /\ OrphanedBlocks' = OrphanedBlocks
  BY LogFrame
<1>2. Chain' = Chain
  BY <1>1 DEF Chain, Line
<1>3. index \in [Blocks -> Nat] /\ Chain \subseteq Blocks
  BY StoreFacts
<1>4. \A b \in Blocks : /\ index'[b] = IF b \in S THEN 0 ELSE index[b]
                        /\ index_disk'[b] = IF b \in S THEN 0 ELSE index_disk[b]
  BY DEF remove_indexes
<1>5. \A b \in Blocks : Merged[b] = index[b] /\ Merged'[b] = index'[b]
  BY DEF Merged, NoIndexes
<1>6. \A b \in Chain : index'[b] = index[b] /\ index_disk'[b] = index_disk[b]
  BY <1>3, <1>4
<1>7. Prefix(index)' /\ Prefix(index_disk)'
  BY <1>2, <1>6 DEF InvIndex, Prefix
<1>8. Rising(Chain)'
  BY <1>2, <1>3, <1>5, <1>6 DEF InvIndex, Rising
<1>9. \A b \in Blocks : Merged'[b] # 0 => Readable(Merged[b], b)' /\ b \in Chain' \cup OrphanedBlocks'
  BY <1>1, <1>2, <1>4, <1>5 DEF InvIndex, Readable
<1>10. \A b \in Blocks : index'[b] # 0 => Merged'[b] = index'[b] /\ index'[b] <= proofs_synced'
  BY <1>4, <1>5 DEF InvIndex
<1>11. \A b \in Blocks : index_disk'[b] # 0 => index'[b] = index_disk'[b]
  BY <1>4 DEF InvIndex
<1>12. \A b \in Chain' : Height[b] <= committed' => index_disk'[b] # 0
  BY <1>2, <1>6 DEF InvIndex
<1> QED BY <1>2, <1>4, <1>5, <1>7, <1>8, <1>9, <1>10, <1>11, <1>12 DEF InvIndex

\* The file is cut off after the tip's proof, the last of the chain.
LEMMA Truncated ==
    ASSUME Safe, InvIndex, indexes = NoIndexes, truncate_after(JTip),
           \A b \in Blocks : index[b] # 0 => b \in Chain,
           JTip # Root => index[JTip] # 0,
           UNCHANGED <<log, floor, index, index_disk, indexes, committed>>
    PROVE  /\ InvIndex' /\ Chain' = Chain /\ Merged' = Merged /\ fault' = fault
           /\ Len(proofs') = Place(JTip)'
<1>1. JTip' = JTip /\ OrphanedBlocks' = OrphanedBlocks
  BY LogFrame
<1>2. Chain' = Chain /\ Merged' = Merged
  BY <1>1, StoreFrame
<1>3. /\ index \in [Blocks -> Nat] /\ Chain \subseteq Blocks \ {Root} /\ JTip \in Blocks
      /\ proofs \in Seq(Blocks \cup {Garbage}) /\ Len(proofs) \in Nat
      /\ \A b \in Blocks : Height[b] \in Nat
  BY StoreFacts
<1>4. \A b \in Blocks : Merged[b] = index[b]
  BY DEF Merged, NoIndexes
<1>5. \A b \in Blocks : index[b] # 0 => index[b] \in 1 .. Len(proofs) /\ proofs[index[b]] = b
  BY <1>4 DEF InvIndex, Readable
<1> DEFINE end == IF JTip = Root THEN 0 ELSE index[JTip]
<1>6. end \in 0 .. Len(proofs) /\ end \in Nat
  BY <1>3, <1>5
<1>7. proofs' = SubSeq(proofs, 1, end) /\ proofs_synced' = end /\ fault' = fault
  BY <1>3, <1>5 DEF truncate_after
<1>8. \A b \in Blocks : index[b] # 0 => index[b] <= end
  <2> SUFFICES ASSUME NEW b \in Blocks, index[b] # 0 PROVE index[b] <= end
    OBVIOUS
  <2>1. b \in Branch[JTip] /\ b # Root
    BY DEF Chain, Line
  <2>2. JTip # Root
    BY <2>1, BranchDef
  <2>3. CASE b = JTip
    BY <1>3, <2>2, <2>3
  <2>4. CASE b # JTip
    <3>1. Height[b] < Height[JTip]
      BY <1>3, <2>1, <2>4, BranchBelow
    <3>2. JTip \in Chain /\ b \in Chain
      BY <1>3, <2>1, <2>2, BranchEnds DEF Chain, Line
    <3>3. index[b] < index[JTip]
      BY <1>3, <1>4, <2>2, <3>1, <3>2 DEF InvIndex, Rising
    <3> QED BY <1>3, <2>2, <3>3
  <2> QED BY <2>3, <2>4
<1>9. Place(JTip)' = end
  BY <1>1, <1>2, <1>3, <1>4 DEF Place
<1> HIDE DEF end
<1>10. Len(proofs') = end /\ \A i \in 1 .. end : proofs'[i] = proofs[i]
  BY <1>3, <1>6, <1>7
<1>11. \A b \in Blocks : index[b] # 0 => index[b] \in 1 .. Len(proofs') /\ proofs'[index[b]] = b
  BY <1>3, <1>5, <1>6, <1>8, <1>10
<1>12. \A b \in Blocks : Merged'[b] # 0 => Readable(Merged[b], b)' /\ b \in Chain' \cup OrphanedBlocks'
  BY <1>2, <1>4, <1>11 DEF Readable
<1>13. \A b \in Blocks : index'[b] # 0 => Merged'[b] = index'[b] /\ index'[b] <= proofs_synced'
  BY <1>2, <1>4, <1>7, <1>8
<1>14. Prefix(index_disk)' /\ Prefix(index)' /\ Rising(Chain)'
  BY <1>2 DEF InvIndex, Prefix, Rising
<1>15. /\ \A b \in Blocks : index_disk'[b] # 0 => index'[b] = index_disk'[b]
       /\ \A b \in Chain' : Height[b] <= committed' => index_disk'[b] # 0
  BY <1>2 DEF InvIndex
<1> QED BY <1>2, <1>7, <1>9, <1>10, <1>12, <1>13, <1>14, <1>15 DEF InvIndex

-----------------------------------------------------------------------------
(* Entries and proofs: publication *)

\* The blocks below a block of the chain's beginning are of that beginning.
LEMMA LineBelow ==
    ASSUME NEW t \in Blocks, NEW u \in Blocks, Branch[u] \subseteq Branch[t],
           NEW b \in Line(t), NEW c \in Line(u), Height[b] <= Height[c]
    PROVE  b \in Line(u)
<1>1. c \in Branch[u] /\ c \in Branch[t] /\ b \in Branch[t] /\ b # Root
  BY DEF Line
<1>2. b \in Branch[c]
  BY <1>1, BranchLine
<1>3. Branch[c] \subseteq Branch[u]
  BY <1>1, BranchBelow
<1> QED BY <1>1, <1>2, <1>3 DEF Line

\* Publishing extends the chain by blocks without an entry.
LEMMA PublishPlaces ==
    ASSUME Safe, Places, publish
    PROVE  Places'
<1> USE DEF store_vars, journal_vars, proof_vars, index_vars, producer_vars, worker_step, env_vars,
            service_vars, Running
<1> DEFINE s == command.blocks
<1>1. /\ command.kind = "publish" /\ wpc = "publish" /\ wpc' = "append" /\ floor' = floor
      /\ log' = log \o [i \in 1 .. Len(s) |-> ForwardRecord(tail[i])]
      /\ UNCHANGED <<index, index_disk, indexes, proofs, proofs_synced, dtip, asked, committed, pc,
                     command, fault>>
  BY DEF publish
<1>2. Up /\ Up' /\ Working /\ ~Restored
  BY <1>1 DEF Safe, Threads, InvIdle, Up, NoCommand, Working, Restored, InvChannel
<1>3. /\ s \in Seq(Blocks) /\ Len(s) # 0 /\ Extends(Below, s) /\ dtip = Below /\ dtip \in Blocks
  BY <1>1, <1>2, PublishCommand DEF Safe, Types
<1>4. JTip = dtip /\ committed = Height[dtip]
  BY <1>1, <1>2 DEF Safe, Forest, InvWorker, InvCommitted
<1>5. \A i \in 1 .. Len(s) : tail[i] = s[i]
  BY <1>1, <1>2 DEF Safe, Threads, InvDurable, InvChannel
<1>6. [i \in 1 .. Len(s) |-> ForwardRecord(tail[i])] = [i \in 1 .. Len(s) |-> ForwardRecord(s[i])]
  BY <1>5
<1>7. LogTypes /\ InvLog
  BY SafeTip
<1> HIDE DEF s
<1>8. JTip' = s[Len(s)]
  BY <1>1, <1>3, <1>4, <1>6, <1>7, Publication
<1>9. JTip' = EndOf(dtip, s)
  BY <1>3, <1>8 DEF EndOf
<1>10. JTip' \in Blocks /\ Branch[JTip'] = Branch[dtip] \cup SetOf(s)
  BY <1>3, <1>9, RunEnd
<1>11. ASSUME NEW b \in SetOf(s) PROVE b \in Blocks /\ Height[b] > committed
  <2>1. PICK k \in 1 .. Len(s) : b = s[k]
    BY DEF SetOf
  <2>2. Height[s[k]] = Height[dtip] + k
    BY <1>3, RunBranches
  <2> QED BY <1>3, <1>4, <2>1, <2>2, HeightTypes
<1>12. Chain = Line(dtip) /\ Chain' = Line(JTip') /\ Branch[dtip] \subseteq Branch[JTip']
  BY <1>4, <1>10 DEF Chain, Line
<1>13. \A b \in Chain : b \in Chain' /\ b \in Blocks
  BY <1>12, StoreFacts DEF Line
<1>14. ASSUME NEW b \in Chain', Height[b] <= committed PROVE b \in Chain
  <2>1. b \in Branch[dtip] \cup SetOf(s) /\ b # Root
    BY <1>10, <1>12 DEF Line
  <2>2. b \notin SetOf(s)
    <3> SUFFICES ASSUME b \in SetOf(s) PROVE FALSE
      OBVIOUS
    <3>1. b \in Blocks /\ Height[b] > committed
      BY <1>11
    <3> QED BY <1>14, <3>1, StoreFacts, SMTT(30)
  <2> QED BY <1>12, <2>1, <2>2 DEF Line
<1>15. indexes = NoIndexes /\ Merged' = Merged
  BY <1>1, <1>2 DEF Places, InvHeld, FreshSteps, Merged
<1>16. \A b \in Blocks : Merged[b] # 0 => b \in Chain
  BY <1>2, <1>12 DEF Places, InvHeld
<1>17. \A b \in Blocks : Merged[b] = index[b] /\ (index_disk[b] # 0 => index[b] = index_disk[b])
  BY <1>15 DEF Merged, NoIndexes, Places, InvIndex
<1>18. ASSUME NEW b \in Chain', NEW c \in Chain, Height[b] <= Height[c] PROVE b \in Chain
  BY <1>3, <1>10, <1>12, <1>18, LineBelow
<1>19. Chain' \subseteq Blocks
  BY <1>10, <1>12, HeightTypes DEF Line
<1>20. InvIndex'
  <2>1. Prefix(index_disk)' /\ Prefix(index)'
    <3> SUFFICES ASSUME NEW b \in Chain', NEW c \in Chain', Height[b] <= Height[c]
                 PROVE  (index_disk[c] # 0 => index_disk[b] # 0) /\ (index[c] # 0 => index[b] # 0)
      BY <1>1 DEF Prefix
    <3>1. index_disk[c] # 0 \/ index[c] # 0 => c \in Chain
      BY <1>16, <1>17, <1>19
    <3>2. c \in Chain => b \in Chain
      BY <1>18
    <3> QED BY <3>1, <3>2 DEF Places, InvIndex, Prefix
  <2>2. Rising(Chain)'
    <3> SUFFICES ASSUME NEW b \in Chain', NEW c \in Chain', Height[b] < Height[c], Merged[b] # 0,
                        Merged[c] # 0
                 PROVE  Merged[b] < Merged[c]
      BY <1>15 DEF Rising
    <3> QED BY <1>16, <1>19 DEF Places, InvIndex, Rising
  <2>3. \A b \in Blocks : Merged'[b] # 0 => Readable(Merged[b], b)' /\ b \in Chain' \cup OrphanedBlocks'
    BY <1>1, <1>13, <1>15, <1>16 DEF Places, InvIndex, Readable
  <2>4. \A b \in Chain' : Height[b] <= committed' => index_disk'[b] # 0
    BY <1>1, <1>14 DEF Places, InvIndex
  <2>5. /\ \A b \in Blocks : index_disk'[b] # 0 => index'[b] = index_disk'[b]
        /\ \A b \in Blocks : index'[b] # 0 => Merged'[b] = index'[b] /\ index'[b] <= proofs_synced'
    BY <1>1, <1>15 DEF Places, InvIndex
  <2> QED BY <2>1, <2>2, <2>3, <2>4, <2>5 DEF InvIndex
<1>21. InvHeld'
  <2>1. Line(dtip)' = Chain
    BY <1>1, <1>12 DEF Line
  <2>2. Rising(Line(dtip))'
    BY <1>15, <2>1 DEF Places, InvIndex, Rising
  <2>3. /\ \A b \in Blocks : Merged'[b] # 0 => b \in Line(dtip)' \cup Chain'
        /\ \A b \in Blocks : index'[b] # 0 => b \in Line(dtip)'
    BY <1>1, <1>15, <1>16, <1>17, <2>1
  <2>4. Len(proofs) = Place(JTip)
    BY <1>1, <1>2 DEF Places, InvHeld
  <2>5. Len(proofs') = Place(IF wpc = "append" THEN dtip ELSE JTip)'
    BY <1>1, <1>4, <1>15, <2>4 DEF Place
  <2>6. indexes' = NoIndexes
    BY <1>1, <1>15
  <2> QED BY <2>2, <2>3, <2>5, <2>6 DEF InvHeld
<1>22. InvStored'
  BY <1>1 DEF InvStored, FreshSteps
<1>23. InvAsked'
  BY <1>1, <1>2, <1>15 DEF Places, InvAsked, Line
<1>24. InvProofFaults'
  BY <1>1 DEF Places, InvProofFaults
<1> QED BY <1>2, <1>20, <1>21, <1>22, <1>23, <1>24, RepairedWhileUp DEF Places

\* Proofs are appended at the end, so their places rise with the height.
LEMMA AppendPlaces ==
    ASSUME Safe, Places, append
    PROVE  Places'
<1> USE DEF store_vars, journal_vars, proof_vars, index_vars, producer_vars, worker_step, env_vars,
            service_vars, Running
<1> DEFINE s == command.blocks
<1>1. /\ command.kind = "publish" /\ wpc = "append" /\ wpc' = "proof_sync" /\ append_proofs(s)
      /\ UNCHANGED <<log, floor, index, index_disk, proofs_synced, dtip, asked, committed, pc,
                     command, fault>>
  BY DEF append
<1>2. Up /\ Up' /\ Working
  BY <1>1 DEF Safe, Threads, InvIdle, Up, NoCommand, Working
<1>3. /\ s \in Seq(Blocks) /\ Len(s) # 0 /\ Extends(Below, s) /\ dtip = Below /\ dtip \in Blocks
      /\ \A b \in SetOf(s) : b \in Blocks \ {Root} /\ b \notin Branch[dtip]
  BY <1>1, <1>2, PublishCommand DEF Safe, Types
<1>4. JTip = LastBlock(s) /\ committed = Height[dtip]
  BY <1>1, <1>2 DEF Safe, Forest, InvWorker, InvCommitted
<1> HIDE DEF s
<1>5. JTip = s[Len(s)] /\ JTip = EndOf(dtip, s) /\ Len(s) \in 1 .. Len(s)
  BY <1>3, <1>4 DEF LastBlock, EndOf
<1>6. JTip \in Blocks /\ Branch[JTip] = Branch[dtip] \cup SetOf(s) /\ JTip # Root
  BY <1>3, <1>5, RunEnd DEF SetOf
<1>7. \A k \in 1 .. Len(s) : s[k] \in SetOf(s) /\ Height[s[k]] = Height[dtip] + k
  BY <1>3, RunBranches DEF SetOf
<1>8. Chain = Line(dtip) \cup SetOf(s)
  BY <1>3, <1>6 DEF Chain, Line
<1>9. indexes = NoIndexes
  BY <1>1, <1>2 DEF Places, InvHeld, FreshSteps
<1>10. /\ \A b \in Blocks : Merged[b] = index[b] /\ Height[b] \in Nat
       /\ index \in [Blocks -> Nat] /\ Len(proofs) \in Nat
  BY <1>9, StoreFacts DEF Merged, NoIndexes
<1>11. \A b \in Blocks : index[b] # 0 => b \in Line(dtip)
  BY <1>1, <1>2 DEF Places, InvHeld
<1>12. \A b \in Line(dtip) : b \in Blocks /\ b \notin SetOf(s) /\ Height[b] <= Height[dtip]
  BY <1>3, BranchBelow DEF Line
<1>13. \A b \in Line(dtip) : index[b] # 0
  <2> SUFFICES ASSUME NEW b \in Line(dtip) PROVE index[b] # 0
    OBVIOUS
  <2>1. b \in Chain /\ Height[b] <= committed /\ b \in Blocks
    BY <1>4, <1>8, <1>12
  <2>2. index_disk[b] # 0
    BY <2>1 DEF Places, InvIndex
  <2> QED BY <2>1, <2>2 DEF Places, InvIndex
<1>14. \A i, j \in 1 .. Len(s) : i < j => Height[s[i]] < Height[s[j]]
  <2>1. Height[dtip] \in Nat
    BY <1>10, StoreFacts
  <2>2. ASSUME NEW i \in 1 .. Len(s), NEW j \in 1 .. Len(s), i < j
        PROVE  Height[s[i]] < Height[s[j]]
    <3>1. Height[s[i]] = Height[dtip] + i /\ Height[s[j]] = Height[dtip] + j
      BY <1>7
    <3> QED BY <2>1, <2>2, <3>1
  <2> QED BY <2>2
<1>15. \A k \in 1 .. Len(s) : s[k] \in Chain /\ index[s[k]] = 0
  BY <1>3, <1>7, <1>8, <1>11, <1>12
<1>16. \A b \in Chain : index[b] # 0 \/ b \in SetOf(s)
  BY <1>8, <1>13
<1>17. ASSUME NEW b \in Chain, NEW k \in 1 .. Len(s), index[b] # 0 PROVE Height[b] < Height[s[k]]
  <2>1. b \in Line(dtip) /\ b \in Blocks /\ Height[b] <= Height[dtip] /\ Height[b] \in Nat
    BY <1>10, <1>11, <1>12, <1>17, StoreFacts
  <2> QED BY <1>3, <1>7, <1>10, <2>1
<1>18. InvIndex /\ \A b \in Chain, k \in 1 .. Len(s) : index[b] # 0 => Height[b] < Height[s[k]]
  BY <1>17 DEF Places
<1>19. /\ InvIndex' /\ Full(Merged)' /\ Chain' = Chain
       /\ Len(proofs') = Len(proofs) + Len(s)
       /\ \A k \in 1 .. Len(s) : Merged'[s[k]] = Len(proofs) + k
       /\ \A b \in Blocks : b \notin SetOf(s) => Merged'[b] = index[b]
  BY <1>1, <1>3, <1>9, <1>14, <1>15, <1>16, <1>18, AppendIndex
<1>20. \A b \in Line(dtip) : Merged'[b] = Merged[b]
  BY <1>10, <1>12, <1>19
<1>21. InvHeld'
  <2>1. Line(dtip)' = Line(dtip) /\ JTip' = JTip
    BY <1>1, LogFrame DEF Line
  <2>2. Rising(Line(dtip))'
    BY <1>2, <1>20, <2>1 DEF Places, InvHeld, Rising
  <2>3. \A b \in Blocks : Merged'[b] # 0 => b \in Line(dtip)' \cup Chain'
    BY <1>8, <1>11, <1>19, <2>1
  <2>4. Place(JTip)' = Len(proofs')
    BY <1>5, <1>6, <1>19, <2>1 DEF Place
  <2> QED BY <1>1, <2>2, <2>3, <2>4 DEF InvHeld, FreshSteps
<1>22. InvStored'
  BY <1>1, <1>19 DEF InvStored, FreshSteps
<1>23. InvAsked'
  <2> SUFFICES ASSUME asked # NoRequest, asked.block \in Blocks \ {Root},
                      asked.place = Height[asked.block], NEW c \in Line(asked.block),
                      Merged'[c] # 0
               PROVE  Merged'[c] = Height[c]
    BY <1>1, <1>2 DEF Places, InvAsked, Line
  <2>1. \A d \in Line(asked.block) : Merged[d] # 0 => Merged[d] = Height[d]
    BY DEF Places, InvAsked
  <2>2. c \in Blocks /\ Branch[c] \subseteq Branch[asked.block]
    BY BranchBelow DEF Line
  <2>3. CASE c \notin SetOf(s)
    BY <1>10, <1>19, <2>1, <2>2, <2>3
  <2>4. CASE c \in SetOf(s)
    <3>1. PICK k \in 1 .. Len(s) : c = s[k]
      BY <2>4 DEF SetOf
    <3>2. dtip \in Branch[c]
      <4>1. Branch[s[k]] = Branch[dtip] \cup {s[j] : j \in 1 .. k}
        BY <1>3, RunBranches, ZenonT(30)
      <4> QED BY <1>3, <3>1, <4>1, BranchEnds
    <3>3. Len(proofs) = Place(dtip)
      BY <1>1, <1>2 DEF Places, InvHeld
    <3>4. Place(dtip) = Height[dtip]
      <4>1. CASE dtip = Root
        BY <4>1, HeightDef DEF Place
      <4>2. CASE dtip # Root
        <5>1. dtip \in Line(dtip) /\ dtip \in Line(asked.block)
          BY <1>3, <2>2, <3>2, <4>2, BranchEnds DEF Line
        <5>2. Merged[dtip] # 0
          BY <1>3, <1>10, <1>13, <5>1
        <5> QED BY <2>1, <4>2, <5>1, <5>2 DEF Place
      <4> QED BY <4>1, <4>2
    <3> QED BY <1>7, <1>19, <3>1, <3>3, <3>4
  <2> QED BY <2>3, <2>4
<1>24. InvProofFaults'
  BY <1>1 DEF Places, InvProofFaults
<1> QED BY <1>2, <1>19, <1>21, <1>22, <1>23, <1>24, RepairedWhileUp DEF Places

\* The batch that is stored has the places that were just synced.
LEMMA IndexPlaces ==
    ASSUME Safe, Places, index_set \/ index_flush
    PROVE  Places'
<1> USE DEF store_vars, journal_vars, proof_vars, index_vars, producer_vars, worker_step, env_vars,
            service_vars, Running
<1>1. /\ command.kind = "publish" /\ wpc \in {"append_batch", "index_flush"}
      /\ wpc' \in {"index_flush", "apply"}
      /\ UNCHANGED <<log, floor, proofs, proofs_synced, dtip, asked, committed, pc, command, fault>>
  BY DEF index_set, index_flush
<1>2. Up /\ Up' /\ JTip' = JTip
  BY <1>1, LogFrame DEF Safe, Threads, InvIdle, Up, NoCommand
<1>3. Full(Merged) /\ proofs_synced = Len(proofs) /\ InvIndex
  BY <1>1 DEF Places, InvStored, FreshSteps
<1>4. InvProofFaults'
  BY <1>1 DEF Places, InvProofFaults
<1>5. Len(proofs) = Place(JTip)
  BY <1>1, <1>2 DEF Places, InvHeld
<1>6. JTip \in Blocks /\ JTip # Root => JTip \in Chain
  BY SafeTip, BranchEnds DEF Chain, Line
<1>7. JTip \in Blocks /\ Line(dtip)' = Line(dtip)
  BY <1>1, SafeTip DEF Line
<1>8. CASE index_set
  <2>1. append_batch /\ wpc' = "index_flush" /\ UNCHANGED <<index_disk, indexes>>
    BY <1>8 DEF index_set
  <2>2. InvIndex' /\ Merged' = Merged /\ Chain' = Chain /\ Full(index)' /\ index' = Merged
    BY <1>1, <1>3, <2>1, SetIndex
  <2>3. InvHeld'
    <3>1. Place(JTip)' = Place(JTip)
      BY <1>2, <2>2 DEF Place
    <3>2. /\ \A b \in Blocks : Merged'[b] # 0 => b \in Line(dtip)' \cup Chain'
          /\ Rising(Line(dtip))'
      BY <1>2, <1>7, <2>2 DEF Places, InvHeld, Rising
    <3> QED BY <1>1, <1>5, <2>1, <3>1, <3>2 DEF InvHeld, FreshSteps
  <2>4. InvStored'
    BY <1>1, <1>3, <2>1, <2>2 DEF InvStored, FreshSteps, Full
  <2>5. InvAsked'
    BY <1>1, <1>2, <2>2 DEF Places, InvAsked, Line
  <2> QED BY <1>2, <1>4, <2>2, <2>3, <2>4, <2>5, RepairedWhileUp DEF Places
<1>9. CASE index_flush
  <2>1. index_disk' = index /\ indexes' = NoIndexes /\ wpc = "index_flush" /\ wpc' = "apply" /\ index' = index
    BY <1>9 DEF index_flush
  <2>2. Full(index)
    BY <2>1 DEF Places, InvStored
  <2>3. /\ InvIndex' /\ Merged' = index /\ Chain' = Chain /\ Full(index)' /\ Full(index_disk)'
        /\ \A b \in Chain : Merged[b] = index[b]
    BY <1>1, <1>3, <2>1, <2>2, FlushIndex
  <2>4. \A b \in Blocks : index[b] # 0 => Merged[b] = index[b]
    BY DEF Places, InvIndex
  <2>5. InvHeld'
    <3>1. Place(JTip)' = Place(JTip)
      BY <1>2, <1>6, <1>7, <2>3 DEF Place
    <3>2. \A b \in Blocks : Merged'[b] # 0 => b \in Line(dtip)' \cup Chain'
      BY <1>2, <1>7, <2>3, <2>4 DEF Places, InvHeld
    <3>3. Rising(Line(dtip))'
      BY <1>2, <1>7, <2>3, <2>4, StoreFacts DEF Places, InvHeld, Rising
    <3> QED BY <1>1, <1>5, <2>1, <3>1, <3>2, <3>3 DEF InvHeld, FreshSteps
  <2>6. InvStored'
    BY <2>1, <2>3 DEF InvStored, FreshSteps
  <2>7. InvAsked'
    <3> SUFFICES ASSUME asked # NoRequest, asked.block \in Blocks \ {Root},
                        asked.place = Height[asked.block], NEW c \in Line(asked.block),
                        Merged'[c] # 0
                 PROVE  Merged'[c] = Height[c]
      BY <1>1, <1>2 DEF Places, InvAsked, Line
    <3>1. c \in Blocks
      BY HeightTypes DEF Line
    <3> QED BY <2>3, <2>4, <3>1 DEF Places, InvAsked
  <2> QED BY <1>2, <1>4, <2>3, <2>5, <2>6, <2>7, RepairedWhileUp DEF Places
<1> QED BY <1>8, <1>9

\* The height moves to a block whose entries are all durable.
LEMMA UpdateHeightPlaces ==
    ASSUME Safe, Places, update_height
    PROVE  Places'
<1> USE DEF store_vars, journal_vars, proof_vars, index_vars, producer_vars, worker_step, env_vars,
            service_vars, Running
<1>1. /\ command.kind = "publish" /\ wpc = "update_height" /\ wpc' = "prune"
      /\ dtip' = LastBlock(command.blocks) /\ committed' = Height[dtip']
      /\ UNCHANGED <<log, floor, index, index_disk, indexes, proofs, proofs_synced, asked, pc,
                     command, fault>>
  BY DEF update_height
<1>2. Up /\ Up' /\ Working /\ JTip' = JTip /\ OrphanedBlocks' = OrphanedBlocks
  BY <1>1, LogFrame DEF Safe, Threads, InvIdle, Up, NoCommand, Working
<1>3. JTip = dtip'
  BY <1>1, <1>2 DEF Safe, Forest, InvWorker
<1>4. Branch[dtip'] = Branch[Below] \cup SetOf(command.blocks) /\ dtip = Below
  BY <1>1, <1>2, PublishCommand DEF Safe, Types
<1>5. \A b \in Line(dtip) : b \in Chain
  BY <1>3, <1>4 DEF Line, Chain
<1>6. Chain' = Chain /\ Merged' = Merged
  BY <1>1, <1>2, StoreFrame
<1>7. Line(dtip)' = Chain /\ Place(JTip)' = Place(JTip)
  BY <1>2, <1>3, <1>6 DEF Line, Chain, Place
<1>8. /\ \A b \in Blocks : Merged[b] # 0 => b \in Chain
      /\ indexes = NoIndexes /\ Len(proofs) = Place(JTip)
  BY <1>1, <1>2, <1>5 DEF Places, InvHeld, FreshSteps
<1>9. InvIndex'
  <2>1. \A b \in Blocks : Merged[b] # 0 => b \in Chain \cup OrphanedBlocks'
    BY <1>8
  <2>2. \A b \in Chain : Height[b] <= committed' => index_disk[b] # 0
    BY <1>1 DEF Places, InvStored, Full
  <2>3. InvIndex /\ proofs_synced' \in Nat /\ proofs_synced <= proofs_synced'
    BY <1>1, StoreFacts DEF Places
  <2> QED BY <1>1, <1>2, <2>1, <2>2, <2>3, IndexKept
<1>10. InvHeld'
  <2>1. Rising(Line(dtip))'
    BY <1>6, <1>7 DEF Places, InvIndex, Rising
  <2> QED BY <1>1, <1>6, <1>7, <1>8, <2>1 DEF InvHeld
<1>11. InvStored'
  BY <1>1 DEF InvStored, FreshSteps
<1>12. InvAsked'
  BY <1>1, <1>2, <1>6 DEF Places, InvAsked, Line
<1>13. InvProofFaults'
  BY <1>1 DEF Places, InvProofFaults
<1> QED BY <1>2, <1>9, <1>10, <1>11, <1>12, <1>13, RepairedWhileUp DEF Places

-----------------------------------------------------------------------------
(* Entries and proofs: roll back *)

\* Once its last block is rolled back, the chain's entries are still a prefix.
LEMMA MarkPlaces ==
    ASSUME Safe, Places, mark_rolled_back
    PROVE  Places'
<1> USE DEF store_vars, journal_vars, proof_vars, index_vars, producer_vars, worker_step, env_vars,
            service_vars, Running
<1>1. /\ command.kind = "rollback" /\ wpc = "idle" /\ wpc' = "apply_backward" /\ floor' = floor
      /\ ForwardRecords # {}
      /\ UNCHANGED <<index, index_disk, indexes, proofs, proofs_synced, dtip, asked, committed, pc,
                     command>>
  BY DEF mark_rolled_back
<1>2. Up /\ Up' /\ Working
  BY <1>1 DEF Safe, Threads, InvIdle, Up, NoCommand, Working
<1>3. JTip = dtip
  BY <1>1, <1>2 DEF Safe, Forest, InvWorker
<1>4. dtip = Orphan
  BY <1>1, <1>2, RollbackCommand DEF Safe, Types
<1>5. LogTypes /\ InvLog /\ JTip = log[latest_forward].block /\ JTip \in Blocks \ {Root}
  BY <1>1, SafeTip
<1>6. log' = [log EXCEPT ![latest_forward].status = RolledBack] /\ fault' = fault
  BY <1>3, <1>4, <1>5 DEF mark_rolled_back
<1>7. /\ JTip' = Parent[JTip]
      /\ ForwardBlocks' = ForwardBlocks \ {JTip}
      /\ {log[i].block : i \in Retained \ ForwardRecords}' =
                 {log[i].block : i \in Retained \ ForwardRecords} \cup {JTip}
  BY <1>1, <1>5, <1>6, RollingBack
<1>8. JTip \in OrphanedBlocks'
  BY <1>7 DEF OrphanedBlocks
<1>9. Chain = Chain' \cup {JTip} /\ Line(dtip)' = Chain /\ Line(dtip) = Chain
  BY <1>1, <1>3, <1>5, <1>7, ParentFacts, BranchParent DEF Chain, Line
<1>10. Merged' = Merged /\ indexes = NoIndexes /\ Chain \subseteq Blocks
  BY <1>1, <1>2, StoreFacts DEF Merged, Places, InvHeld, FreshSteps
<1>11. \A b \in Blocks : Merged[b] # 0 => b \in Chain
  BY <1>2, <1>9 DEF Places, InvHeld
<1>12. InvIndex'
  <2>1. /\ Prefix(index_disk)' /\ Prefix(index)' /\ Rising(Chain)'
        /\ \A b \in Chain' : Height[b] <= committed' => index_disk'[b] # 0
    BY <1>1, <1>9, <1>10 DEF Places, InvIndex, Prefix, Rising
  <2>2. \A b \in Blocks : Merged'[b] # 0 => Readable(Merged[b], b)' /\ b \in Chain' \cup OrphanedBlocks'
    BY <1>1, <1>8, <1>9, <1>10, <1>11 DEF Places, InvIndex, Readable
  <2>3. /\ \A b \in Blocks : index_disk'[b] # 0 => index'[b] = index_disk'[b]
        /\ \A b \in Blocks : index'[b] # 0 => Merged'[b] = index'[b] /\ index'[b] <= proofs_synced'
    BY <1>1, <1>10 DEF Places, InvIndex
  <2> QED BY <2>1, <2>2, <2>3 DEF InvIndex
<1>13. InvHeld'
  <2>1. Rising(Line(dtip))'
    BY <1>9, <1>10 DEF Places, InvIndex, Rising
  <2> QED BY <1>1, <1>9, <1>10, <1>11, <2>1 DEF InvHeld
<1>14. InvStored'
  BY <1>1 DEF InvStored, FreshSteps
<1>15. InvAsked'
  BY <1>1, <1>2, <1>10 DEF Places, InvAsked, Line
<1>16. InvProofFaults'
  BY <1>6 DEF Places, InvProofFaults
<1> QED BY <1>2, <1>12, <1>13, <1>14, <1>15, <1>16, RepairedWhileUp DEF Places

\* Where the worker is once the record is marked.
LEMMA Undoing ==
    ASSUME Safe, Up, command.kind = "rollback", wpc \in UndoSteps
    PROVE  /\ Orphan = dtip /\ Orphan \in Blocks \ {Root} /\ JTip = Parent[Orphan]
           /\ Line(dtip) = Chain \cup {Orphan} /\ Orphan \notin Chain
           /\ committed = Height[Orphan] /\ Height[JTip] <= committed
<1>1. Working
  BY DEF Working
<1>2. Orphan = dtip /\ Orphan \in Blocks
  BY RollbackCommand DEF Safe, Types
<1>3. JTip = Parent[Orphan] /\ Orphan # Root /\ committed = Height[dtip]
  BY <1>1 DEF Safe, Forest, InvWorker, InvCommitted
<1>4. Line(dtip) = Chain \cup {Orphan} /\ Orphan \notin Chain
  BY <1>2, <1>3, ParentFacts, BranchParent DEF Chain, Line
<1>5. Height[JTip] <= committed
  BY <1>2, <1>3, ParentFacts, HeightTypes
<1> QED BY <1>2, <1>3, <1>4, <1>5

\* The entry that is removed belongs to no block of the chain.
LEMMA RemoveIndexPlaces ==
    ASSUME Safe, Places, remove_index
    PROVE  Places'
<1> USE DEF store_vars, journal_vars, proof_vars, index_vars, producer_vars, worker_step, env_vars,
            service_vars, Running
<1>1. /\ command.kind = "rollback" /\ wpc = "remove_index" /\ wpc' = "truncate"
      /\ remove_indexes({Orphan})
      /\ UNCHANGED <<log, floor, indexes, proofs, proofs_synced, dtip, asked, committed, pc,
                     command, fault>>
  BY DEF remove_index
<1>2. Up /\ Up'
  BY <1>1 DEF Safe, Threads, InvIdle, Up, NoCommand
<1>3. Orphan \in Blocks /\ Orphan \notin Chain
  BY <1>1, <1>2, Undoing
<1>4. indexes = NoIndexes /\ InvIndex
  BY <1>1, <1>2 DEF Places, InvHeld, FreshSteps
<1>5. \A b \in Chain : b \notin {Orphan}
  BY <1>3
<1>6. /\ InvIndex' /\ Chain' = Chain
      /\ \A b \in Blocks : Merged[b] = index[b] /\ Merged'[b] = index'[b]
      /\ \A b \in Blocks : /\ index'[b] = IF b \in {Orphan} THEN 0 ELSE index[b]
                           /\ index_disk'[b] = IF b \in {Orphan} THEN 0 ELSE index_disk[b]
  BY <1>1, <1>4, <1>5, RemoveIndexes
<1>7. \A b \in Blocks : Merged'[b] # 0 => Merged'[b] = Merged[b]
  BY <1>6
<1>8. Line(dtip)' = Line(dtip) /\ Orphan' = Orphan
  BY <1>1 DEF Line, Orphan
<1>9. InvHeld'
  <2>1. Rising(Line(dtip))'
    BY <1>2, <1>7, <1>8, StoreFacts DEF Places, InvHeld, Rising
  <2>2. \A b \in Blocks : Merged'[b] # 0 => b \in Line(dtip)' \cup Chain'
    BY <1>2, <1>6, <1>7, <1>8 DEF Places, InvHeld
  <2> QED BY <1>1, <1>4, <2>1, <2>2 DEF InvHeld
<1>10. InvStored'
  BY <1>1, <1>3, <1>6, <1>8 DEF InvStored, FreshSteps
<1>11. InvAsked'
  <2> SUFFICES ASSUME asked # NoRequest, asked.block \in Blocks \ {Root},
                      asked.place = Height[asked.block], NEW c \in Line(asked.block),
                      Merged'[c] # 0
               PROVE  Merged'[c] = Height[c]
    BY <1>1, <1>2 DEF Places, InvAsked, Line
  <2>1. c \in Blocks
    BY HeightTypes DEF Line
  <2> QED BY <1>7, <2>1 DEF Places, InvAsked
<1>12. InvProofFaults'
  BY <1>1 DEF Places, InvProofFaults
<1> QED BY <1>2, <1>6, <1>9, <1>10, <1>11, <1>12, RepairedWhileUp DEF Places

\* The cut is above the places of the chain that is left.
LEMMA TruncatePlaces ==
    ASSUME Safe, Places, truncate
    PROVE  Places'
<1> USE DEF store_vars, journal_vars, proof_vars, index_vars, producer_vars, worker_step, env_vars,
            service_vars, Running
<1>1. /\ command.kind = "rollback" /\ wpc = "truncate" /\ wpc' = "rollback_height"
      /\ truncate_after(Parent[Orphan])
      /\ UNCHANGED <<log, floor, index, index_disk, indexes, dtip, asked, committed, pc, command>>
  BY DEF truncate
<1>2. Up /\ Up' /\ JTip' = JTip
  BY <1>1, LogFrame DEF Safe, Threads, InvIdle, Up, NoCommand
<1>3. /\ Orphan \in Blocks /\ JTip = Parent[Orphan] /\ Line(dtip) = Chain \cup {Orphan}
      /\ Height[JTip] <= committed
  BY <1>1, <1>2, Undoing
<1>4. indexes = NoIndexes /\ InvIndex /\ index[Orphan] = 0
  BY <1>1, <1>2 DEF Places, InvHeld, InvStored, FreshSteps
<1>5. \A b \in Blocks : Merged[b] = index[b]
  BY <1>4 DEF Merged, NoIndexes
<1>6. \A b \in Blocks : index[b] # 0 => b \in Chain
  BY <1>2, <1>3, <1>4, <1>5 DEF Places, InvHeld
<1>7. JTip # Root => index[JTip] # 0
  <2> SUFFICES ASSUME JTip # Root PROVE index[JTip] # 0
    OBVIOUS
  <2>1. JTip \in Chain /\ JTip \in Blocks
    BY SafeTip, BranchEnds DEF Chain, Line
  <2>2. index_disk[JTip] # 0
    BY <1>3, <1>4, <2>1 DEF InvIndex
  <2> QED BY <1>4, <2>1, <2>2 DEF InvIndex
<1>8. /\ InvIndex' /\ Chain' = Chain /\ Merged' = Merged /\ fault' = fault
      /\ Len(proofs') = Place(JTip)'
  BY <1>1, <1>3, <1>4, <1>6, <1>7, Truncated
<1>9. InvHeld'
  <2>1. Line(dtip)' = Line(dtip)
    BY <1>1 DEF Line
  <2>2. Rising(Line(dtip))' /\ \A b \in Blocks : Merged'[b] # 0 => b \in Line(dtip)' \cup Chain'
    BY <1>2, <1>8, <2>1 DEF Places, InvHeld, Rising
  <2> QED BY <1>1, <1>4, <1>8, <2>2 DEF InvHeld
<1>10. InvStored'
  BY <1>1, <1>4 DEF InvStored, FreshSteps, Orphan
<1>11. InvAsked'
  BY <1>1, <1>2, <1>8 DEF Places, InvAsked, Line
<1>12. InvProofFaults'
  BY <1>8 DEF Places, InvProofFaults
<1> QED BY <1>2, <1>8, <1>9, <1>10, <1>11, <1>12, RepairedWhileUp DEF Places

\* The height falls back to the parent, whose entries are durable.
LEMMA RollbackHeightPlaces ==
    ASSUME Safe, Places, rollback_height
    PROVE  Places'
<1> USE DEF store_vars, journal_vars, proof_vars, index_vars, producer_vars, worker_step, env_vars,
            service_vars, Running, answer
<1>1. /\ command.kind = "rollback" /\ wpc = "rollback_height" /\ wpc' = "idle"
      /\ dtip' = Parent[Orphan] /\ committed' = Height[dtip']
      /\ UNCHANGED <<log, floor, index, index_disk, indexes, proofs, proofs_synced, asked, pc,
                     fault>>
  BY DEF rollback_height
<1>2. Up /\ Up' /\ JTip' = JTip /\ OrphanedBlocks' = OrphanedBlocks
  BY <1>1, LogFrame DEF Safe, Threads, InvIdle, Up, NoCommand
<1>3. /\ Orphan \in Blocks /\ JTip = Parent[Orphan] /\ Line(dtip) = Chain \cup {Orphan}
      /\ Height[JTip] <= committed
  BY <1>1, <1>2, Undoing
<1>4. /\ indexes = NoIndexes /\ InvIndex /\ index[Orphan] = 0 /\ Len(proofs) = Place(JTip)
  BY <1>1, <1>2 DEF Places, InvHeld, InvStored, FreshSteps
<1>5. \A b \in Blocks : Merged[b] = index[b]
  BY <1>4 DEF Merged, NoIndexes
<1>6. \A b \in Blocks : Merged[b] # 0 => b \in Chain
  BY <1>2, <1>3, <1>4, <1>5 DEF Places, InvHeld
<1>7. Chain' = Chain /\ Merged' = Merged
  BY <1>1, <1>2, StoreFrame
<1>8. Line(dtip)' = Chain /\ Place(JTip)' = Place(JTip)
  BY <1>1, <1>2, <1>3, <1>7 DEF Line, Chain, Place
<1>9. InvIndex'
  <2>1. committed' <= committed /\ committed' \in Nat /\ committed \in Nat
    BY <1>1, <1>3, StoreFacts
  <2>2. \A b \in Chain : Height[b] <= committed' => index_disk[b] # 0
    <3> SUFFICES ASSUME NEW b \in Chain, Height[b] <= committed' PROVE index_disk[b] # 0
      OBVIOUS
    <3>1. b \in Blocks /\ Height[b] \in Nat
      BY StoreFacts
    <3>2. Height[b] <= committed
      BY <2>1, <3>1
    <3> QED BY <1>4, <3>2 DEF InvIndex
  <2>3. proofs_synced' \in Nat /\ proofs_synced <= proofs_synced'
    BY <1>1, StoreFacts
  <2> QED BY <1>1, <1>2, <1>4, <1>6, <2>2, <2>3, IndexKept
<1>10. InvHeld'
  <2>1. Rising(Line(dtip))'
    BY <1>4, <1>7, <1>8 DEF InvIndex, Rising
  <2> QED BY <1>1, <1>4, <1>6, <1>7, <1>8, <2>1 DEF InvHeld
<1>11. InvStored'
  BY <1>1 DEF InvStored, FreshSteps
<1>12. InvAsked'
  BY <1>1, <1>2, <1>7 DEF Places, InvAsked, Line
<1>13. InvProofFaults'
  BY <1>1 DEF Places, InvProofFaults
<1> QED BY <1>2, <1>9, <1>10, <1>11, <1>12, <1>13, RepairedWhileUp DEF Places

-----------------------------------------------------------------------------
(* Entries and proofs: recovery *)

\* A step of the recovery after which nothing is asked and no thread runs.
LEMMA PlacesDown ==
    ASSUME Safe', InvIndex', InvRepaired', InvProofFaults', ~Up', asked' = NoRequest
    PROVE  Places'
<1>1. InvAsked'
  BY DEF InvAsked
<1> QED BY <1>1, StoredWhileDown DEF Places

\* Steps of the recovery that write neither index nor proof file.
LEMMA RecoveryElsewhere ==
    ASSUME Safe, Safe', Places, open \/ repair_sync \/ replay_journal \/ replay_sync \/ cleanup_sync
    PROVE  Places'
<1> USE DEF store_vars, journal_vars, proof_vars, index_vars, env_vars, service_vars, recovery_step
<1>1. /\ UNCHANGED <<log, floor, index, index_disk, indexes, proofs, committed, asked>>
      /\ <<pc, pc'>> \in {<<"down", "repair">>, <<"repair_sync", "repair_index">>,
                          <<"replay", "replay_sync">>, <<"replay", "cleanup">>,
                          <<"replay_sync", "cleanup">>, <<"cleanup_sync", "recover_tip">>}
      /\ fault' = fault \/ fault' = "replay"
      /\ proofs_synced' = IF pc = "repair_sync" THEN Len(proofs) ELSE proofs_synced
  BY DEF open, repair_sync, replay_journal, replay_sync, cleanup_sync, bail
<1>2. ~Up /\ ~Up'
  BY <1>1 DEF Up, RecoverySteps
<1>3. JTip' = JTip /\ OrphanedBlocks' = OrphanedBlocks
  BY <1>1, LogFrame
<1>4. Chain' = Chain /\ Merged' = Merged
  BY <1>1, <1>3, StoreFrame
<1>5. InvIndex'
  <2>1. proofs_synced' \in Nat /\ proofs_synced <= proofs_synced' /\ InvIndex
    BY <1>1, StoreFacts DEF Places
  <2>2. /\ \A b \in Blocks : Merged[b] # 0 => b \in Chain \cup OrphanedBlocks'
        /\ \A b \in Chain : Height[b] <= committed' => index_disk[b] # 0
    BY <1>1, <1>3, <2>1 DEF InvIndex
  <2> QED BY <1>1, <1>3, <2>1, <2>2, IndexKept
<1>6. InvRepaired'
  <2>1. InvRepaired
    BY DEF Places
  <2>2. /\ pc' \in {"down", "repair"} \cup ReplaySteps => indexes' = NoIndexes
        /\ pc' \in {"repair_sync", "repair_index", "repair_flush"} => Full(Merged)'
        /\ pc' \in {"repair_index", "repair_flush"} => proofs_synced' = Len(proofs')
    BY <1>1, <1>4, <2>1 DEF InvRepaired, ReplaySteps, Full
  <2>3. /\ pc' \in {"repair_flush"} \cup ReplaySteps => Full(index)'
        /\ pc' \in ReplaySteps => Full(index_disk)'
    BY <1>1, <1>4, <2>1 DEF InvRepaired, ReplaySteps, Full
  <2>4. pc' \in {"cleanup_sync", "recover_tip", "recover_height"} =>
          \A b \in Blocks : index'[b] # 0 => b \in Chain'
    BY <1>1, <1>4, <2>1 DEF InvRepaired
  <2>5. pc' # "recover_height"
    BY <1>1
  <2> QED BY <2>2, <2>3, <2>4, <2>5 DEF InvRepaired
<1>7. InvProofFaults'
  BY <1>1 DEF Places, InvProofFaults
<1>8. asked' = NoRequest
  BY <1>1, <1>2 DEF Places, InvAsked
<1> QED BY <1>2, <1>5, <1>6, <1>7, <1>8, PlacesDown

\* What the repair appends: the records whose blocks have no entry, which are
\* the last ones, in their order.
LEMMA RepairedRecords ==
    ASSUME Safe, InvIndex, InvDescends, indexes = NoIndexes
    PROVE  LET t == InOrder(Repairs) IN
           /\ t \in Seq(Blocks)
           /\ \A i, j \in 1 .. Len(t) : i < j => Height[t[i]] < Height[t[j]]
           /\ \A k \in 1 .. Len(t) : t[k] \in Chain /\ index[t[k]] = 0
           /\ \A b \in Chain : index[b] # 0 \/ b \in SetOf(t)
           /\ \A b \in Chain, k \in 1 .. Len(t) : index[b] # 0 => Height[b] < Height[t[k]]
<1> DEFINE t == InOrder(Repairs)
<1>1. LogTypes /\ InvLog /\ TipOK /\ Repairs \in SUBSET ForwardRecords
  BY SafeTip DEF Repairs
<1>2. /\ index \in [Blocks -> Nat] /\ Chain \subseteq Blocks \ {Root}
      /\ \A b \in Blocks : Height[b] \in Nat
  BY StoreFacts
<1>3. \A i \in ForwardRecords : log[i].block \in Chain /\ log[i].block \in Blocks /\ i \in Nat
  BY <1>1, RetainedFacts, OrphansApart DEF ForwardBlocks
<1>4. \A i \in ForwardRecords : i \in InvalidProofs <=> index[log[i].block] = 0
  <2> SUFFICES ASSUME NEW i \in ForwardRecords
               PROVE  Readable(index[log[i].block], log[i].block) <=> index[log[i].block] # 0
    BY DEF InvalidProofs
  <2>1. log[i].block \in Blocks
    BY <1>3
  <2>2. Merged[log[i].block] = index[log[i].block]
    BY <2>1 DEF Merged, NoIndexes
  <2>3. index[log[i].block] # 0 => Readable(index[log[i].block], log[i].block)
    BY <2>1, <2>2 DEF InvIndex
  <2>4. Readable(index[log[i].block], log[i].block) => index[log[i].block] # 0
    BY StoreFacts DEF Readable
  <2> QED BY <2>3, <2>4
<1>5. \A i \in Repairs : i \in ForwardRecords /\ index[log[i].block] = 0
  <2> SUFFICES ASSUME NEW i \in Repairs PROVE i \in ForwardRecords /\ index[log[i].block] = 0
    OBVIOUS
  <2>1. PICK j \in InvalidProofs : j <= i
    BY DEF Repairs
  <2>2. i \in ForwardRecords /\ j \in ForwardRecords
    BY DEF Repairs, InvalidProofs
  <2>3. index[log[j].block] = 0
    BY <1>4, <2>2
  <2>4. Height[log[j].block] <= Height[log[i].block]
    <3>1. CASE j = i
      BY <1>2, <1>3, <2>2, <3>1
    <3>2. CASE j # i
      <4>1. j < i
        BY <1>3, <2>1, <2>2, <3>2
      <4>2. Height[log[j].block] < Height[log[i].block]
        BY <1>1, <2>2, <4>1 DEF InvLog
      <4> QED BY <1>2, <1>3, <2>2, <4>2
    <3> QED BY <3>1, <3>2
  <2> QED BY <1>3, <2>2, <2>3, <2>4 DEF InvIndex, Prefix
<1>6. /\ t \in Seq(Blocks) /\ Len(t) = Cardinality(Repairs)
      /\ Cardinality(Repairs) \in Nat
      /\ \A n \in 1 .. Cardinality(Repairs) :
            \E i \in Repairs : Rank(Repairs, i) = n /\ t[n] = log[i].block
      /\ \A i \in Repairs : Rank(Repairs, i) \in 1 .. Cardinality(Repairs) /\ t[Rank(Repairs, i)] = log[i].block
      /\ \A i, k \in Repairs : i < k => Rank(Repairs, i) < Rank(Repairs, k)
  BY <1>1, Ordered
<1> HIDE DEF t
<1>7. \A n \in 1 .. Len(t) :
            \E i \in Repairs : Rank(Repairs, i) = n /\ t[n] = log[i].block
  BY <1>6
<1>8. ASSUME NEW m \in 1 .. Len(t), NEW n \in 1 .. Len(t), m < n
      PROVE  Height[t[m]] < Height[t[n]]
  <2>1. PICK i \in Repairs : Rank(Repairs, i) = m /\ t[m] = log[i].block
    BY <1>7
  <2>2. PICK k \in Repairs : Rank(Repairs, k) = n /\ t[n] = log[k].block
    BY <1>7
  <2>3. i \in Nat /\ k \in Nat /\ i # k /\ ~(k < i)
    <3>1. i \in Nat /\ k \in Nat
      BY <1>3, <1>5
    <3>2. m \in Nat /\ n \in Nat /\ m # n /\ ~(n < m)
      BY <1>6, <1>8
    <3>3. k < i => n < m
      BY <1>6, <2>1, <2>2
    <3> QED BY <2>1, <2>2, <3>1, <3>2, <3>3
  <2>4. i < k
    BY <2>3
  <2> QED BY <1>1, <1>5, <2>1, <2>2, <2>4 DEF InvLog
<1>9. ASSUME NEW k \in 1 .. Len(t) PROVE t[k] \in Chain /\ index[t[k]] = 0
  <2>1. PICK i \in Repairs : Rank(Repairs, i) = k /\ t[k] = log[i].block
    BY <1>7
  <2> QED BY <1>3, <1>5, <2>1
<1>10. ASSUME NEW b \in Chain, index[b] = 0 PROVE b \in SetOf(t)
  <2>1. b \in ForwardBlocks \/ (Retained # {} /\ b \in Branch[Base])
    BY OrphansApart
  <2>2. CASE Retained # {} /\ b \in Branch[Base]
    <3>1. Base \in Blocks /\ Height[Base] <= committed /\ b \in Blocks
      BY <1>1, <1>2, <2>2 DEF Safe, Forest, InvForest
    <3>2. Height[b] <= Height[Base]
      BY <2>2, <3>1, BranchBelow
    <3>3. Height[b] <= committed
      <4>1. Height[b] \in Nat /\ Height[Base] \in Nat /\ committed \in Nat
        BY <1>2, <3>1, StoreFacts
      <4> QED BY <3>1, <3>2, <4>1
    <3>4. index_disk[b] # 0
      BY <3>3 DEF InvIndex
    <3> QED BY <1>10, <3>1, <3>4 DEF InvIndex
  <2>3. CASE b \in ForwardBlocks
    <3>1. PICK i \in ForwardRecords : b = log[i].block
      BY <2>3 DEF ForwardBlocks
    <3>2. i \in InvalidProofs /\ i <= i
      BY <1>3, <1>4, <1>10, <3>1
    <3>3. i \in Repairs
      BY <3>1, <3>2 DEF Repairs
    <3> QED BY <1>6, <3>1, <3>3 DEF SetOf
  <2> QED BY <2>1, <2>2, <2>3
<1>11. ASSUME NEW b \in Chain, NEW k \in 1 .. Len(t), index[b] # 0 PROVE Height[b] < Height[t[k]]
  <2>1. t[k] \in Chain /\ index[t[k]] = 0
    BY <1>9
  <2>2. ~(Height[t[k]] <= Height[b])
    BY <1>11, <2>1 DEF InvIndex, Prefix
  <2>3. Height[b] \in Nat /\ Height[t[k]] \in Nat
    BY <1>2, <2>1
  <2> QED BY <2>2, <2>3
<1> QED BY <1>6, <1>8, <1>9, <1>10, <1>11 DEF t

\* Repair appends again every proof from the first that is missing.
LEMMA RepairPlaces ==
    ASSUME Safe, Safe', InvDescends, Places, repair
    PROVE  Places'
<1> USE DEF store_vars, journal_vars, proof_vars, index_vars, env_vars, service_vars, recovery_step
<1> DEFINE t == InOrder(Repairs)
<1>1. /\ pc = "repair" /\ pc' = "repair_sync" /\ append_proofs(t)
      /\ UNCHANGED <<log, floor, index, index_disk, proofs_synced, committed, asked, fault>>
  BY DEF repair
<1>2. ~Up /\ ~Up' /\ indexes = NoIndexes /\ InvIndex
  BY <1>1 DEF Up, RecoverySteps, Places, InvRepaired
<1>3. /\ t \in Seq(Blocks)
      /\ \A i, j \in 1 .. Len(t) : i < j => Height[t[i]] < Height[t[j]]
      /\ \A k \in 1 .. Len(t) : t[k] \in Chain /\ index[t[k]] = 0
      /\ \A b \in Chain : index[b] # 0 \/ b \in SetOf(t)
      /\ \A b \in Chain, k \in 1 .. Len(t) : index[b] # 0 => Height[b] < Height[t[k]]
  BY <1>2, RepairedRecords
<1> HIDE DEF t
<1>4. InvIndex' /\ Full(Merged)'
  BY <1>1, <1>2, <1>3, AppendIndex
<1>5. InvRepaired'
  BY <1>1, <1>4 DEF InvRepaired, ReplaySteps
<1>6. InvProofFaults' /\ asked' = NoRequest
  BY <1>1, <1>2 DEF Places, InvProofFaults, InvAsked
<1> QED BY <1>2, <1>4, <1>5, <1>6, PlacesDown

\* The index of the repaired proofs is stored after them.
LEMMA RepairIndexPlaces ==
    ASSUME Safe, Safe', Places, repair_index \/ check_gaps
    PROVE  Places'
<1> USE DEF store_vars, journal_vars, proof_vars, index_vars, env_vars, service_vars, recovery_step
<1>1. /\ pc \in {"repair_index", "repair_flush"} /\ pc' \in {"repair_flush", "replay"}
      /\ UNCHANGED <<log, floor, proofs, proofs_synced, committed, asked>>
      /\ fault' = fault \/ fault' = "gap"
  BY DEF repair_index, check_gaps, bail
<1>2. ~Up /\ ~Up' /\ Full(Merged) /\ proofs_synced = Len(proofs) /\ InvIndex
  BY <1>1 DEF Up, RecoverySteps, Places, InvRepaired
<1>3. InvProofFaults' /\ asked' = NoRequest
  BY <1>1, <1>2 DEF Places, InvProofFaults, InvAsked
<1>4. CASE repair_index
  <2>1. append_batch /\ pc' = "repair_flush" /\ UNCHANGED <<index_disk, indexes>>
    BY <1>4 DEF repair_index
  <2>2. InvIndex' /\ Merged' = Merged /\ Chain' = Chain /\ Full(index)'
    BY <1>1, <1>2, <2>1, SetIndex
  <2>3. InvRepaired'
    BY <1>1, <1>2, <2>1, <2>2 DEF InvRepaired, ReplaySteps, Full
  <2> QED BY <1>2, <1>3, <2>2, <2>3, PlacesDown
<1>5. CASE check_gaps
  <2>1. /\ index_disk' = index /\ indexes' = NoIndexes /\ pc = "repair_flush" /\ pc' = "replay"
        /\ index' = index
    BY <1>5 DEF check_gaps
  <2>2. Full(index)
    BY <2>1 DEF Places, InvRepaired
  <2>3. InvIndex' /\ Full(index)' /\ Full(index_disk)'
    BY <1>1, <1>2, <2>1, <2>2, FlushIndex
  <2>4. InvRepaired'
    BY <2>1, <2>3 DEF InvRepaired, ReplaySteps
  <2> QED BY <1>2, <1>3, <2>3, <2>4, PlacesDown
<1> QED BY <1>4, <1>5

\* Clean-up removes entries of orphans only.
LEMMA CleanupPlaces ==
    ASSUME Safe, Safe', InvDescends, Places, cleanup
    PROVE  Places'
<1> USE DEF store_vars, journal_vars, proof_vars, index_vars, env_vars, service_vars, recovery_step
<1>1. /\ pc = "cleanup" /\ pc' = "cleanup_sync" /\ remove_indexes(OrphanedBlocks)
      /\ UNCHANGED <<log, floor, indexes, proofs, proofs_synced, committed, asked, fault>>
  BY DEF cleanup
<1>2. /\ ~Up /\ ~Up' /\ indexes = NoIndexes /\ InvIndex
      /\ Full(index) /\ Full(index_disk)
  BY <1>1 DEF Up, RecoverySteps, Places, InvRepaired, ReplaySteps
<1>3. \A b \in Chain : b \notin OrphanedBlocks /\ b \in Blocks
  BY OrphansApart, StoreFacts
<1>4. /\ InvIndex' /\ Chain' = Chain
      /\ \A b \in Blocks : Merged[b] = index[b] /\ Merged'[b] = index'[b]
      /\ \A b \in Blocks : /\ index'[b] = IF b \in OrphanedBlocks THEN 0 ELSE index[b]
                           /\ index_disk'[b] = IF b \in OrphanedBlocks THEN 0 ELSE index_disk[b]
  BY <1>1, <1>2, <1>3, RemoveIndexes
<1>5. Full(index)' /\ Full(index_disk)'
  BY <1>2, <1>3, <1>4 DEF Full
<1>6. \A b \in Blocks : index'[b] # 0 => b \in Chain'
  BY <1>2, <1>4 DEF InvIndex
<1>7. InvRepaired'
  BY <1>1, <1>2, <1>5, <1>6 DEF InvRepaired
<1>8. InvProofFaults' /\ asked' = NoRequest
  BY <1>1, <1>2 DEF Places, InvProofFaults, InvAsked
<1> QED BY <1>2, <1>4, <1>7, <1>8, PlacesDown

\* The cut at the recovered tip keeps every proof of the chain.
LEMMA RecoverTipPlaces ==
    ASSUME Safe, Safe', Places, recover_tip
    PROVE  Places'
<1> USE DEF store_vars, journal_vars, proof_vars, index_vars, env_vars, service_vars, recovery_step
<1>1. /\ pc = "recover_tip" /\ pc' = "recover_height"
      /\ UNCHANGED <<log, floor, index, index_disk, indexes, committed, asked>>
  BY DEF recover_tip
<1>2. /\ ~Up /\ ~Up' /\ indexes = NoIndexes /\ InvIndex
      /\ Full(index) /\ Full(index_disk) /\ \A b \in Blocks : index[b] # 0 => b \in Chain
  BY <1>1 DEF Up, RecoverySteps, Places, InvRepaired, ReplaySteps
<1>3. JournalTip = JTip /\ JTip \in Blocks /\ forest_tip = JTip
  BY <1>1, SafeTip DEF Safe, Forest, InvReplayed
<1>4. JTip # Root => index[JTip] # 0 /\ Readable(index[JTip], JTip)
  <2> SUFFICES ASSUME JTip # Root PROVE index[JTip] # 0 /\ Readable(index[JTip], JTip)
    OBVIOUS
  <2>1. JTip \in Chain
    BY <1>3, BranchEnds DEF Chain, Line
  <2>2. index[JTip] # 0
    BY <1>2, <2>1 DEF Full
  <2>3. Merged[JTip] = index[JTip]
    BY <1>2, <1>3 DEF Merged, NoIndexes
  <2> QED BY <1>2, <1>3, <2>2, <2>3 DEF InvIndex
<1>5. truncate_after(JTip)
  BY <1>3, <1>4 DEF recover_tip
<1>6. /\ InvIndex' /\ Chain' = Chain /\ fault' = fault /\ Len(proofs') = Place(JTip)'
  BY <1>1, <1>2, <1>4, <1>5, Truncated
<1>7. InvRepaired'
  BY <1>1, <1>2, <1>6 DEF InvRepaired, ReplaySteps, Full
<1>8. InvProofFaults' /\ asked' = NoRequest
  BY <1>1, <1>2, <1>6 DEF Places, InvProofFaults, InvAsked
<1> QED BY <1>2, <1>6, <1>7, <1>8, PlacesDown

\* The recovered height is the one of the journal's tip.
LEMMA RecoverHeightPlaces ==
    ASSUME Safe, Places, recover_height
    PROVE  Places'
<1> USE DEF store_vars, journal_vars, proof_vars, index_vars, env_vars, service_vars, recovery_step
<1>1. /\ pc = "recover_height" /\ pc' = "idle" /\ committed' = Height[tip]
      /\ UNCHANGED <<log, floor, index, index_disk, indexes, proofs, proofs_synced, asked, fault,
                     dtip, wpc, command>>
  BY DEF recover_height
<1>2. /\ ~Up /\ Up' /\ indexes = NoIndexes /\ InvIndex /\ Full(index_disk)
      /\ \A b \in Blocks : index[b] # 0 => b \in Chain
      /\ Len(proofs) = Place(JTip)
  BY <1>1 DEF Up, RecoverySteps, Places, InvRepaired, ReplaySteps
<1>3. tip = JTip /\ dtip = JTip /\ wpc = "idle" /\ command = NoCommand /\ asked = NoRequest
  BY <1>1, <1>2 DEF Safe, Forest, InvReplayed, Threads, InvIdle, Places, InvAsked
<1>4. JTip' = JTip /\ OrphanedBlocks' = OrphanedBlocks
  BY <1>1, LogFrame
<1>5. Chain' = Chain /\ Merged' = Merged
  BY <1>1, <1>4, StoreFrame
<1>6. \A b \in Blocks : Merged[b] # 0 => b \in Chain
  BY <1>2 DEF Merged, NoIndexes
<1>7. InvIndex'
  <2>1. \A b \in Chain : Height[b] <= committed' => index_disk[b] # 0
    BY <1>2 DEF Full
  <2>2. proofs_synced' \in Nat /\ proofs_synced <= proofs_synced'
    BY <1>1, StoreFacts
  <2> QED BY <1>1, <1>2, <1>4, <1>6, <2>1, <2>2, IndexKept
<1>8. InvHeld'
  <2>1. Line(dtip)' = Chain /\ Place(JTip)' = Place(JTip)
    BY <1>1, <1>3, <1>4, <1>5 DEF Line, Chain, Place
  <2>2. Rising(Line(dtip))'
    BY <1>2, <1>5, <2>1 DEF InvIndex, Rising
  <2> QED BY <1>1, <1>2, <1>3, <1>5, <1>6, <2>1, <2>2 DEF InvHeld
<1>9. InvStored' /\ InvAsked' /\ InvProofFaults'
  BY <1>1, <1>2, <1>3 DEF InvStored, FreshSteps, InvAsked, Places, InvProofFaults
<1> QED BY <1>2, <1>7, <1>8, <1>9, RepairedWhileUp DEF Places

\* Every step of the recovery keeps entries and proofs.
LEMMA RecoveryPlaces ==
    ASSUME Safe, Safe', InvDescends, Places, Recovery
    PROVE  Places'
  BY RecoveryElsewhere, RepairPlaces, RepairIndexPlaces, CleanupPlaces, RecoverTipPlaces,
     RecoverHeightPlaces DEF Recovery

-----------------------------------------------------------------------------
(* Entries and proofs: the environment *)

\* Core, the signal handler and peers, other than a request for a proof.
LEMMA OutsidePlaces ==
    ASSUME Safe, Places,
           \/ \E t \in Blocks : reorganize(t)
           \/ set_shutdown \/ peer_put \/ grow_heights \/ get_proof
           \/ \E b \in Blocks : peer_fetch(b)
           \/ UNCHANGED vars
    PROVE  Places'
<1> USE DEF store_vars, journal_vars, proof_vars, index_vars, producer_vars, worker_vars, core_vars,
            service_vars
<1>1. /\ UNCHANGED <<log, floor, index, index_disk, indexes, proofs, proofs_synced, committed,
                     dtip, wpc, command, pc, fault>>
      /\ asked' = asked \/ asked' = NoRequest
  BY DEF reorganize, set_shutdown, peer_put, grow_heights, get_proof, peer_fetch, vars
<1>2. InvProofFaults' /\ (Up' <=> Up)
  BY <1>1 DEF Places, InvProofFaults, Up
<1>3. CASE Up
  BY <1>1, <1>2, <1>3, KeptAnyway, PlacesKept
<1>4. CASE ~Up
  <2>1. JTip' = JTip /\ OrphanedBlocks' = OrphanedBlocks
    BY <1>1, LogFrame
  <2>2. Chain' = Chain /\ Merged' = Merged
    BY <1>1, <2>1, StoreFrame
  <2>3. InvIndex'
    <3>1. /\ \A b \in Blocks : Merged[b] # 0 => b \in Chain \cup OrphanedBlocks'
          /\ \A b \in Chain : Height[b] <= committed' => index_disk[b] # 0
          /\ proofs_synced' \in Nat /\ proofs_synced <= proofs_synced' /\ InvIndex
      BY <1>1, <2>1, StoreFacts DEF Places, InvIndex
    <3> QED BY <1>1, <2>1, <3>1, IndexKept
  <2>4. wpc' = "idle"
    BY <1>1, <1>4 DEF Safe, Threads, InvIdle
  <2>5. InvHeld' /\ InvStored'
    BY <1>2, <1>4, <2>4 DEF InvHeld, InvStored, FreshSteps
  <2>6. InvAsked'
    BY <1>1, <1>4 DEF Places, InvAsked
  <2>7. InvRepaired'
    <3>1. Place(JTip)' = Place(JTip)
      BY <2>1, <2>2 DEF Place
    <3>2. InvRepaired
      BY DEF Places
    <3>3. /\ pc' \in {"down", "repair"} \cup ReplaySteps => indexes' = NoIndexes
          /\ pc' \in {"repair_sync", "repair_index", "repair_flush"} => Full(Merged)'
          /\ pc' \in {"repair_index", "repair_flush"} => proofs_synced' = Len(proofs')
      BY <1>1, <2>2, <3>2 DEF InvRepaired, Full
    <3>4. /\ pc' \in {"repair_flush"} \cup ReplaySteps => Full(index)'
          /\ pc' \in ReplaySteps => Full(index_disk)'
          /\ pc' \in {"cleanup_sync", "recover_tip", "recover_height"} =>
                \A b \in Blocks : index'[b] # 0 => b \in Chain'
      BY <1>1, <2>2, <3>2 DEF InvRepaired, Full
    <3>5. pc' = "recover_height" => Len(proofs') = Place(JTip)'
      BY <1>1, <3>1, <3>2 DEF InvRepaired
    <3> QED BY <3>3, <3>4, <3>5 DEF InvRepaired
  <2> QED BY <1>2, <2>3, <2>5, <2>6, <2>7 DEF Places
<1> QED BY <1>3, <1>4

\* The worker's tip is on the journal's chain or one block above it, whatever
\* command the worker failed at.
InvBeside == Up => dtip \in Branch[JTip] \/ (dtip # Root /\ JTip = Parent[dtip])

\* While the worker is alive, the worker's step says where its tip is.
LEMMA WorkingBeside ==
    ASSUME Safe, WorkerAlive
    PROVE  InvBeside
<1> SUFFICES ASSUME Up PROVE dtip \in Branch[JTip] \/ (dtip # Root /\ JTip = Parent[dtip])
  BY DEF InvBeside
<1>1. Working /\ dtip \in Blocks /\ dtip \in Branch[dtip]
  BY BranchEnds, StoreFacts DEF Working, WorkerAlive
<1>2. CASE command.kind = "publish" /\ wpc \in StoreSteps
  <2>1. JTip = LastBlock(command.blocks)
    BY <1>1, <1>2 DEF Safe, Forest, InvWorker
  <2>2. Branch[LastBlock(command.blocks)] = Branch[Below] \cup SetOf(command.blocks) /\ dtip = Below
    BY <1>1, <1>2, PublishCommand DEF Safe, Types, Working
  <2> QED BY <1>1, <2>1, <2>2
<1>3. CASE command.kind = "rollback" /\ wpc # "idle"
  <2>1. JTip = Parent[Orphan] /\ Orphan # Root
    BY <1>1, <1>3 DEF Safe, Forest, InvWorker
  <2>2. dtip = Orphan
    BY <1>1, <1>3, RollbackCommand DEF Safe, Types, Working
  <2> QED BY <2>1, <2>2
<1>4. CASE ~(command.kind = "publish" /\ wpc \in StoreSteps) /\ ~(command.kind = "rollback" /\ wpc # "idle")
  <2>1. JTip = dtip
    BY <1>1, <1>4 DEF Safe, Forest, InvWorker
  <2> QED BY <1>1, <2>1
<1> QED BY <1>2, <1>3, <1>4

\* Every step keeps the worker's tip on the chain, or one block beside it.
LEMMA NextBeside ==
    ASSUME Safe, Safe', InvBeside, [Next]_vars
    PROVE  InvBeside'
<1>1. CASE wpc' # "failed"
  <2>1. WorkerAlive'
    BY <1>1 DEF WorkerAlive
  <2> QED BY <2>1, WorkingBeside, PTL
<1>2. CASE wpc' = "failed" /\ Up'
  <2> USE DEF store_vars, journal_vars, producer_vars, worker_vars, env_vars, core_vars, worker_step,
              recovery_step, answer, Running, process_ends
  <2>1. Up /\ UNCHANGED <<log, floor, dtip>>
    <3>1. wpc = "failed" => Up
      BY DEF Safe, Threads, InvIdle
    <3>2. CASE Producer \/ rpc_error \/ lookup_error
      <4>1. ~exit
        BY <1>2 DEF exit
      <4> QED BY <3>2, <4>1, ProducerSteady DEF store_frame
    <3>3. CASE Worker \/ worker_fail
      <4>1. UNCHANGED <<log, floor, dtip, pc>>
        BY <1>2, <3>3 DEF Worker, worker_fail, persist, publish, append, proof_sync, put,
           header_sync, index_set, index_flush, apply_forward_batch, forest_sync, update_height,
           complete, discard_unpublished, sync_barrier, mark_rolled_back, reorg_too_deep,
           apply_backward, backward_sync, remove_header, remove_header_sync, remove_index, truncate,
           rollback_height, header_unavailable
      <4> QED BY <1>2, <4>1 DEF Up
    <3>4. CASE Recovery
      <4>1. wpc' = wpc /\ pc \in RecoverySteps
        BY <3>4 DEF Recovery, open, repair, repair_sync, repair_index, check_gaps, replay_journal,
           replay_sync, cleanup, cleanup_sync, recover_tip, recover_height, RecoverySteps
      <4> QED BY <1>2, <3>1, <4>1 DEF Up
    <3>5. CASE Environment
      <4>1. CASE kill \/ power_loss
        BY <1>2, <4>1 DEF kill, power_loss
      <4>2. CASE ~(kill \/ power_loss \/ worker_fail \/ rpc_error \/ lookup_error)
        <5>1. UNCHANGED <<log, floor, dtip, pc>>
          BY <3>5, <4>2 DEF Environment, reorganize, set_shutdown, lose, peer_fetch, get_index,
             peer_put, grow_heights, get_proof
        <5> QED BY <1>2, <5>1 DEF Up
      <4> QED BY <3>2, <3>3, <4>1, <4>2
    <3>6. CASE UNCHANGED vars
      BY <1>2, <3>6 DEF vars, Up
    <3> QED BY <3>2, <3>3, <3>4, <3>5, <3>6 DEF Next
  <2>2. JTip' = JTip
    BY <2>1, LogFrame
  <2> QED BY <2>1, <2>2 DEF InvBeside
<1> QED BY <1>1, <1>2 DEF InvBeside

\* On a branch in which proofs are in order and every block up to b has one, a
\* block whose place is its height has only such blocks below it.
LEMMA PlacesBelow ==
    ASSUME NEW f \in [Blocks -> Nat], NEW b \in Blocks \ {Root}, f[b] = Height[b],
           \A c \in Line(b) : f[c] # 0,
           \A c, d \in Line(b) : Height[c] < Height[d] => f[c] < f[d]
    PROVE  \A c \in Line(b) : f[c] = Height[c]
<1> DEFINE Bad == {Height[c] : c \in {d \in Line(b) : f[d] < Height[d]}}
           Worse == {Height[b] - Height[c] : c \in {d \in Line(b) : f[d] > Height[d]}}
<1>1. \A c \in Line(b) : c \in Blocks \ {Root} /\ Height[c] \in Nat /\ f[c] \in Nat /\ Height[c] <= Height[b]
  BY BranchBelow, HeightTypes DEF Line
<1>2. Height[b] \in Nat /\ b \in Line(b)
  BY HeightTypes, BranchEnds DEF Line
<1>3. ASSUME NEW c \in Line(b), c # b
      PROVE  \E d \in Line(b) : Height[d] = Height[c] + 1
  <2>1. Height[c] # Height[b]
    BY <1>3, BranchBelow DEF Line
  <2>2. Height[c] + 1 <= Height[b] /\ Height[c] + 1 \in Nat
    BY <1>1, <1>2, <2>1
  <2>3. PICK d \in Branch[b] : Height[d] = Height[c] + 1
    BY <2>2, BranchFull
  <2>4. d # Root
    BY <1>1, <2>3, HeightDef
  <2> QED BY <2>3, <2>4 DEF Line
<1>4. Bad = {}
  <2> SUFFICES ASSUME Bad # {} PROVE FALSE
    OBVIOUS
  <2>1. Bad \in SUBSET Nat
    BY <1>1
  <2>2. PICK x \in Bad : \A y \in Bad : x <= y
    BY <2>1, LeastNumber
  <2>3. PICK c \in Line(b) : x = Height[c] /\ f[c] < Height[c]
    OBVIOUS
  <2>4. CASE Height[c] = 1
    BY <1>1, <2>3, <2>4
  <2>5. CASE Height[c] # 1
    <3>1. c \in Blocks \ {Root} /\ Parent[c] \in Blocks /\ Height[c] = Height[Parent[c]] + 1
      BY <1>1, ParentFacts
    <3>2. Parent[c] \in Branch[b] /\ Parent[c] # Root
      <4>1. Branch[c] \subseteq Branch[b] /\ Branch[c] = Branch[Parent[c]] \cup {c}
        BY <3>1, BranchBelow, ParentFacts DEF Line
      <4> QED BY <2>5, <3>1, <4>1, BranchEnds, HeightDef
    <3>3. Parent[c] \in Line(b)
      BY <3>2 DEF Line
    <3>4. f[Parent[c]] < f[c]
      BY <1>1, <3>1, <3>3
    <3>5. f[Parent[c]] < Height[Parent[c]]
      BY <1>1, <2>3, <3>1, <3>3, <3>4
    <3>6. Height[Parent[c]] \in Bad
      BY <3>3, <3>5
    <3>7. Height[c] <= Height[Parent[c]]
      BY <2>2, <2>3, <3>6
    <3>8. Height[Parent[c]] \in Nat
      BY <1>1, <3>3
    <3> QED BY <3>1, <3>7, <3>8
  <2> QED BY <2>4, <2>5
<1>5. Worse = {}
  <2> SUFFICES ASSUME Worse # {} PROVE FALSE
    OBVIOUS
  <2>1. Worse \in SUBSET Nat
    BY <1>1, <1>2
  <2>2. PICK x \in Worse : \A y \in Worse : x <= y
    BY <2>1, LeastNumber
  <2>3. PICK c \in Line(b) : x = Height[b] - Height[c] /\ f[c] > Height[c]
    OBVIOUS
  <2>4. c # b
    BY <1>2, <2>3
  <2>5. PICK d \in Line(b) : Height[d] = Height[c] + 1
    BY <1>3, <2>4
  <2>6. f[c] < f[d]
    BY <1>1, <2>5
  <2>7. f[d] > Height[d]
    BY <1>1, <2>3, <2>5, <2>6
  <2>8. Height[b] - Height[d] \in Worse
    BY <2>7
  <2>9. Height[b] - Height[c] <= Height[b] - Height[d]
    BY <2>2, <2>3, <2>8
  <2>10. Height[c] \in Nat
    BY <1>1, <2>3
  <2> QED BY <1>2, <2>5, <2>9, <2>10
<1>6. \A c \in Line(b) : ~(f[c] < Height[c]) /\ ~(f[c] > Height[c])
  BY <1>4, <1>5
<1> QED BY <1>1, <1>6

\* A place that is looked up is the one of a proof in the file, or none.
LEMMA GetIndexPlaces ==
    ASSUME Safe, InvBeside, Places, NEW b \in Blocks, get_index(b)
    PROVE  Places'
<1> USE DEF store_vars, journal_vars, proof_vars, index_vars, producer_vars, worker_vars, core_vars,
            service_vars
<1>1. /\ UNCHANGED <<log, floor, index, index_disk, indexes, proofs, proofs_synced, committed,
                     dtip, wpc, command, pc, fault>>
      /\ Up /\ index[b] # 0 /\ asked' = [block |-> b, place |-> index[b]]
  BY DEF get_index, Up
<1>2. Up' /\ JTip' = JTip /\ OrphanedBlocks' = OrphanedBlocks
  BY <1>1, LogFrame DEF Up
<1>3. Chain' = Chain /\ Merged' = Merged
  BY <1>1, <1>2, StoreFrame
<1>4. Line(dtip)' = Line(dtip) /\ \A c \in Blocks : Place(c)' = Place(c)
  BY <1>1, <1>3 DEF Line, Place
<1>5. InvIndex'
  <2>1. /\ \A c \in Blocks : Merged[c] # 0 => c \in Chain \cup OrphanedBlocks'
        /\ \A c \in Chain : Height[c] <= committed' => index_disk[c] # 0
        /\ proofs_synced' \in Nat /\ proofs_synced <= proofs_synced' /\ InvIndex
    BY <1>1, <1>2, StoreFacts DEF Places, InvIndex
  <2> QED BY <1>1, <1>2, <2>1, IndexKept
<1>6. InvHeld'
  <2>1. /\ \A c \in Blocks : Merged'[c] # 0 => c \in Line(dtip)' \cup Chain'
        /\ Rising(Line(dtip))'
        /\ wpc' = "append" => \A c \in Blocks : index'[c] # 0 => c \in Line(dtip)'
        /\ wpc' \notin FreshSteps \cup {"failed"} => indexes' = NoIndexes
    BY <1>1, <1>3, <1>4 DEF Places, InvHeld, Rising
  <2>2. Place(IF wpc = "append" THEN dtip ELSE JTip)' = Place(IF wpc = "append" THEN dtip ELSE JTip)
    BY <1>1, <1>2, <1>3 DEF Place
  <2>3. wpc' # "failed" /\ (command'.kind # "rollback" \/ wpc' \in {"idle", "rollback_height"}) =>
              Len(proofs') = Place(IF wpc = "append" THEN dtip ELSE JTip)'
    BY <1>1, <2>2 DEF Places, InvHeld
  <2> QED BY <2>1, <2>3 DEF InvHeld
<1>7. InvStored'
  <2>1. Full(Merged)' = Full(Merged) /\ Full(index)' = Full(index) /\ Full(index_disk)' = Full(index_disk)
    BY <1>1, <1>3 DEF Full
  <2> QED BY <1>1, <2>1 DEF Places, InvStored, Orphan
<1>8. InvAsked'
  <2>1. Merged \in [Blocks -> Nat] /\ Chain \subseteq Blocks \ {Root} /\ Line(dtip) \subseteq Blocks \ {Root}
        /\ JTip \in Blocks /\ dtip \in Blocks /\ committed \in Nat /\ \A c \in Blocks : Height[c] \in Nat
    BY StoreFacts
  <2>2. Merged[b] = index[b]
    BY <1>1 DEF Places, InvIndex
  <2>3. b \in Line(dtip) \cup Chain
    BY <1>1, <2>2 DEF Places, InvHeld
  <2>4. asked'.block = b /\ asked'.place = index[b] /\ b \in Blocks \ {Root}
    BY <1>1, <2>1, <2>3
  <2>5. asked' # NoRequest
    BY <2>4, TreeAssumption DEF NoRequest
  <2>6. ASSUME index[b] = Height[b]
        PROVE  \A c \in Line(b) : Merged[c] # 0 => Merged[c] = Height[c]
    <3>1. PICK t \in {JTip, dtip} : b \in Line(t) /\ Rising(Line(t))
      BY <1>1, <2>3 DEF Chain, Places, InvIndex, InvHeld
    <3>2. \A c \in Line(b) : c \in Line(t)
      BY <2>1, <3>1, BranchBelow DEF Line
    <3>3. CASE \A c \in Line(b) : Merged[c] # 0
      <4>1. \A c, d \in Line(b) : Height[c] < Height[d] => Merged[c] < Merged[d]
        BY <3>1, <3>2, <3>3 DEF Rising
      <4>2. Merged[b] = Height[b]
        BY <2>2, <2>6
      <4> HIDE DEF Merged
      <4> QED BY <2>1, <2>4, <3>3, <4>1, <4>2, PlacesBelow
    <3>4. \A c \in Line(b) : Merged[c] # 0
      <4> SUFFICES ASSUME NEW c \in Line(b) PROVE Merged[c] # 0
        OBVIOUS
      <4>1. c \in Branch[b] /\ c # Root /\ c \in Blocks /\ Height[c] <= Height[b]
        BY BranchBelow DEF Line
      <4>2. index[c] # 0 => Merged[c] # 0
        BY <4>1 DEF Places, InvIndex
      <4>3. CASE b \in Chain
        <5>1. c \in Chain
          BY <2>1, <4>1, <4>3, BranchBelow DEF Chain, Line
        <5> QED BY <1>1, <4>1, <4>2, <4>3, <5>1 DEF Places, InvIndex, Prefix
      <4>4. CASE b \notin Chain
        <5>1. dtip # Root /\ JTip = Parent[dtip]
          <6>1. dtip \notin Branch[JTip]
            BY <2>1, <2>3, <4>4, BranchBelow DEF Chain, Line
          <6> QED BY <1>1, <6>1 DEF InvBeside
        <5>2. Line(dtip) = Chain \cup {dtip} /\ Height[dtip] = Height[JTip] + 1
          BY <2>1, <5>1, ParentFacts DEF Chain, Line
        <5>3. b = dtip
          BY <2>3, <4>4, <5>2
        <5>4. CASE c = b
          BY <1>1, <2>2, <5>4
        <5>5. CASE c # b
          <6>1. c \in Chain
            BY <4>1, <5>2, <5>3, <5>5 DEF Line
          <6>2. Height[c] <= committed
            BY <1>1, <4>1, <5>3 DEF Safe, Forest, InvCommitted
          <6>3. index_disk[c] # 0
            BY <6>1, <6>2 DEF Places, InvIndex
          <6> QED BY <4>1, <4>2, <6>3 DEF Places, InvIndex
        <5> QED BY <5>4, <5>5
      <4> QED BY <4>3, <4>4
    <3> QED BY <3>3, <3>4
  <2> QED BY <1>2, <1>3, <2>4, <2>5, <2>6 DEF InvAsked, Line
<1>9. InvProofFaults'
  BY <1>1 DEF Places, InvProofFaults
<1> QED BY <1>2, <1>5, <1>6, <1>7, <1>8, <1>9, RepairedWhileUp DEF Places

\* The process ends; of entries and proofs those remain that were synced, and
\* of the others a first part.
LEMMA EndPlaces ==
    ASSUME Safe, Safe', Places, process_ends, UNCHANGED <<log, floor, committed, fault>>,
           \A b \in Blocks : index'[b] # 0 => index'[b] = index[b],
           \A b \in Blocks : index_disk'[b] # 0 => index'[b] = index_disk'[b],
           \A b \in Blocks : index_disk[b] # 0 => index_disk'[b] # 0,
           \A b, c \in Chain : Height[b] <= Height[c] =>
               /\ index'[c] # 0 => index'[b] # 0
               /\ index_disk'[c] # 0 => index_disk'[b] # 0,
           proofs_synced <= proofs_synced',
           \A i \in 1 .. proofs_synced : i \in 1 .. Len(proofs') /\ proofs'[i] = proofs[i]
    PROVE  Places'
<1>1. pc' = "down" /\ indexes' = NoIndexes /\ asked' = NoRequest
  BY DEF process_ends
<1>2. JTip' = JTip /\ OrphanedBlocks' = OrphanedBlocks
  BY LogFrame
<1>3. Chain' = Chain /\ Chain \subseteq Blocks
  BY <1>2, StoreFacts DEF Chain, Line
<1>4. /\ index \in [Blocks -> Nat] /\ proofs_synced \in Nat /\ proofs_synced' \in Nat
  BY StoreFacts DEF Safe, Types, StoreTypes
<1>5. \A b \in Blocks : Merged'[b] = index'[b]
  BY <1>1 DEF Merged, NoIndexes
<1>6. \A b \in Blocks : index'[b] # 0 => /\ index'[b] = index[b] /\ Merged[b] = index[b]
                                         /\ index[b] \in 1 .. proofs_synced
                                         /\ Readable(index[b], b) /\ b \in Chain \cup OrphanedBlocks
  BY <1>4 DEF Places, InvIndex
<1>7. \A b \in Blocks : Merged'[b] # 0 => Readable(Merged[b], b)' /\ b \in Chain' \cup OrphanedBlocks'
  BY <1>2, <1>3, <1>5, <1>6 DEF Readable
<1>8. Rising(Chain)'
  <2> SUFFICES ASSUME NEW b \in Chain, NEW c \in Chain, Height[b] < Height[c], index'[b] # 0,
                      index'[c] # 0
               PROVE  index'[b] < index'[c]
    BY <1>3, <1>5 DEF Rising
  <2> QED BY <1>3, <1>6 DEF Places, InvIndex, Rising
<1>9. Prefix(index)' /\ Prefix(index_disk)'
  BY <1>3 DEF Prefix
<1>10. \A b \in Blocks : index'[b] # 0 => Merged'[b] = index'[b] /\ index'[b] <= proofs_synced'
  BY <1>4, <1>5, <1>6
<1>11. \A b \in Chain' : Height[b] <= committed' => index_disk'[b] # 0
  BY <1>3 DEF Places, InvIndex
<1>12. InvIndex'
  BY <1>7, <1>8, <1>9, <1>10, <1>11 DEF InvIndex
<1>13. InvRepaired' /\ InvProofFaults' /\ ~Up'
  BY <1>1 DEF InvRepaired, ReplaySteps, Places, InvProofFaults, Up, RecoverySteps
<1> QED BY <1>1, <1>12, <1>13, PlacesDown

\* What index_survives leaves of the index.
LEMMA IndexSurvives ==
    ASSUME Safe, InvIndex, index_survives
    PROVE  /\ \A b \in Blocks : index'[b] # 0 => index'[b] = index[b]
           /\ \A b \in Blocks : index_disk'[b] # 0 => index'[b] = index_disk'[b]
           /\ \A b \in Blocks : index_disk[b] # 0 => index_disk'[b] # 0
           /\ \A b, c \in Chain : Height[b] <= Height[c] =>
                 /\ index'[c] # 0 => index'[b] # 0
                 /\ index_disk'[c] # 0 => index_disk'[b] # 0
<1>1. PICK last \in Heights \cup {0} :
        index' = [b \in Blocks |-> IF Height[b] <= last THEN index[b] ELSE index_disk[b]]
  BY DEF index_survives
<1>2. index_disk' = index'
  BY DEF index_survives
<1>3. /\ index \in [Blocks -> Nat] /\ index_disk \in [Blocks -> Nat] /\ Chain \subseteq Blocks
      /\ \A b \in Blocks : Height[b] \in Nat
  BY StoreFacts
<1>4. last \in Nat
  BY <1>3 DEF Heights
<1>5. \A b \in Blocks : index'[b] = IF Height[b] <= last THEN index[b] ELSE index_disk[b]
  BY <1>1
<1>6. \A b \in Blocks : index_disk[b] # 0 => index[b] = index_disk[b]
  BY DEF InvIndex
<1>7. \A b \in Blocks : (index'[b] # 0 => index'[b] = index[b]) /\ (index_disk[b] # 0 => index'[b] # 0)
  BY <1>5, <1>6
<1>8. ASSUME NEW b \in Chain, NEW c \in Chain, Height[b] <= Height[c], index'[c] # 0
      PROVE  index'[b] # 0
  <2>1. CASE Height[c] <= last
    <3>1. Height[b] <= last
      <4>1. Height[b] \in Nat /\ Height[c] \in Nat
        BY <1>3
      <4> QED BY <1>4, <1>8, <2>1, <4>1
    <3> QED BY <1>3, <1>5, <1>8, <2>1, <3>1 DEF InvIndex, Prefix
  <2>2. CASE ~(Height[c] <= last)
    <3>1. index_disk[b] # 0
      BY <1>3, <1>5, <1>8, <2>2 DEF InvIndex, Prefix
    <3> QED BY <1>3, <1>7, <3>1
  <2> QED BY <2>1, <2>2
<1> QED BY <1>2, <1>7, <1>8

\* Whatever a stop keeps of proofs and entries, the chain's are a prefix.
LEMMA StopPlaces ==
    ASSUME Safe, Safe', Places, exit \/ kill \/ power_loss
    PROVE  Places'
<1> USE DEF store_vars, journal_vars, proof_vars, index_vars
<1>1. process_ends /\ UNCHANGED <<log, floor, committed, fault>> /\ InvIndex
  BY DEF exit, kill, power_loss, Places
<1>2. /\ proofs \in Seq(Blocks \cup {Garbage}) /\ Len(proofs) \in Nat
      /\ proofs_synced \in Nat /\ proofs_synced <= Len(proofs) /\ Chain \subseteq Blocks
  BY StoreFacts
<1>3. CASE exit
  <2>1. UNCHANGED <<index, index_disk, proofs, proofs_synced>>
    BY <1>3 DEF exit
  <2>2. /\ \A b \in Blocks : index_disk'[b] # 0 => index'[b] = index_disk'[b]
        /\ \A b, c \in Chain : Height[b] <= Height[c] =>
               /\ index'[c] # 0 => index'[b] # 0
               /\ index_disk'[c] # 0 => index_disk'[b] # 0
    BY <1>1, <2>1 DEF InvIndex, Prefix
  <2>3. /\ proofs_synced <= proofs_synced'
        /\ \A i \in 1 .. proofs_synced : i \in 1 .. Len(proofs') /\ proofs'[i] = proofs[i]
    BY <1>2, <2>1
  <2> QED BY <1>1, <2>1, <2>2, <2>3, EndPlaces
<1>4. CASE kill
  <2>1. UNCHANGED <<proofs, proofs_synced>> /\ index_survives
    BY <1>4 DEF kill
  <2>2. /\ proofs_synced <= proofs_synced'
        /\ \A i \in 1 .. proofs_synced : i \in 1 .. Len(proofs') /\ proofs'[i] = proofs[i]
    BY <1>2, <2>1
  <2> QED BY <1>1, <2>1, <2>2, IndexSurvives, EndPlaces
<1>5. CASE power_loss
  <2>1. index_survives /\ proofs_synced' = Len(proofs')
    BY <1>5 DEF power_loss
  <2>2. PICK n \in proofs_synced .. Len(proofs) :
         \E torn \in SUBSET (proofs_synced + 1 .. n) :
           proofs' = [i \in 1 .. n |-> IF i \in torn THEN Garbage ELSE proofs[i]]
    BY <1>5 DEF power_loss
  <2>3. PICK torn \in SUBSET (proofs_synced + 1 .. n) :
           proofs' = [i \in 1 .. n |-> IF i \in torn THEN Garbage ELSE proofs[i]]
    BY <2>2
  <2>4. n \in Nat /\ proofs_synced <= n
    BY <1>2
  <2>5. Len(proofs') = n
    BY <2>3, <2>4
  <2>6. \A i \in 1 .. proofs_synced : i \in 1 .. n /\ i \notin torn
    BY <1>2, <2>4
  <2>7. /\ proofs_synced <= proofs_synced'
        /\ \A i \in 1 .. proofs_synced : i \in 1 .. Len(proofs') /\ proofs'[i] = proofs[i]
    BY <2>1, <2>3, <2>4, <2>5, <2>6
  <2> QED BY <1>1, <2>1, <2>7, IndexSurvives, EndPlaces
<1> QED BY <1>3, <1>4, <1>5

-----------------------------------------------------------------------------
(* Entries and proofs: all steps *)

\* Every step of the worker keeps entries and proofs.
LEMMA WorkerPlaces ==
    ASSUME Safe, Places, Worker \/ worker_fail
    PROVE  Places'
  BY WorkerElsewhere, WorkerSyncs, PublishPlaces, AppendPlaces, IndexPlaces, UpdateHeightPlaces,
     MarkPlaces, RemoveIndexPlaces, TruncatePlaces, RollbackHeightPlaces DEF Worker

Unlost == losses = 0

\* Every step keeps entries and proofs, if it loses none.
LEMMA NextPlaces ==
    ASSUME Safe, Safe', InvDescends, InvBeside, Places, Unlost, Unlost', [Next]_vars
    PROVE  Places'
<1>1. CASE Producer
  BY <1>1, ProducerPlaces, StopPlaces
<1>2. CASE Worker
  BY <1>2, WorkerPlaces
<1>3. CASE Recovery
  BY <1>3, RecoveryPlaces
<1>4. CASE Environment
  <2>1. CASE \E b \in Blocks : lose(b)
    BY <2>1 DEF lose, Unlost
  <2>2. CASE rpc_error \/ lookup_error
    BY <2>2, ProducerPlaces, StopPlaces
  <2>3. CASE \E b \in Blocks : get_index(b)
    BY <2>3, GetIndexPlaces
  <2>4. CASE worker_fail
    BY <2>4, WorkerPlaces
  <2>5. CASE kill \/ power_loss
    BY <2>5, StopPlaces
  <2>6. CASE \/ \E t \in Blocks : reorganize(t)
             \/ set_shutdown \/ peer_put \/ grow_heights \/ get_proof
             \/ \E b \in Blocks : peer_fetch(b)
    BY <2>6, OutsidePlaces
  <2> QED BY <1>4, <2>1, <2>2, <2>3, <2>4, <2>5, <2>6 DEF Environment
<1>5. CASE UNCHANGED vars
  BY <1>5, OutsidePlaces
<1> QED BY <1>1, <1>2, <1>3, <1>4, <1>5 DEF Next

\* A bridge that has never published has nothing in its stores.
LEMMA InitPlaces ==
    ASSUME Init
    PROVE  InvDescends /\ InvBeside /\ Places
<1>1. /\ index = NoIndexes /\ index_disk = NoIndexes /\ indexes = NoIndexes
      /\ log = << >> /\ floor = 1 /\ pc = "down" /\ committed = 0 /\ proofs = << >>
      /\ asked = NoRequest /\ fault = "none" /\ wpc = "idle"
  BY DEF Init
<1>2. Safe
  BY InitSafe
<1>3. Retained = {} /\ ForwardRecords = {}
  BY <1>1 DEF Retained, ForwardRecords
<1>4. InvDescends
  BY <1>3 DEF InvDescends
<1>5. ~Up
  BY <1>1 DEF Up, RecoverySteps
<1>6. JTip = Root /\ Chain = {}
  BY <1>3, BranchDef DEF JTip, Chain, Line
<1>7. \A b \in Blocks : Merged[b] = 0 /\ index[b] = 0 /\ index_disk[b] = 0
  BY <1>1 DEF Merged, NoIndexes
<1>8. InvIndex
  BY <1>6, <1>7 DEF InvIndex, Prefix, Rising
<1>9. InvHeld /\ InvStored /\ InvRepaired /\ InvAsked /\ InvProofFaults /\ InvBeside
  BY <1>1, <1>5 DEF InvHeld, InvStored, InvRepaired, InvAsked, InvProofFaults, InvBeside,
     FreshSteps, ReplaySteps
<1> QED BY <1>4, <1>8, <1>9 DEF Places

-----------------------------------------------------------------------------
(* Headers: steps that leave them, or sync them *)

HeldHeaders == Only(headers, Line(dtip) \cup Chain) /\ Only(headers_disk, Line(dtip) \cup Chain)

SyncedSteps == {"append_batch", "index_flush", "apply", "forest_sync", "update_height"}

\* A chain has one block at a height.
LEMMA ChainHeights ==
    ASSUME Safe
    PROVE  /\ \A b \in Chain : b \in Blocks \ {Root} /\ Height[b] \in Heights /\ Height[b] \in Nat
           /\ \A b, c \in Chain : Height[b] = Height[c] => b = c
           /\ NoBlock \notin Blocks
<1>1. JTip \in Blocks /\ Chain \subseteq Blocks \ {Root}
  BY StoreFacts
<1>2. \A b, c \in Chain : Height[b] = Height[c] => b = c
  BY <1>1, BranchLine DEF Chain, Line
<1> QED BY <1>1, <1>2, HeightTypes, TreeAssumption

\* What is cached or on the medium at a height was one or the other before: a
\* sync, a failed one, or a loss of power.
LEMMA MixedHeaders ==
    ASSUME Safe, InvHeaders, UNCHANGED <<log, floor, committed>>,
           \A h \in Heights : /\ headers'[h] \in {headers[h], headers_disk[h]}
                              /\ headers_disk'[h] \in {headers[h], headers_disk[h]}
    PROVE  /\ InvHeaders' /\ Chain' = Chain
           /\ dtip' = dtip /\ HeldHeaders => HeldHeaders'
<1>1. JTip' = JTip /\ OrphanedBlocks' = OrphanedBlocks
  BY LogFrame
<1>2. Chain' = Chain
  BY <1>1 DEF Chain, Line
<1>3. /\ Only(headers, Chain \cup OrphanedBlocks)' /\ Only(headers_disk, Chain \cup OrphanedBlocks)'
  BY <1>1, <1>2 DEF InvHeaders, Only
<1>4. \A b \in Chain' : Height[b] <= committed' => headers'[Height[b]] = b /\ headers_disk'[Height[b]] = b
  BY <1>2, ChainHeights DEF InvHeaders
<1>5. ASSUME dtip' = dtip, HeldHeaders PROVE HeldHeaders'
  <2>1. Line(dtip)' = Line(dtip)
    BY <1>5 DEF Line
  <2> QED BY <1>2, <1>5, <2>1 DEF HeldHeaders, Only
<1> QED BY <1>2, <1>3, <1>4, <1>5 DEF InvHeaders

\* A step of a running bridge of that kind, for which the worker's next step
\* requires no more than its last and the sync.
LEMMA HeadersKept ==
    ASSUME Safe, HeadersOK, Up, Up', UNCHANGED <<log, floor, committed, dtip>>,
           \A h \in Heights : /\ headers'[h] \in {headers[h], headers_disk[h]}
                              /\ headers_disk'[h] \in {headers[h], headers_disk[h]},
           fault' # "gap",
           wpc' \in {"header_sync"} \cup SyncedSteps =>
               wpc \in {"header_sync"} \cup SyncedSteps /\ headers' = headers,
           wpc' \in SyncedSteps =>
               \/ wpc \in SyncedSteps /\ headers_disk' = headers_disk
               \/ wpc = "header_sync" /\ headers_disk' = headers,
           wpc' \in {"remove_header_sync", "remove_index", "truncate", "rollback_height"} =>
               /\ wpc \in {"remove_header_sync", "remove_index", "truncate", "rollback_height"}
               /\ headers' = headers /\ command' = command,
           wpc' \in {"remove_index", "truncate", "rollback_height"} =>
               \/ wpc \in {"remove_index", "truncate", "rollback_height"} /\ headers_disk' = headers_disk
               \/ wpc = "remove_header_sync" /\ headers_disk' = headers
    PROVE  HeadersOK'
<1>1. InvHeaders /\ HeldHeaders
  BY DEF HeadersOK, InvHeadersStored, HeldHeaders
<1>2. InvHeaders' /\ Chain' = Chain /\ HeldHeaders'
  BY <1>1, MixedHeaders
<1>3. wpc' \in {"header_sync"} \cup SyncedSteps => Headed(headers)'
  BY <1>2 DEF HeadersOK, InvHeadersStored, SyncedSteps, Headed
<1>4. wpc' \in SyncedSteps => Headed(headers_disk)'
  BY <1>2 DEF HeadersOK, InvHeadersStored, SyncedSteps, Headed
<1>5. wpc' \in {"remove_header_sync", "remove_index", "truncate", "rollback_height"} =>
          Orphan' = Orphan
  BY DEF Orphan
<1>6. wpc' \in {"remove_header_sync", "remove_index", "truncate", "rollback_height"} =>
          \A h \in Heights : headers'[h] # Orphan'
  BY <1>5 DEF HeadersOK, InvHeadersStored
<1>7. wpc' \in {"remove_index", "truncate", "rollback_height"} =>
          \A h \in Heights : headers_disk'[h] # Orphan'
  BY <1>5 DEF HeadersOK, InvHeadersStored
<1>8. InvHeadersStored'
  BY <1>2, <1>3, <1>4, <1>6, <1>7 DEF InvHeadersStored, HeldHeaders, SyncedSteps
<1>9. InvHeadersRepaired' /\ InvGap'
  BY DEF Up, RecoverySteps, InvHeadersRepaired, ReplaySteps, InvGap
<1> QED BY <1>2, <1>8, <1>9 DEF HeadersOK

\* The producer writes no header.
LEMMA ProducerHeaders ==
    ASSUME Safe, HeadersOK, Producer \/ rpc_error \/ lookup_error, ~exit
    PROVE  HeadersOK'
<1>1. /\ Up /\ Up' /\ UNCHANGED store_frame /\ UNCHANGED <<dtip, wpc, asked>>
      /\ UNCHANGED command \/ (wpc = "idle" /\ command.kind = "none")
      /\ fault' = fault \/ fault' = "diverged"
  BY ProducerSteady
<1>2. fault' # "gap"
  BY <1>1 DEF HeadersOK, InvGap
<1>3. UNCHANGED <<log, floor, committed, headers, headers_disk, dtip>>
  BY <1>1 DEF store_frame
<1> QED BY <1>1, <1>2, <1>3, HeadersKept DEF SyncedSteps

\* The worker's steps that have to do with other stores or sync the headers.
LEMMA WorkerHeadersElsewhere ==
    ASSUME Safe, HeadersOK,
           \/ persist \/ append \/ proof_sync \/ header_sync \/ index_set \/ index_flush
           \/ apply_forward_batch \/ forest_sync \/ discard_unpublished \/ sync_barrier
           \/ reorg_too_deep \/ apply_backward \/ backward_sync \/ remove_header_sync
           \/ remove_index \/ truncate \/ header_unavailable \/ worker_fail
    PROVE  HeadersOK'
<1> USE DEF store_vars, journal_vars, header_vars, producer_vars, worker_step, env_vars, answer, Running
<1>1. /\ UNCHANGED <<log, floor, dtip, pc, headers>>
      /\ fault' \in {fault, "window", "truncate"}
  BY DEF persist, append, proof_sync, header_sync, index_set, index_flush, apply_forward_batch,
     forest_sync, discard_unpublished, sync_barrier, reorg_too_deep, apply_backward, backward_sync,
     remove_header_sync, remove_index, truncate, truncate_after, header_unavailable, worker_fail, bail
<1>2. command # NoCommand \/ wpc # "idle"
  BY DEF persist, append, proof_sync, header_sync, index_set, index_flush, apply_forward_batch,
     forest_sync, discard_unpublished, sync_barrier, reorg_too_deep, apply_backward, backward_sync,
     remove_header_sync, remove_index, truncate, header_unavailable, worker_fail, NoCommand
<1>3. Up /\ Up'
  BY <1>1, <1>2 DEF Up, Safe, Threads, InvIdle
<1>4. committed' = committed
  <2>1. CASE sync_barrier
    BY <1>3, <2>1 DEF sync_barrier, Safe, Forest, InvCommitted
  <2>2. CASE ~sync_barrier
    BY <2>2 DEF persist, append, proof_sync, header_sync, index_set, index_flush, apply_forward_batch,
       forest_sync, discard_unpublished, reorg_too_deep, apply_backward, backward_sync,
       remove_header_sync, remove_index, truncate, header_unavailable, worker_fail
  <2> QED BY <2>1, <2>2
<1>5. headers_disk' = headers \/ headers_disk' = headers_disk
  BY DEF persist, append, proof_sync, header_sync, index_set, index_flush, apply_forward_batch,
     forest_sync, discard_unpublished, sync_barrier, reorg_too_deep, apply_backward, backward_sync,
     remove_header_sync, remove_index, truncate, header_unavailable, worker_fail, SyncedHeaders
<1>6. \/ wpc' \in {"publish", "proof_sync", "put_headers", "idle", "failed", "backward_sync", "remove_header"}
      \/ <<wpc, wpc'>> = <<"header_sync", "append_batch">> /\ headers_disk' = headers
      \/ /\ <<wpc, wpc'>> \in {<<"append_batch", "index_flush">>, <<"index_flush", "apply">>,
                               <<"apply", "forest_sync">>, <<"forest_sync", "update_height">>}
         /\ headers_disk' = headers_disk
      \/ /\ <<wpc, wpc'>> = <<"remove_header_sync", "remove_index">>
         /\ headers_disk' = headers /\ command' = command
      \/ /\ <<wpc, wpc'>> \in {<<"remove_index", "truncate">>, <<"truncate", "rollback_height">>}
         /\ headers_disk' = headers_disk /\ command' = command
  BY DEF persist, append, proof_sync, header_sync, index_set, index_flush, apply_forward_batch,
     forest_sync, discard_unpublished, sync_barrier, reorg_too_deep, apply_backward, backward_sync,
     remove_header_sync, remove_index, truncate, header_unavailable, worker_fail, SyncedHeaders
<1>7. fault' # "gap"
  BY <1>1 DEF HeadersOK, InvGap
<1>8. \A h \in Heights : /\ headers'[h] \in {headers[h], headers_disk[h]}
                         /\ headers_disk'[h] \in {headers[h], headers_disk[h]}
  BY <1>1, <1>5
<1> QED BY <1>1, <1>3, <1>4, <1>6, <1>7, <1>8, HeadersKept DEF SyncedSteps

-----------------------------------------------------------------------------
(* Headers: publication and roll back *)

\* Steps after which the worker has stored or removed nothing yet.
LEMMA HeadersBegin ==
    ASSUME Up', InvHeaders', HeldHeaders', fault' # "gap",
           wpc' \in {"idle", "append", "apply_backward", "prune", "failed"}
    PROVE  HeadersOK'
<1>1. InvHeadersStored'
  BY DEF InvHeadersStored, HeldHeaders
<1>2. InvHeadersRepaired' /\ InvGap'
  BY DEF Up, RecoverySteps, InvHeadersRepaired, ReplaySteps, InvGap
<1> QED BY <1>1, <1>2 DEF HeadersOK

\* Only the chain has headers, and that is what both tips are now.
LEMMA HeadersOfChain ==
    ASSUME Only(headers, Chain)', Only(headers_disk, Chain)',
           \A b \in Chain' : Height[b] <= committed' =>
               headers'[Height[b]] = b /\ headers_disk'[Height[b]] = b
    PROVE  InvHeaders' /\ HeldHeaders'
  BY DEF InvHeaders, HeldHeaders, Only

\* The headers of a new window are missing until they are put.
LEMMA PublishHeaders ==
    ASSUME Safe, Safe', HeadersOK, publish
    PROVE  HeadersOK'
<1> USE DEF store_vars, journal_vars, header_vars, producer_vars, worker_step, env_vars, Running
<1>1. /\ command.kind = "publish" /\ wpc = "publish" /\ wpc' = "append"
      /\ UNCHANGED <<headers, headers_disk, dtip, committed, pc, command, fault>>
  BY DEF publish
<1>2. Up /\ Up' /\ Working /\ Working'
  BY <1>1 DEF Safe, Threads, InvIdle, Up, NoCommand, Working
<1>3. JTip = dtip /\ committed = Height[dtip] /\ dtip \in Blocks
  BY <1>1, <1>2 DEF Safe, Forest, InvWorker, InvCommitted, Types, ThreadTypes
<1>4. JTip' = LastBlock(command.blocks)
  BY <1>1, <1>2 DEF Safe, Forest, InvWorker
<1>5. /\ command.blocks \in Seq(Blocks) /\ Extends(Below, command.blocks) /\ dtip = Below
      /\ Branch[LastBlock(command.blocks)] = Branch[Below] \cup SetOf(command.blocks)
  BY <1>1, <1>2, PublishCommand DEF Safe, Types
<1>6. Chain = Line(dtip) /\ Chain' = Chain \cup (SetOf(command.blocks) \ {Root})
  BY <1>3, <1>4, <1>5 DEF Chain, Line
<1>7. ASSUME NEW b \in SetOf(command.blocks) PROVE ~(Height[b] <= committed)
  <2>1. PICK k \in 1 .. Len(command.blocks) : b = command.blocks[k]
    BY DEF SetOf
  <2>2. Height[b] = Height[dtip] + k
    BY <1>3, <1>5, <2>1, RunBranches
  <2> QED BY <1>3, <1>5, <2>2, HeightTypes
<1>8. Only(headers, Chain) /\ Only(headers_disk, Chain)
  BY <1>2, <1>6 DEF HeadersOK, InvHeadersStored
<1>9. Only(headers, Chain)' /\ Only(headers_disk, Chain)'
  BY <1>1, <1>6, <1>8 DEF Only
<1>10. \A b \in Chain' : Height[b] <= committed' =>
               headers'[Height[b]] = b /\ headers_disk'[Height[b]] = b
  BY <1>1, <1>6, <1>7 DEF HeadersOK, InvHeaders
<1>11. fault' # "gap"
  BY <1>1 DEF HeadersOK, InvGap
<1> QED BY <1>1, <1>2, <1>9, <1>10, <1>11, HeadersOfChain, HeadersBegin

\* The headers that are put are those of the window.
LEMMA PutHeaders ==
    ASSUME Safe, HeadersOK, put
    PROVE  HeadersOK'
<1> USE DEF store_vars, journal_vars, header_vars, producer_vars, worker_step, env_vars, Running
<1> DEFINE S == SetOf(command.blocks)
<1>1. /\ command.kind = "publish" /\ wpc = "put_headers" /\ wpc' = "header_sync" /\ put_headers(S)
      /\ UNCHANGED <<log, floor, headers_disk, dtip, committed, pc, command, fault>>
  BY DEF put
<1>2. Up /\ Up' /\ Working /\ JTip' = JTip /\ OrphanedBlocks' = OrphanedBlocks
  BY <1>1, LogFrame DEF Safe, Threads, InvIdle, Up, NoCommand, Working
<1>3. JTip = LastBlock(command.blocks) /\ committed = Height[dtip] /\ dtip \in Blocks
  BY <1>1, <1>2 DEF Safe, Forest, InvWorker, InvCommitted, Types, ThreadTypes
<1>4. /\ Branch[LastBlock(command.blocks)] = Branch[Below] \cup SetOf(command.blocks)
      /\ dtip = Below /\ \A b \in S : b \in Blocks \ {Root}
  BY <1>1, <1>2, PublishCommand DEF Safe, Types
<1> HIDE DEF S
<1>5. Chain = Line(dtip) \cup S
  BY <1>3, <1>4 DEF Chain, Line, S
<1>6. Chain' = Chain /\ Line(dtip)' = Line(dtip)
  BY <1>1, <1>2 DEF Chain, Line
<1>7. /\ \A b \in Chain : b \in Blocks \ {Root} /\ Height[b] \in Heights
      /\ \A b, c \in Chain : Height[b] = Height[c] => b = c
  BY ChainHeights
<1>8. \A h \in Heights : headers'[h] = IF \E b \in S : Height[b] = h
                                       THEN CHOOSE b \in S : Height[b] = h ELSE headers[h]
  BY <1>1 DEF put_headers
<1>9. \A h \in Heights : headers'[h] = headers[h] \/ headers'[h] \in S
  <2> SUFFICES ASSUME NEW h \in Heights, \E b \in S : Height[b] = h
               PROVE  headers'[h] \in S
    BY <1>8
  <2>1. headers'[h] = CHOOSE b \in S : Height[b] = h
    BY <1>8
  <2> QED BY <2>1
<1>10. ASSUME NEW c \in S PROVE headers'[Height[c]] = c
  <2>1. Height[c] \in Heights /\ c \in Chain
    BY <1>5, <1>7
  <2>2. headers'[Height[c]] = CHOOSE b \in S : Height[b] = Height[c]
    BY <1>8, <2>1
  <2>3. \A b \in S : Height[b] = Height[c] => b = c
    BY <1>5, <1>7, <2>1
  <2> QED BY <2>2, <2>3
<1>11. ASSUME NEW b \in Chain, b \notin S PROVE headers'[Height[b]] = b
  <2>1. b \in Line(dtip)
    BY <1>5, <1>11
  <2>2. Height[b] <= committed
    BY <1>3, <2>1, BranchBelow DEF Line
  <2>3. headers[Height[b]] = b
    BY <2>2 DEF HeadersOK, InvHeaders
  <2>4. ~ \E c \in S : Height[c] = Height[b]
    BY <1>5, <1>7, <1>11
  <2> QED BY <1>7, <1>8, <2>3, <2>4
<1>12. Headed(headers)'
  BY <1>6, <1>10, <1>11 DEF Headed
<1>13. InvHeaders'
  <2>1. Only(headers, Chain \cup OrphanedBlocks)' /\ Only(headers_disk, Chain \cup OrphanedBlocks)'
    BY <1>1, <1>2, <1>5, <1>6, <1>9 DEF HeadersOK, InvHeaders, Only
  <2>2. \A b \in Chain' : Height[b] <= committed' =>
               headers'[Height[b]] = b /\ headers_disk'[Height[b]] = b
    BY <1>1, <1>6, <1>10, <1>11 DEF HeadersOK, InvHeaders
  <2> QED BY <2>1, <2>2 DEF InvHeaders
<1>14. Only(headers, Line(dtip) \cup Chain)' /\ Only(headers_disk, Line(dtip) \cup Chain)'
  BY <1>1, <1>2, <1>5, <1>6, <1>9 DEF HeadersOK, InvHeadersStored, Only
<1>15. InvHeadersStored'
  BY <1>1, <1>12, <1>14 DEF InvHeadersStored
<1>16. InvHeadersRepaired' /\ InvGap'
  BY <1>1, <1>2 DEF Up, RecoverySteps, InvHeadersRepaired, ReplaySteps, InvGap, HeadersOK
<1> QED BY <1>13, <1>15, <1>16 DEF HeadersOK

\* The height moves to a block whose headers are all durable.
LEMMA CommitHeaders ==
    ASSUME Safe, Safe', HeadersOK, update_height \/ complete
    PROVE  HeadersOK'
<1> USE DEF store_vars, journal_vars, header_vars, producer_vars, worker_step, env_vars, Running
<1>1. /\ command.kind = "publish" /\ wpc \in {"update_height", "prune"} /\ wpc' \in {"prune", "idle"}
      /\ UNCHANGED <<log, headers, headers_disk, pc, fault>>
      /\ floor' = floor \/ floor' \in ForwardRecords
  BY DEF update_height, complete, PruneCuts
<1>2. Up /\ Up' /\ Working /\ fault' # "gap"
  BY <1>1 DEF Safe, Threads, InvIdle, Up, NoCommand, Working, HeadersOK, InvGap
<1>3. JTip' = JTip
  BY <1>1, SafeTip, LogFrame, Pruning
<1>4. Chain' = Chain
  BY <1>3 DEF Chain, Line
<1>5. CASE update_height
  <2>1. wpc = "update_height" /\ wpc' = "prune"
    BY <1>5 DEF update_height
  <2>2. JTip = LastBlock(command.blocks)
    BY <1>1, <1>2, <2>1 DEF Safe, Forest, InvWorker
  <2>3. Branch[LastBlock(command.blocks)] = Branch[dtip] \cup SetOf(command.blocks)
    BY <1>1, <1>2, <2>1, PublishCommand DEF Safe, Types
  <2>4. \A b \in Line(dtip) : b \in Chain
    BY <2>2, <2>3 DEF Line, Chain
  <2>5. Headed(headers) /\ Headed(headers_disk)
    BY <2>1 DEF HeadersOK, InvHeadersStored
  <2>6. Only(headers, Chain)' /\ Only(headers_disk, Chain)'
    BY <1>1, <1>2, <1>4, <2>4 DEF HeadersOK, InvHeadersStored, Only
  <2>7. \A b \in Chain' : Height[b] <= committed' =>
               headers'[Height[b]] = b /\ headers_disk'[Height[b]] = b
    BY <1>1, <1>4, <2>5 DEF Headed
  <2> QED BY <1>1, <1>2, <2>6, <2>7, HeadersOfChain, HeadersBegin
<1>6. CASE complete
  <2>1. wpc = "prune" /\ UNCHANGED <<dtip, committed>>
    BY <1>6 DEF complete
  <2>2. JTip = dtip
    BY <1>1, <1>2, <2>1 DEF Safe, Forest, InvWorker
  <2>3. Only(headers, Chain)' /\ Only(headers_disk, Chain)'
    BY <1>1, <1>2, <1>4, <2>2 DEF HeadersOK, InvHeadersStored, Only, Chain
  <2>4. \A b \in Chain' : Height[b] <= committed' =>
               headers'[Height[b]] = b /\ headers_disk'[Height[b]] = b
    BY <1>1, <1>4, <2>1 DEF HeadersOK, InvHeaders
  <2> QED BY <1>1, <1>2, <2>3, <2>4, HeadersOfChain, HeadersBegin
<1> QED BY <1>5, <1>6

\* A roll back leaves the headers below it alone.
LEMMA MarkHeaders ==
    ASSUME Safe, HeadersOK, mark_rolled_back
    PROVE  HeadersOK'
<1> USE DEF store_vars, journal_vars, header_vars, producer_vars, worker_step, env_vars, Running
<1>1. /\ command.kind = "rollback" /\ wpc = "idle" /\ wpc' = "apply_backward" /\ floor' = floor
      /\ ForwardRecords # {}
      /\ UNCHANGED <<headers, headers_disk, dtip, committed, pc, command>>
  BY DEF mark_rolled_back
<1>2. Up /\ Up' /\ Working
  BY <1>1 DEF Safe, Threads, InvIdle, Up, NoCommand, Working
<1>3. JTip = dtip
  BY <1>1, <1>2 DEF Safe, Forest, InvWorker
<1>4. dtip = Orphan
  BY <1>1, <1>2, RollbackCommand DEF Safe, Types
<1>5. LogTypes /\ InvLog /\ JTip = log[latest_forward].block /\ JTip \in Blocks \ {Root}
  BY <1>1, SafeTip
<1>6. log' = [log EXCEPT ![latest_forward].status = RolledBack] /\ fault' = fault
  BY <1>3, <1>4, <1>5 DEF mark_rolled_back
<1>7. /\ JTip' = Parent[JTip]
      /\ ForwardBlocks' = ForwardBlocks \ {JTip}
      /\ {log[i].block : i \in Retained \ ForwardRecords}' =
                 {log[i].block : i \in Retained \ ForwardRecords} \cup {JTip}
  BY <1>1, <1>5, <1>6, RollingBack
<1>8. JTip \in OrphanedBlocks'
  BY <1>7 DEF OrphanedBlocks
<1>9. Chain = Chain' \cup {JTip} /\ Line(dtip)' = Chain /\ Line(dtip) = Chain
  BY <1>1, <1>3, <1>5, <1>7, ParentFacts, BranchParent DEF Chain, Line
<1>10. Only(headers, Chain) /\ Only(headers_disk, Chain)
  BY <1>2, <1>9 DEF HeadersOK, InvHeadersStored
<1>11. InvHeaders'
  <2>1. Only(headers, Chain \cup OrphanedBlocks)' /\ Only(headers_disk, Chain \cup OrphanedBlocks)'
    BY <1>1, <1>8, <1>9, <1>10 DEF Only
  <2>2. \A b \in Chain' : Height[b] <= committed' =>
               headers'[Height[b]] = b /\ headers_disk'[Height[b]] = b
    BY <1>1, <1>9 DEF HeadersOK, InvHeaders
  <2> QED BY <2>1, <2>2 DEF InvHeaders
<1>12. HeldHeaders'
  BY <1>1, <1>9, <1>10 DEF HeldHeaders, Only
<1>13. fault' # "gap"
  BY <1>6 DEF HeadersOK, InvGap
<1> QED BY <1>1, <1>2, <1>11, <1>12, <1>13, HeadersBegin

\* The header that is removed is not on the chain.
LEMMA RemoveHeaders ==
    ASSUME Safe, HeadersOK, remove_header
    PROVE  HeadersOK'
<1> USE DEF store_vars, journal_vars, header_vars, producer_vars, worker_step, env_vars, Running
<1>1. /\ command.kind = "rollback" /\ wpc = "remove_header" /\ wpc' = "remove_header_sync"
      /\ remove_headers({Orphan})
      /\ UNCHANGED <<log, floor, headers_disk, dtip, committed, pc, command, fault>>
  BY DEF remove_header
<1>2. Up /\ Up' /\ JTip' = JTip /\ OrphanedBlocks' = OrphanedBlocks
  BY <1>1, LogFrame DEF Safe, Threads, InvIdle, Up, NoCommand
<1>3. Chain' = Chain /\ Line(dtip)' = Line(dtip) /\ Orphan' = Orphan
  BY <1>1, <1>2 DEF Chain, Line, Orphan
<1>4. Orphan \in Blocks \ {Root} /\ Orphan \notin Chain
  BY <1>1, <1>2, Undoing
<1>5. \A h \in Heights : headers'[h] = IF headers[h] \in {Orphan} THEN NoBlock ELSE headers[h]
  BY <1>1 DEF remove_headers
<1>6. \A h \in Heights : headers'[h] # Orphan
  BY <1>4, <1>5, TreeAssumption
<1>7. InvHeaders'
  <2>1. Only(headers, Chain \cup OrphanedBlocks)' /\ Only(headers_disk, Chain \cup OrphanedBlocks)'
    BY <1>1, <1>2, <1>3, <1>5 DEF HeadersOK, InvHeaders, Only
  <2>2. \A b \in Chain' : Height[b] <= committed' =>
               headers'[Height[b]] = b /\ headers_disk'[Height[b]] = b
    BY <1>1, <1>3, <1>4, <1>5, ChainHeights DEF HeadersOK, InvHeaders
  <2> QED BY <2>1, <2>2 DEF InvHeaders
<1>8. Only(headers, Line(dtip) \cup Chain)' /\ Only(headers_disk, Line(dtip) \cup Chain)'
  BY <1>1, <1>2, <1>3, <1>5 DEF HeadersOK, InvHeadersStored, Only
<1>9. InvHeadersStored'
  BY <1>1, <1>3, <1>6, <1>8 DEF InvHeadersStored
<1>10. InvHeadersRepaired' /\ InvGap'
  BY <1>1, <1>2 DEF Up, RecoverySteps, InvHeadersRepaired, ReplaySteps, InvGap, HeadersOK
<1> QED BY <1>7, <1>9, <1>10 DEF HeadersOK

\* The height falls back to the parent, whose header stays.
LEMMA RollbackHeightHeaders ==
    ASSUME Safe, HeadersOK, rollback_height
    PROVE  HeadersOK'
<1> USE DEF store_vars, journal_vars, header_vars, producer_vars, worker_step, env_vars, Running, answer
<1>1. /\ command.kind = "rollback" /\ wpc = "rollback_height" /\ wpc' = "idle"
      /\ dtip' = Parent[Orphan] /\ committed' = Height[dtip']
      /\ UNCHANGED <<log, floor, headers, headers_disk, pc, fault>>
  BY DEF rollback_height
<1>2. Up /\ Up' /\ JTip' = JTip
  BY <1>1, LogFrame DEF Safe, Threads, InvIdle, Up, NoCommand
<1>3. /\ JTip = Parent[Orphan] /\ Line(dtip) = Chain \cup {Orphan} /\ Height[JTip] <= committed
  BY <1>1, <1>2, Undoing
<1>4. Chain' = Chain
  BY <1>2 DEF Chain, Line
<1>5. \A h \in Heights : headers[h] # Orphan /\ headers_disk[h] # Orphan
  BY <1>1 DEF HeadersOK, InvHeadersStored
<1>6. Only(headers, Chain)' /\ Only(headers_disk, Chain)'
  BY <1>1, <1>2, <1>3, <1>4, <1>5 DEF HeadersOK, InvHeadersStored, Only
<1>7. committed' \in Nat /\ committed \in Nat /\ committed' <= committed
  BY <1>1, <1>3, StoreFacts
<1>8. ASSUME NEW b \in Chain', Height[b] <= committed'
      PROVE  headers'[Height[b]] = b /\ headers_disk'[Height[b]] = b
  <2>1. b \in Chain /\ Height[b] \in Nat
    BY <1>4, ChainHeights
  <2>2. Height[b] <= committed
    BY <1>7, <1>8, <2>1
  <2> QED BY <1>1, <2>1, <2>2 DEF HeadersOK, InvHeaders
<1>9. fault' # "gap"
  BY <1>1 DEF HeadersOK, InvGap
<1> QED BY <1>1, <1>2, <1>6, <1>8, <1>9, HeadersOfChain, HeadersBegin

\* Every step of the worker keeps the headers.
LEMMA WorkerHeaders ==
    ASSUME Safe, Safe', HeadersOK, Worker \/ worker_fail
    PROVE  HeadersOK'
  BY WorkerHeadersElsewhere, PublishHeaders, PutHeaders, CommitHeaders, MarkHeaders, RemoveHeaders,
     RollbackHeightHeaders DEF Worker

-----------------------------------------------------------------------------
(* Headers: recovery *)

\* While no thread runs, only what recovery has repaired matters.
LEMMA HeadersDown ==
    ASSUME Safe', ~Up', InvHeaders', InvHeadersRepaired', fault' # "gap"
    PROVE  HeadersOK'
<1>1. wpc' = "idle"
  BY DEF Safe, Threads, InvIdle
<1>2. InvHeadersStored' /\ InvGap'
  BY <1>1 DEF InvHeadersStored, InvGap
<1> QED BY <1>2 DEF HeadersOK

\* The recovery's check for gaps finds none.
LEMMA NoGapLeft ==
    ASSUME Safe, InvDescends, Places, HeadersOK, pc = "repair_flush"
    PROVE  NoGap
<1>1. Full(index) /\ Headed(headers) /\ JournalTip = JTip /\ JTip \in Blocks
  BY SafeTip DEF Places, InvRepaired, HeadersOK, InvHeadersRepaired
<1>2. /\ \A b \in Chain : b \in Blocks \ {Root} /\ Height[b] \in Heights /\ Height[b] \in Nat
      /\ \A b, c \in Chain : Height[b] = Height[c] => b = c
      /\ NoBlock \notin Blocks
  BY ChainHeights
<1>3. ASSUME NEW h \in Heights, h <= Height[JTip]
      PROVE  \E c \in Chain : Height[c] = h
  <2>1. h \in Nat /\ h # 0
    BY HeightTypes DEF Heights
  <2>2. PICK c \in Branch[JTip] : Height[c] = h
    BY <1>1, <1>3, <2>1, BranchFull
  <2>3. c # Root
    BY <2>1, <2>2, HeightDef
  <2> QED BY <2>2, <2>3 DEF Chain, Line
<1>4. \A c \in Chain : index[c] \in 1 .. Len(proofs) /\ proofs[index[c]] = c
  <2> SUFFICES ASSUME NEW c \in Chain PROVE Readable(index[c], c)
    BY DEF Readable
  <2>1. index[c] # 0 /\ c \in Blocks
    BY <1>1, <1>2 DEF Full
  <2>2. Merged[c] = index[c]
    BY <2>1 DEF Places, InvIndex
  <2> QED BY <2>1, <2>2 DEF Places, InvIndex
<1>5. \A b \in ForwardBlocks : b \in Chain
  BY OrphansApart
<1>6. ASSUME NEW h \in Heights, h <= Height[JTip]
      PROVE  /\ headers[h] # NoBlock
             /\ index[headers[h]] \in 1 .. Len(proofs)
             /\ \A b \in ForwardBlocks : Height[b] = h =>
                   headers[h] = b /\ proofs[index[b]] # Garbage
  <2>1. PICK c \in Chain : Height[c] = h
    BY <1>3, <1>6
  <2>2. headers[h] = c
    BY <1>1, <2>1 DEF Headed
  <2>3. ASSUME NEW b \in ForwardBlocks, Height[b] = h
        PROVE  b = c
    BY <1>2, <1>5, <2>1, <2>3
  <2> QED BY <1>2, <1>4, <2>1, <2>2, <2>3 DEF Garbage
<1> QED BY <1>1, <1>6 DEF NoGap

\* Steps of the recovery that write no header, and the gap check, which passes.
LEMMA RecoveryHeadersElsewhere ==
    ASSUME Safe, Safe', InvDescends, Places, HeadersOK,
           \/ open \/ repair_sync \/ repair_index \/ check_gaps \/ replay_journal \/ replay_sync
           \/ cleanup_sync \/ recover_tip
    PROVE  HeadersOK'
<1> USE DEF store_vars, journal_vars, header_vars, recovery_step
<1>1. /\ UNCHANGED <<log, floor, committed, headers>>
      /\ headers_disk' = IF pc \in {"repair_sync", "cleanup_sync"} THEN headers ELSE headers_disk
      /\ <<pc, pc'>> \in {<<"down", "repair">>, <<"repair_sync", "repair_index">>,
                          <<"repair_index", "repair_flush">>, <<"repair_flush", "replay">>,
                          <<"replay", "replay_sync">>, <<"replay", "cleanup">>,
                          <<"replay_sync", "cleanup">>, <<"cleanup_sync", "recover_tip">>,
                          <<"recover_tip", "recover_height">>}
  BY DEF open, repair_sync, repair_index, check_gaps, replay_journal, replay_sync, cleanup_sync, recover_tip
<1>2. ~Up /\ ~Up'
  BY <1>1 DEF Up, RecoverySteps
<1>3. fault' # "gap"
  <2>1. fault # "gap"
    BY DEF HeadersOK, InvGap
  <2>2. CASE check_gaps
    <3>1. pc = "repair_flush"
      BY <2>2 DEF check_gaps
    <3>2. NoGap
      BY <3>1, NoGapLeft
    <3> QED BY <2>1, <2>2, <3>2 DEF check_gaps
  <2>3. CASE ~check_gaps
    BY <2>1, <2>3 DEF open, repair_sync, repair_index, replay_journal, replay_sync, cleanup_sync,
       recover_tip, truncate_after, bail
  <2> QED BY <2>2, <2>3
<1>4. InvHeaders' /\ Chain' = Chain
  <2>1. \A h \in Heights : /\ headers'[h] \in {headers[h], headers_disk[h]}
                           /\ headers_disk'[h] \in {headers[h], headers_disk[h]}
    BY <1>1
  <2>2. InvHeaders
    BY DEF HeadersOK
  <2> QED BY <1>1, <2>1, <2>2, MixedHeaders
<1>5. InvHeadersRepaired'
  <2>1. InvHeadersRepaired
    BY DEF HeadersOK
  <2>2. pc' \in {"repair_sync", "repair_index", "repair_flush"} \cup ReplaySteps => Headed(headers)'
    BY <1>1, <1>4, <2>1 DEF InvHeadersRepaired, ReplaySteps, Headed
  <2>3. pc' \in {"repair_index", "repair_flush"} \cup ReplaySteps => Headed(headers_disk)'
    BY <1>1, <1>4, <2>1 DEF InvHeadersRepaired, ReplaySteps, Headed
  <2>4. /\ pc' \in {"cleanup_sync", "recover_tip", "recover_height"} => Only(headers, Chain)'
        /\ pc' \in {"recover_tip", "recover_height"} => Only(headers_disk, Chain)'
    BY <1>1, <1>4, <2>1 DEF InvHeadersRepaired, Only
  <2> QED BY <2>2, <2>3, <2>4 DEF InvHeadersRepaired
<1> QED BY <1>2, <1>3, <1>4, <1>5, HeadersDown

\* Repair puts the header of every block of the chain that is missing.
LEMMA RepairHeaders ==
    ASSUME Safe, Safe', InvDescends, HeadersOK, repair
    PROVE  HeadersOK'
<1> USE DEF store_vars, journal_vars, header_vars, recovery_step
<1>1. /\ pc = "repair" /\ pc' = "repair_sync" /\ put_headers(ForwardBlocks)
      /\ UNCHANGED <<log, floor, committed, headers_disk, fault>>
  BY DEF repair
<1>2. ~Up' /\ fault' # "gap"
  BY <1>1 DEF Up, RecoverySteps, HeadersOK, InvGap
<1>3. JTip' = JTip /\ OrphanedBlocks' = OrphanedBlocks
  BY <1>1, LogFrame
<1>4. Chain' = Chain
  BY <1>3 DEF Chain, Line
<1>5. /\ \A b \in Chain : b \in Blocks \ {Root} /\ Height[b] \in Heights /\ Height[b] \in Nat
      /\ \A b, c \in Chain : Height[b] = Height[c] => b = c
  BY ChainHeights
<1>6. \A b \in ForwardBlocks : b \in Chain
  BY OrphansApart
<1>7. \A h \in Heights : headers'[h] = IF \E b \in ForwardBlocks : Height[b] = h
                                       THEN CHOOSE b \in ForwardBlocks : Height[b] = h ELSE headers[h]
  BY <1>1 DEF put_headers
<1>8. \A h \in Heights : headers'[h] = headers[h] \/ headers'[h] \in Chain
  <2> SUFFICES ASSUME NEW h \in Heights, \E b \in ForwardBlocks : Height[b] = h
               PROVE  headers'[h] \in ForwardBlocks
    BY <1>6, <1>7
  <2>1. headers'[h] = CHOOSE b \in ForwardBlocks : Height[b] = h
    BY <1>7
  <2> QED BY <2>1
<1>9. ASSUME NEW b \in Chain PROVE headers'[Height[b]] = b
  <2>1. \A c \in ForwardBlocks : Height[c] = Height[b] => c = b
    BY <1>5, <1>6
  <2>2. CASE \E c \in ForwardBlocks : Height[c] = Height[b]
    <3>1. headers'[Height[b]] = CHOOSE c \in ForwardBlocks : Height[c] = Height[b]
      BY <1>5, <1>7, <2>2
    <3> QED BY <2>1, <2>2, <3>1
  <2>3. CASE ~ \E c \in ForwardBlocks : Height[c] = Height[b]
    <3>1. Retained # {} /\ b \in Branch[Base]
      BY <2>3, OrphansApart
    <3>2. Base \in Blocks /\ Height[Base] <= committed /\ Height[Base] \in Nat /\ committed \in Nat
      BY <3>1, SafeTip, StoreFacts DEF Safe, Forest, InvForest
    <3>3. Height[b] <= Height[Base] /\ Height[b] \in Nat
      BY <1>5, <3>1, <3>2, BranchBelow
    <3>4. Height[b] <= committed
      BY <3>2, <3>3
    <3>5. headers[Height[b]] = b
      BY <3>4 DEF HeadersOK, InvHeaders
    <3> QED BY <1>5, <1>7, <2>3, <3>5
  <2> QED BY <2>2, <2>3
<1>10. Headed(headers)'
  BY <1>4, <1>9 DEF Headed
<1>11. InvHeaders'
  <2>1. Only(headers, Chain \cup OrphanedBlocks)' /\ Only(headers_disk, Chain \cup OrphanedBlocks)'
    BY <1>1, <1>3, <1>4, <1>8 DEF HeadersOK, InvHeaders, Only
  <2>2. \A b \in Chain' : Height[b] <= committed' =>
               headers'[Height[b]] = b /\ headers_disk'[Height[b]] = b
    BY <1>1, <1>4, <1>9 DEF HeadersOK, InvHeaders
  <2> QED BY <2>1, <2>2 DEF InvHeaders
<1>12. InvHeadersRepaired'
  BY <1>1, <1>10 DEF InvHeadersRepaired, ReplaySteps
<1> QED BY <1>2, <1>11, <1>12, HeadersDown

\* Clean-up removes headers of orphans only.
LEMMA CleanupHeaders ==
    ASSUME Safe, Safe', InvDescends, HeadersOK, cleanup
    PROVE  HeadersOK'
<1> USE DEF store_vars, journal_vars, header_vars, recovery_step
<1>1. /\ pc = "cleanup" /\ pc' = "cleanup_sync" /\ remove_headers(OrphanedBlocks)
      /\ UNCHANGED <<log, floor, committed, headers_disk, fault>>
  BY DEF cleanup
<1>2. ~Up' /\ fault' # "gap"
  BY <1>1 DEF Up, RecoverySteps, HeadersOK, InvGap
<1>3. JTip' = JTip /\ OrphanedBlocks' = OrphanedBlocks
  BY <1>1, LogFrame
<1>4. Chain' = Chain
  BY <1>3 DEF Chain, Line
<1>5. \A b \in Chain : b \notin OrphanedBlocks /\ Height[b] \in Heights
  BY ChainHeights, OrphansApart
<1>6. \A h \in Heights : headers'[h] = IF headers[h] \in OrphanedBlocks THEN NoBlock ELSE headers[h]
  BY <1>1 DEF remove_headers
<1>7. Headed(headers) /\ Headed(headers_disk)
  BY <1>1 DEF HeadersOK, InvHeadersRepaired, ReplaySteps
<1>8. Headed(headers)' /\ Headed(headers_disk)'
  BY <1>1, <1>4, <1>5, <1>6, <1>7 DEF Headed
<1>9. Only(headers, Chain)'
  BY <1>4, <1>6 DEF HeadersOK, InvHeaders, Only
<1>10. InvHeaders'
  <2>1. Only(headers, Chain \cup OrphanedBlocks)' /\ Only(headers_disk, Chain \cup OrphanedBlocks)'
    BY <1>1, <1>3, <1>4, <1>9 DEF HeadersOK, InvHeaders, Only
  <2> QED BY <1>8, <2>1 DEF InvHeaders, Headed
<1>11. InvHeadersRepaired'
  BY <1>1, <1>8, <1>9 DEF InvHeadersRepaired
<1> QED BY <1>2, <1>10, <1>11, HeadersDown

\* The recovered height is covered by the repaired headers.
LEMMA RecoverHeightHeaders ==
    ASSUME Safe, HeadersOK, recover_height
    PROVE  HeadersOK'
<1> USE DEF store_vars, journal_vars, header_vars, recovery_step
<1>1. /\ pc = "recover_height" /\ pc' = "idle" /\ committed' = Height[tip]
      /\ UNCHANGED <<log, floor, headers, headers_disk, fault, wpc>>
  BY DEF recover_height
<1>2. /\ ~Up /\ Up' /\ fault' # "gap"
      /\ Headed(headers) /\ Headed(headers_disk) /\ Only(headers, Chain) /\ Only(headers_disk, Chain)
  BY <1>1 DEF Up, RecoverySteps, HeadersOK, InvHeadersRepaired, ReplaySteps, InvGap
<1>3. wpc' = "idle"
  BY <1>1, <1>2 DEF Safe, Threads, InvIdle
<1>4. Chain' = Chain
  BY <1>1, LogFrame DEF Chain, Line
<1>5. /\ Only(headers, Chain)' /\ Only(headers_disk, Chain)'
      /\ \A b \in Chain' : Height[b] <= committed' =>
               headers'[Height[b]] = b /\ headers_disk'[Height[b]] = b
  BY <1>1, <1>2, <1>4 DEF Only, Headed
<1> QED BY <1>2, <1>3, <1>5, HeadersOfChain, HeadersBegin

\* Every step of the recovery keeps the headers.
LEMMA RecoveryHeaders ==
    ASSUME Safe, Safe', InvDescends, Places, HeadersOK, Recovery
    PROVE  HeadersOK'
  BY RecoveryHeadersElsewhere, RepairHeaders, CleanupHeaders, RecoverHeightHeaders DEF Recovery

-----------------------------------------------------------------------------
(* Headers: the environment, and all steps *)

\* A stop keeps every durable header.
LEMMA StopHeaders ==
    ASSUME Safe, Safe', HeadersOK, exit \/ kill \/ power_loss
    PROVE  HeadersOK'
<1> USE DEF store_vars, journal_vars, header_vars
<1>1. UNCHANGED <<log, floor, committed, fault>> /\ pc' = "down"
  BY DEF exit, kill, power_loss, process_ends
<1>2. \A h \in Heights : /\ headers'[h] \in {headers[h], headers_disk[h]}
                         /\ headers_disk'[h] \in {headers[h], headers_disk[h]}
  <2>1. CASE exit \/ kill
    BY <2>1 DEF exit, kill
  <2>2. CASE power_loss
    <3>1. headers_disk' = headers'
      BY <2>2 DEF power_loss
    <3>2. PICK kept \in SUBSET {h \in Heights : headers[h] # headers_disk[h]} :
            headers' = [h \in Heights |-> IF h \in kept THEN headers[h] ELSE headers_disk[h]]
      BY <2>2 DEF power_loss
    <3> QED BY <3>1, <3>2
  <2> QED BY <2>1, <2>2
<1>3. InvHeaders'
  BY <1>1, <1>2, MixedHeaders DEF HeadersOK
<1>4. ~Up' /\ fault' # "gap" /\ InvHeadersRepaired'
  BY <1>1 DEF Up, RecoverySteps, HeadersOK, InvGap, InvHeadersRepaired, ReplaySteps
<1> QED BY <1>3, <1>4, HeadersDown

\* Steps that touch neither journal, headers nor threads.
LEMMA OutsideHeaders ==
    ASSUME Safe, Safe', HeadersOK,
           UNCHANGED <<log, floor, committed, headers, headers_disk, dtip, wpc, command, pc, fault>>
    PROVE  HeadersOK'
<1>1. \A h \in Heights : /\ headers'[h] \in {headers[h], headers_disk[h]}
                         /\ headers_disk'[h] \in {headers[h], headers_disk[h]}
  OBVIOUS
<1>2. fault' # "gap" /\ (Up' <=> Up)
  BY DEF HeadersOK, InvGap, Up
<1>3. CASE Up
  BY <1>1, <1>2, <1>3, HeadersKept DEF SyncedSteps
<1>4. CASE ~Up
  <2>1. InvHeaders' /\ Chain' = Chain
    BY <1>1, MixedHeaders DEF HeadersOK
  <2>2. InvHeadersRepaired'
    <3>1. InvHeadersRepaired
      BY DEF HeadersOK
    <3>2. /\ Headed(headers)' = Headed(headers) /\ Headed(headers_disk)' = Headed(headers_disk)
          /\ Only(headers, Chain)' = Only(headers, Chain)
          /\ Only(headers_disk, Chain)' = Only(headers_disk, Chain)
      BY <2>1 DEF Headed, Only
    <3> QED BY <3>1, <3>2 DEF InvHeadersRepaired
  <2> QED BY <1>2, <1>4, <2>1, <2>2, HeadersDown
<1> QED BY <1>3, <1>4

\* No P2P thread has a header to store.
Unasked == peer = NoBlock

\* Every step keeps the headers, if nothing is lost and no P2P thread stores one.
LEMMA NextHeaders ==
    ASSUME Safe, Safe', InvDescends, Places, HeadersOK, Unlost, Unlost', Unasked, Unasked',
           [Next]_vars
    PROVE  HeadersOK'
<1>1. CASE Producer
  BY <1>1, ProducerHeaders, StopHeaders
<1>2. CASE Worker
  BY <1>2, WorkerHeaders
<1>3. CASE Recovery
  BY <1>3, RecoveryHeaders
<1>4. CASE Environment
  <2>1. CASE \E b \in Blocks : lose(b)
    BY <2>1 DEF lose, Unlost
  <2>2. CASE rpc_error \/ lookup_error
    BY <2>2, ProducerHeaders, StopHeaders
  <2>3. CASE worker_fail
    BY <2>3, WorkerHeaders
  <2>4. CASE kill \/ power_loss
    BY <2>4, StopHeaders
  <2>5. CASE peer_put \/ grow_heights
    BY <2>5 DEF peer_put, grow_heights, Unasked
  <2>6. CASE \/ \E t \in Blocks : reorganize(t)
             \/ set_shutdown \/ get_proof
             \/ \E b \in Blocks : peer_fetch(b) \/ get_index(b)
    BY <2>6, OutsideHeaders DEF reorganize, set_shutdown, get_proof, peer_fetch, get_index,
       store_vars, journal_vars, header_vars, producer_vars, worker_vars
  <2> QED BY <1>4, <2>1, <2>2, <2>3, <2>4, <2>5, <2>6 DEF Environment
<1>5. CASE UNCHANGED vars
  BY <1>5, OutsideHeaders DEF vars, store_vars, journal_vars, header_vars, producer_vars, worker_vars
<1> QED BY <1>1, <1>2, <1>3, <1>4, <1>5 DEF Next

\* A bridge that has never published has no headers.
LEMMA InitHeaders ==
    ASSUME Init
    PROVE  HeadersOK
<1>1. /\ headers = [h \in Heights |-> NoBlock] /\ headers_disk = headers
      /\ log = << >> /\ floor = 1 /\ pc = "down" /\ fault = "none" /\ wpc = "idle"
  BY DEF Init
<1>2. Retained = {} /\ ForwardRecords = {}
  BY <1>1 DEF Retained, ForwardRecords
<1>3. Chain = {}
  BY <1>2, BranchDef DEF JTip, Chain, Line
<1>4. \A S : Only(headers, S) /\ Only(headers_disk, S)
  BY <1>1 DEF Only
<1>5. InvHeaders
  BY <1>3, <1>4 DEF InvHeaders
<1> QED BY <1>1, <1>4, <1>5 DEF HeadersOK, InvHeadersStored, InvHeadersRepaired, ReplaySteps, InvGap

-----------------------------------------------------------------------------
(* The properties *)

Stores == InvDescends /\ InvBeside /\ Places

\* As long as nothing was lost, every entry of the index, stored or on its way,
\* is a readable proof of a block that is or was published, in the order of the
\* chain; what is committed is in it, and what a roll back left is known to the
\* journal: at every step of publication, roll back, crash and recovery.
THEOREM PlacesHold == Spec /\ []Unlost => []Stores
<1>1. Init => Stores
  BY InitPlaces DEF Stores
<1>2. Safe /\ Safe' /\ Stores /\ Unlost /\ Unlost' /\ [Next]_vars => Stores'
  BY NextDescends, NextBeside, NextPlaces DEF Stores
<1> QED BY <1>1, <1>2, Inductive, PTL DEF Spec

\* The entry of a committed block is durable and names its own proof.
LEMMA NamedProof ==
    ASSUME Safe, Stores, NEW b \in Chain, Height[b] <= committed
    PROVE  /\ index_disk[b] = index[b] /\ Merged[b] = index[b] /\ index[b] # 0
           /\ index[b] \in 1 .. proofs_synced /\ proofs[index[b]] = b /\ Readable(index[b], b)
<1>1. b \in Blocks /\ index \in [Blocks -> Nat] /\ proofs_synced \in Nat
  BY StoreFacts
<1>2. index_disk[b] # 0
  BY DEF Stores, Places, InvIndex
<1>3. index[b] = index_disk[b]
  BY <1>1, <1>2 DEF Stores, Places, InvIndex
<1>4. Merged[b] = index[b] /\ index[b] <= proofs_synced
  BY <1>1, <1>2, <1>3 DEF Stores, Places, InvIndex
<1>5. Readable(index[b], b)
  BY <1>1, <1>2, <1>3, <1>4 DEF Stores, Places, InvIndex
<1> QED BY <1>1, <1>2, <1>3, <1>4, <1>5 DEF Readable

\* As long as nothing was lost, no internal check of the two threads fails: a
\* window always extends the durable tip, a roll back names it and finds the
\* proof of its destination (PersistenceState::persist and barrier).
THEOREM ThreadsAgreed == Spec /\ []Unlost => []ThreadsAgree
<1>1. Safe /\ Stores => ThreadsAgree
  BY DEF Safe, Forest, InvChecks, Stores, Places, InvProofFaults, ThreadsAgree
<1> QED BY <1>1, Inductive, PlacesHold, PTL

\* What a request reads at a place at its block's height is that block's proof.
LEMMA ReadsAsked ==
    ASSUME Safe, Stores
    PROVE  AskedIsServed
<1> SUFFICES ASSUME asked.block \in Branch[JTip], Height[asked.block] <= committed,
                    asked.place = Height[asked.block]
             PROVE  Readable(asked.place, asked.block)
  BY SafeTip DEF AskedIsServed
<1>1. asked.block \in Blocks
  BY SafeTip, HeightTypes
<1>2. asked # NoRequest
  BY <1>1, TreeAssumption DEF NoRequest
<1>3. /\ asked.block \in Blocks \ {Root}
      /\ \A c \in Line(asked.block) : Merged[c] # 0 => Merged[c] = Height[c]
  BY <1>2 DEF Stores, Places, InvAsked
<1>4. asked.block \in Chain /\ asked.block \in Line(asked.block)
  BY <1>3, BranchEnds DEF Chain, Line
<1> QED BY <1>3, <1>4, NamedProof

\* As long as nothing was lost, a request for the proof of a committed block
\* whose place was the block's height finds that proof, however many roll backs
\* and publications there were since it read the index
\* (handle_get_utreexo_proof).
THEOREM AskedServed == Spec /\ []Unlost => []AskedIsServed
<1>1. Safe /\ Stores => AskedIsServed
  BY ReadsAsked
<1> QED BY <1>1, Inductive, PlacesHold, PTL

\* As long as nothing was lost and no P2P thread stores headers, every header,
\* cached or on the medium, is one of a block that is or was published, those
\* of committed blocks are there, and recovery finds no gap.
THEOREM HeadersHold == Spec /\ []Unlost /\ []Unasked => []HeadersOK
<1>1. Init => HeadersOK
  BY InitHeaders
<1>2. Safe /\ Safe' /\ Stores /\ Unlost /\ Unlost' /\ Unasked /\ Unasked' /\ HeadersOK /\ [Next]_vars
      => HeadersOK'
  BY NextHeaders DEF Stores
<1> QED BY <1>1, <1>2, Inductive, PlacesHold, PTL DEF Spec

\* Committed blocks have their own headers and proofs.
LEMMA Serves ==
    ASSUME Safe, Stores, HeadersOK
    PROVE  CommittedIsServed
<1> SUFFICES ASSUME NEW b \in Branch[JTip] \ {Root}, Height[b] <= committed
             PROVE  \A h \in {headers[Height[b]], headers_disk[Height[b]]},
                       n \in {index[b], index_disk[b]} : ServedFrom(b, h, n)
  BY SafeTip DEF CommittedIsServed
<1>1. b \in Chain
  BY DEF Chain, Line
<1>2. headers[Height[b]] = b /\ headers_disk[Height[b]] = b
  BY <1>1 DEF HeadersOK, InvHeaders
<1>3. /\ index_disk[b] = index[b] /\ index[b] \in 1 .. proofs_synced /\ proofs[index[b]] = b
  BY <1>1, NamedProof
<1> QED BY <1>2, <1>3 DEF ServedFrom

\* Under the same conditions every committed block of the published chain has
\* its header at its height and a readable, synced proof, in the running bridge
\* and in whatever a crash would leave, at every step.
THEOREM CommittedServed == Spec /\ []Unlost /\ []Unasked => []CommittedIsServed
<1>1. Safe /\ Stores /\ HeadersOK => CommittedIsServed
  BY Serves
<1> QED BY <1>1, Inductive, PlacesHold, HeadersHold, PTL

\* Under the same conditions no recovery finds a gap, a forest that replay
\* cannot restore, or no proof of its tip (FlatFileProver::new).
THEOREM Recovers == Spec /\ []Unlost /\ []Unasked => []RecoverySucceeds
<1>1. Safe /\ Stores /\ HeadersOK => RecoverySucceeds
  BY DEF Safe, Forest, InvChecks, Stores, Places, InvProofFaults, HeadersOK, InvGap, RecoverySucceeds
<1> QED BY <1>1, Inductive, PlacesHold, HeadersHold, PTL

\* A bridge with nothing under way has one chain in all its stores.
LEMMA Agree ==
    ASSUME Safe, Stores, HeadersOK
    PROVE  StoresAgree
<1> SUFFICES ASSUME Quiescent
             PROVE  /\ tip = dtip /\ tip = forest_tip /\ tip = JournalTip /\ touched = {}
                    /\ committed = Height[tip]
                    /\ Len(proofs) = (IF tip = Root THEN 0 ELSE index[tip])
                    /\ \A b \in Blocks \ Branch[tip] : index[b] = 0
                    /\ \A h \in Heights : headers[h] # NoBlock => headers[h] \in Branch[tip]
  BY DEF StoresAgree
<1>1. pc = "idle" /\ wpc = "idle" /\ command.kind = "none" /\ submitted = 0
  BY DEF Quiescent, NoCommand
<1>2. Up /\ Working /\ ~Restored
  BY <1>1 DEF Up, RecoverySteps, Working, Restored
<1>3. dtip = Below
  BY <1>1, <1>2 DEF Safe, Threads, InvDurable
<1>4. Len(pending) = 0
  <2>1. window = << >> /\ Len(pending) = submitted + Len(window)
    BY <1>1, <1>2 DEF Safe, Threads, InvPhases, InvPending
  <2> QED BY <1>1, <2>1
<1>5. tip = dtip
  BY <1>3, <1>4 DEF Below
<1>6. JTip = dtip /\ forest_tip = JTip /\ touched = {} /\ committed = Height[dtip]
  BY <1>1, <1>2 DEF Safe, Forest, InvWorker, InvCommitted
<1>7. JournalTip = JTip /\ JTip \in Blocks
  BY SafeTip
<1>8. indexes = NoIndexes /\ Len(proofs) = Place(JTip)
  BY <1>1, <1>2 DEF Stores, Places, InvHeld, FreshSteps
<1>9. \A b \in Blocks : Merged[b] = index[b]
  BY <1>8 DEF Merged, NoIndexes
<1>10. Len(proofs) = IF tip = Root THEN 0 ELSE index[tip]
  BY <1>5, <1>6, <1>7, <1>8, <1>9 DEF Place
<1>11. \A b \in Blocks \ Branch[tip] : index[b] = 0
  BY <1>2, <1>5, <1>6, <1>9 DEF Stores, Places, InvHeld, Line, Chain
<1>12. \A h \in Heights : headers[h] # NoBlock => headers[h] \in Branch[tip]
  BY <1>2, <1>5, <1>6 DEF HeadersOK, InvHeadersStored, Only, Line, Chain
<1> QED BY <1>5, <1>6, <1>7, <1>10, <1>11, <1>12

\* Under the same conditions an idle bridge holds exactly one chain in all its
\* stores: nothing of a roll back, a crash or a repair is left.
THEOREM Agrees == Spec /\ []Unlost /\ []Unasked => []StoresAgree
<1>1. Safe /\ Stores /\ HeadersOK => StoresAgree
  BY Agree
<1> QED BY <1>1, Inductive, PlacesHold, HeadersHold, PTL

\* Until the first request of a peer, no header of one is about.
Unrequested == requests \in Nat /\ (requests = 0 => Unasked /\ HeadersOK)

\* The request counter never falls, and a header in flight needs a request.
LEMMA RequestsGrow ==
    ASSUME [Next]_vars
    PROVE  \/ requests' = requests + 1
           \/ requests' = requests /\ peer' \in {peer, NoBlock}
<1> USE DEF env_vars, service_vars, core_vars, process_ends
<1>1. CASE Producer
  BY <1>1 DEF Producer, keep_up, reconcile_chain, wait_for_apply, reconcile_barrier, reconciled,
     sync_to_tip, reserve_persistence, stop_range, reorg_in_range, prove_block, publish_pending,
     sync, verify_durable_tip, worker_failed, exit
<1>2. CASE Worker
  BY <1>2 DEF Worker, worker_step, answer, persist, publish, append, proof_sync, put, header_sync,
     index_set, index_flush, apply_forward_batch, forest_sync, update_height, complete,
     discard_unpublished, sync_barrier, mark_rolled_back, reorg_too_deep, apply_backward,
     backward_sync, remove_header, remove_header_sync, remove_index, truncate, rollback_height,
     header_unavailable
<1>3. CASE Recovery
  BY <1>3 DEF Recovery, recovery_step, open, repair, repair_sync, repair_index, check_gaps,
     replay_journal, replay_sync, cleanup, cleanup_sync, recover_tip, recover_height
<1>4. CASE Environment
  BY <1>4 DEF Environment, reorganize, set_shutdown, rpc_error, lookup_error, worker_fail, kill,
     power_loss, lose, peer_fetch, get_index, peer_put, grow_heights, get_proof
<1>5. CASE UNCHANGED vars
  BY <1>5 DEF vars
<1> QED BY <1>1, <1>2, <1>3, <1>4, <1>5 DEF Next

\* What the recovery leaves is served.
LEMMA RecoveredFromStores ==
    ASSUME Safe, Stores, Unrequested
    PROVE  RecoveredIsServed
<1> SUFFICES ASSUME NEW b \in Branch[JTip] \ {Root}, Height[b] <= committed,
                    NEW n \in {index[b], index_disk[b]}
             PROVE  /\ n \in 1 .. proofs_synced /\ proofs[n] = b
                    /\ requests = 0 => ServedFrom(b, headers[Height[b]], n) /\ headers_disk[Height[b]] = b
  BY SafeTip DEF RecoveredIsServed
<1>1. b \in Chain
  BY DEF Chain, Line
<1>2. n \in 1 .. proofs_synced /\ proofs[n] = b
  BY <1>1, NamedProof
<1>3. requests = 0 => headers[Height[b]] = b /\ headers_disk[Height[b]] = b
  BY <1>1 DEF Unrequested, HeadersOK, InvHeaders
<1> QED BY <1>2, <1>3 DEF ServedFrom

\* As long as nothing was lost, a running bridge has a readable, synced proof
\* of every committed block, whatever its peers ask for, and its header too
\* until a peer asks.
THEOREM RecoveredServed == Spec /\ []Unlost => []RecoveredIsServed
<1>1. Init => Unrequested
  <2> SUFFICES ASSUME Init PROVE Unrequested
    OBVIOUS
  <2>1. requests = 0 /\ peer = NoBlock
    BY DEF Init
  <2>2. HeadersOK
    BY InitHeaders
  <2> QED BY <2>1, <2>2 DEF Unrequested, Unasked
<1>2. Safe /\ Safe' /\ Stores /\ Unlost /\ Unlost' /\ Unrequested /\ [Next]_vars => Unrequested'
  <2> SUFFICES ASSUME Safe, Safe', Stores, Unlost, Unlost', Unrequested, [Next]_vars
               PROVE  Unrequested'
    OBVIOUS
  <2>1. requests \in Nat /\ requests' \in Nat
    BY RequestsGrow DEF Unrequested
  <2>2. ASSUME requests' = 0 PROVE Unasked' /\ HeadersOK'
    <3>1. requests = 0 /\ peer' \in {peer, NoBlock}
      BY <2>1, <2>2, RequestsGrow
    <3>2. Unasked /\ HeadersOK /\ Unasked'
      BY <3>1 DEF Unrequested, Unasked
    <3> QED BY <3>2, NextHeaders DEF Stores
  <2> QED BY <2>1, <2>2 DEF Unrequested
<1>3. Safe /\ Stores /\ Unrequested => RecoveredIsServed
  BY RecoveredFromStores
<1> QED BY <1>1, <1>2, <1>3, Inductive, PlacesHold, PTL DEF Spec

=============================================================================
