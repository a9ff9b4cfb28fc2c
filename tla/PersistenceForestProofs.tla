---------------------- MODULE PersistenceForestProofs ----------------------
(***************************************************************************)
(* Proofs about Persistence, for any block tree, window size, retention    *)
(* and any number of reorganizations, stops, losses and requests: the      *)
(* forest against the journal, the types of all variables, and the overlay *)
(* through which the producer reads the forest.                            *)
(***************************************************************************)
EXTENDS PersistenceThreadProofs

USE DEF TipOK, PublishSteps, StoreSteps, RollbackSteps, UndoSteps

-----------------------------------------------------------------------------
(* The inductive invariant *)

\* Before the first publication nothing is committed or applied.
InvEmpty == log = << >> => committed = 0 /\ forest_tip = Root

\* Whatever the forest holds in part or in excess of the base is retained, so
\* that a replay can restore the journal's tip from it.
InvForest ==
    /\ touched \subseteq RetainedBlocks
    /\ Retained # {} =>
         /\ Branch[Base] \subseteq Branch[forest_tip]
         /\ Branch[forest_tip] \ Branch[Base] \subseteq RetainedBlocks
         /\ Height[Base] <= committed

InvCommitted == Up => committed = Height[dtip]

\* The journal's tip and the forest, as the worker's step implies them.
InvWorker ==
    Working =>
        /\ JTip = IF command.kind = "publish" /\ wpc \in StoreSteps
                  THEN LastBlock(command.blocks)
                  ELSE IF command.kind = "rollback" /\ wpc # "idle" THEN Parent[Orphan]
                  ELSE dtip
        /\ forest_tip = IF wpc \in {"append", "proof_sync", "put_headers", "header_sync",
                                    "append_batch", "index_flush", "apply", "apply_backward"}
                        THEN dtip ELSE JTip
        /\ wpc \notin {"forest_sync", "backward_sync"} => touched = {}
        /\ command.kind = "rollback" /\ wpc # "idle" => Orphan # Root

\* The window of a worker that failed is applied or it is not.
InvFailed ==
    Up /\ wpc = "failed" /\ command.kind = "publish" =>
        forest_tip \in {Parent[command.blocks[1]], LastBlock(command.blocks)}

\* The clean marker is only left behind by a bridge that has stopped working.
InvClean ==
    clean = TRUE =>
        /\ forest_tip = JTip /\ touched = {}
        /\ \/ pc = "down"
           \/ command.kind = "none" /\ after = "shutdown" /\ pc \in {"syncing", "exiting"}

\* The forest is at the journal's tip after the replay, and without one if the
\* bridge was shut down cleanly.
InvReplayed ==
    /\ pc \in RecoverySteps \ {"down"} /\ needs_replay = FALSE => forest_tip = JTip /\ touched = {}
    /\ pc \in {"cleanup", "cleanup_sync", "recover_tip", "recover_height"} =>
          forest_tip = JTip /\ touched = {}
    /\ pc = "replay_sync" => forest_tip = JTip
    /\ pc = "recover_height" => tip = JTip

InvChecks == fault \notin {"window", "rollback", "diverged", "replay"}

Forest == /\ InvLog /\ InvEmpty /\ InvForest /\ InvCommitted /\ InvWorker /\ InvFailed /\ InvClean
          /\ InvReplayed /\ InvChecks

Types == StoreTypes /\ ThreadTypes

Safe == Types /\ Threads /\ Forest

-----------------------------------------------------------------------------
(* What the invariant says of the commands *)

\* The types of the stores include those of the journal.
LEMMA StoredLog ==
    ASSUME StoreTypes
    PROVE  LogTypes
  BY DEF StoreTypes, LogTypes, Records

\* Recovery's tip is the journal's.
LEMMA SafeTip ==
    ASSUME Safe
    PROVE  /\ LogTypes /\ InvLog /\ TipOK /\ JournalTip = JTip /\ JTip \in Blocks
           /\ Retained = {} <=> log = << >>
<1>1. LogTypes /\ InvLog
  BY StoredLog DEF Safe, Types, Forest
<1>2. Retained = {} <=> log = << >>
  <2>1. Retained = {} <=> floor > Len(log)
    BY <1>1, RetainedFacts
  <2>2. log = << >> => Len(log) = 0 /\ floor = 1
    BY <1>1 DEF InvLog, LogTypes
  <2> QED BY <1>1, <2>1, <2>2, RetainedFacts DEF InvLog
<1> QED BY <1>1, <1>2, TipFacts, TipIsJournalTip DEF Safe, Types, ThreadTypes, Forest, InvEmpty

\* A forest at the journal's tip, and a committed height not below it, can be
\* replayed.
ForestAtTip ==
    /\ forest_tip = JTip /\ touched \subseteq RetainedBlocks
    /\ committed \in Nat /\ Height[JTip] <= committed

\* A forest at the journal's tip satisfies the forest's invariant.
LEMMA AtTip ==
    ASSUME LogTypes, InvLog, ForestAtTip
    PROVE  InvForest
<1>1. TipOK
  BY TipFacts
<1>2. ForwardBlocks \subseteq RetainedBlocks
  BY RetainedFacts
<1>3. Retained # {} => Height[Base] \in Nat /\ Height[JTip] \in Nat
  BY <1>1, HeightTypes
<1> QED BY <1>1, <1>2, <1>3 DEF InvForest, ForestAtTip

\* The same after a step.
LEMMA AtTipNext ==
    ASSUME LogTypes', InvLog', ForestAtTip'
    PROVE  InvForest'
<1>1. LogTypes' /\ InvLog' /\ ForestAtTip' => InvForest'
  BY AtTip, PTL
<1> QED BY <1>1

\* The window of a publication continues the block below the pending ones.
LEMMA PublishCommand ==
    ASSUME ThreadTypes, Threads, Up, command.kind = "publish"
    PROVE  /\ command.blocks \in Seq(Blocks) /\ Len(command.blocks) # 0
           /\ Below \in Blocks /\ Below = Parent[command.blocks[1]]
           /\ Extends(Below, command.blocks)
           /\ LastBlock(command.blocks) = pending[submitted]
           /\ LastBlock(command.blocks) \in Blocks \ {Root}
           /\ LastBlock(command.blocks) = command.blocks[Len(command.blocks)]
           /\ Branch[LastBlock(command.blocks)] = Branch[Below] \cup SetOf(command.blocks)
           /\ Height[LastBlock(command.blocks)] = Height[Below] + Len(command.blocks)
           /\ \A b \in SetOf(command.blocks) : b \in Blocks \ {Root} /\ b \notin Branch[Below]
           /\ wpc # "failed" => dtip = IF wpc = "prune" THEN LastBlock(command.blocks) ELSE Below
<1> DEFINE s == command.blocks
<1>1. /\ s \in Seq(Blocks) /\ submitted # 0 /\ Len(s) = submitted /\ submitted \in Nat
      /\ \A i \in 1 .. submitted : s[i] = pending[i]
      /\ pending \in Seq(Blocks) /\ Len(pending) = submitted + Len(window)
      /\ Len(window) \in Nat /\ Extends(Below, pending)
  BY DEF ThreadTypes, Threads, InvChannel, InvPending
<1>2. 1 \in 1 .. Len(pending) /\ 1 \in 1 .. Len(s) /\ Len(s) \in 1 .. Len(s) /\ Len(s) <= Len(pending)
  BY <1>1
<1>3. Below = Parent[pending[1]] /\ pending[1] \in Blocks \ {Root}
  BY <1>1, <1>2 DEF Below, Extends
<1>4. Below \in Blocks /\ Below = Parent[s[1]]
  BY <1>1, <1>2, <1>3, ParentFacts
<1>5. Extends(Below, s)
  <2>1. \A i \in 1 .. Len(s) : s[i] = pending[i]
    BY <1>1
  <2> QED BY <1>1, <1>2, <1>4, <2>1, RunTake
<1>6. LastBlock(s) = s[Len(s)] /\ LastBlock(s) = EndOf(Below, s) /\ LastBlock(s) = pending[submitted]
  BY <1>1, <1>2 DEF LastBlock, EndOf
<1>7. \A i \in 1 .. Len(s) : s[i] \in Blocks \ {Root} /\ s[i] \notin Branch[Below]
  BY <1>1, <1>4, <1>5, RunDistinct DEF Extends
<1>8. \A b \in SetOf(s) : b \in Blocks \ {Root} /\ b \notin Branch[Below]
  BY <1>7 DEF SetOf
<1>9. /\ Branch[LastBlock(s)] = Branch[Below] \cup SetOf(s)
      /\ Height[LastBlock(s)] = Height[Below] + Len(s)
  <2> HIDE DEF s
  <2>1. /\ Branch[EndOf(Below, s)] = Branch[Below] \cup SetOf(s)
        /\ Height[EndOf(Below, s)] = Height[Below] + Len(s)
    BY <1>1, <1>4, <1>5, RunEnd
  <2> QED BY <1>6, <2>1
<1>10. wpc # "failed" => dtip = IF wpc = "prune" THEN LastBlock(s) ELSE Below
  BY <1>1, <1>6 DEF Threads, InvDurable, InvChannel, Working, Restored
<1> QED BY <1>1, <1>2, <1>4, <1>5, <1>6, <1>7, <1>8, <1>9, <1>10

\* A roll back names the tip of both threads, above which nothing is pending.
LEMMA RollbackCommand ==
    ASSUME ThreadTypes, Threads, Up, command.kind = "rollback"
    PROVE  /\ Orphan = tip /\ Orphan \in Blocks /\ command.blocks = <<Orphan>>
           /\ SetOf(command.blocks) = {Orphan}
           /\ wpc # "failed" => dtip = Orphan
<1>1. command.blocks = <<tip>> /\ window = << >> /\ submitted = 0
  BY DEF Threads, InvChannel
<1>2. Orphan = tip /\ tip \in Blocks
  BY <1>1 DEF Orphan, ThreadTypes
<1>3. Len(command.blocks) = 1 /\ command.blocks[1] = tip
  BY <1>1
<1>4. SetOf(command.blocks) = {Orphan}
  BY <1>2, <1>3 DEF SetOf
<1>5. Len(pending) = 0
  BY <1>1 DEF Threads, InvPending
<1>6. wpc # "failed" => dtip = tip
  BY <1>1, <1>5 DEF Threads, InvDurable, InvChannel, Working, Restored, Below
<1> QED BY <1>1, <1>2, <1>4, <1>6

\* What a window brings is retained when it is applied.
LEMMA PublishedRetained ==
    ASSUME Safe, Up, command.kind = "publish", wpc = "apply"
    PROVE  /\ SetOf(command.blocks) \subseteq RetainedBlocks
           /\ JTip = LastBlock(command.blocks)
<1>1. JTip = LastBlock(command.blocks) /\ forest_tip = dtip
  BY DEF Safe, Forest, InvWorker, Working
<1>2. /\ LastBlock(command.blocks) # Root
      /\ Branch[LastBlock(command.blocks)] = Branch[Below] \cup SetOf(command.blocks)
      /\ \A b \in SetOf(command.blocks) : b \notin Branch[Below]
      /\ dtip = Below
  BY PublishCommand DEF Safe, Types
<1>3. TipOK /\ LogTypes
  BY SafeTip
<1>4. Retained # {}
  BY <1>1, <1>2, <1>3
<1>5. Branch[JTip] = Branch[Base] \cup ForwardBlocks /\ ForwardBlocks \subseteq RetainedBlocks
  BY <1>3, <1>4, RetainedFacts
<1>6. Branch[Base] \subseteq Branch[forest_tip]
  BY <1>4 DEF Safe, Forest, InvForest
<1> QED BY <1>1, <1>2, <1>5, <1>6

\* So is the block that a roll back removes from the forest.
LEMMA OrphanRetained ==
    ASSUME Safe, Up, command.kind = "rollback", wpc = "apply_backward"
    PROVE  /\ Orphan \in RetainedBlocks /\ Orphan \in Blocks \ {Root}
           /\ JTip = Parent[Orphan]
<1>1. JTip = Parent[Orphan] /\ forest_tip = dtip /\ Orphan # Root
  BY DEF Safe, Forest, InvWorker, Working
<1>2. dtip = Orphan /\ Orphan \in Blocks
  BY RollbackCommand DEF Safe, Types
<1>3. TipOK /\ LogTypes /\ (Retained = {} => log = << >>)
  BY SafeTip
<1>4. Retained # {}
  BY <1>1, <1>2, <1>3 DEF Safe, Forest, InvEmpty
<1>5. Base \in Branch[JTip] /\ JTip \in Blocks
  BY <1>3, <1>4
<1>6. Branch[Base] \subseteq Branch[JTip]
  BY <1>5, BranchBelow
<1>7. Orphan \notin Branch[Base]
  BY <1>1, <1>2, <1>6, BranchParent
<1>8. Branch[forest_tip] \ Branch[Base] \subseteq RetainedBlocks
  BY <1>4 DEF Safe, Forest, InvForest
<1>9. Orphan \in Branch[forest_tip]
  BY <1>1, <1>2, BranchEnds
<1> QED BY <1>1, <1>2, <1>7, <1>8, <1>9

-----------------------------------------------------------------------------
(* The worker *)

forest_frame == <<log, floor, forest_tip, touched, committed>>

\* What journal, forest and height determine stays if they do.
LEMMA ForestFrame ==
    ASSUME Forest, UNCHANGED forest_frame
    PROVE  InvLog' /\ InvEmpty' /\ InvForest' /\ JTip' = JTip
<1>1. /\ (InvLog' <=> InvLog) /\ JTip' = JTip /\ Retained' = Retained /\ Base' = Base
      /\ RetainedBlocks' = RetainedBlocks
  BY LogFrame DEF forest_frame
<1> QED BY <1>1 DEF Forest, InvEmpty, InvForest, forest_frame

\* While the threads run, the recovery's part is void.
LEMMA RunningReplayed ==
    ASSUME Up'
    PROVE  InvReplayed'
  BY DEF Up, InvReplayed, RecoverySteps

\* The marker is not there while a command is under way.
LEMMA WorkingUnclean ==
    ASSUME Safe, Up, command.kind # "none"
    PROVE  clean = FALSE
  BY DEF Safe, Types, StoreTypes, Forest, InvClean, Up, RecoverySteps

\* A step of the worker that leaves journal, forest and tips as they are.
LEMMA WorkerForestMoves ==
    ASSUME Safe, UNCHANGED forest_frame,
           UNCHANGED <<clean, pc, after, command, dtip, fault>>,
           command.kind # "none", wpc # "failed",
           \/ wpc = "idle" /\ wpc' = "publish"
           \/ /\ wpc \in {"append", "proof_sync", "put_headers", "header_sync", "append_batch", "index_flush"}
              /\ wpc' \in {"append", "proof_sync", "put_headers", "header_sync", "append_batch",
                           "index_flush", "apply"}
           \/ wpc \in UndoSteps \ {"apply_backward", "backward_sync"} /\ wpc' \in UndoSteps \ {"apply_backward", "backward_sync"}
           \/ wpc' = "failed",
           wpc' = "publish" => command.kind = "publish"
    PROVE  Forest'
<1>1. Up /\ Up' /\ Working
  BY DEF Safe, Threads, InvIdle, Up, NoCommand, Working
<1>2. InvLog' /\ InvEmpty' /\ InvForest' /\ JTip' = JTip
  BY ForestFrame DEF Safe
<1>3. InvReplayed' /\ clean = FALSE
  BY <1>1, RunningReplayed, WorkingUnclean
<1>4. InvCommitted' /\ InvChecks' /\ InvClean'
  BY <1>1, <1>3 DEF Safe, Forest, InvCommitted, InvChecks, InvClean, forest_frame
<1>5. Orphan' = Orphan /\ LastBlock(command.blocks)' = LastBlock(command.blocks)
  BY DEF Orphan, LastBlock
<1>6. InvWorker'
  BY <1>1, <1>2, <1>5 DEF Safe, Forest, InvWorker, Working, forest_frame
<1>7. InvFailed'
  <2>1. CASE command.kind = "publish"
    <3>1. /\ Below = Parent[command.blocks[1]]
          /\ dtip = IF wpc = "prune" THEN LastBlock(command.blocks) ELSE Below
      BY <1>1, <2>1, PublishCommand DEF Safe, Types
    <3>2. wpc \in PublishSteps
      BY <1>1, <2>1 DEF Safe, Threads, InvChannel
    <3>3. forest_tip \in {Parent[command.blocks[1]], LastBlock(command.blocks)}
      BY <1>1, <2>1, <3>1, <3>2 DEF Safe, Forest, InvWorker
    <3> QED BY <1>5, <3>3 DEF InvFailed, forest_frame
  <2>2. CASE command.kind # "publish"
    BY <2>2 DEF InvFailed
  <2> QED BY <2>1, <2>2
<1> QED BY <1>2, <1>3, <1>4, <1>6, <1>7 DEF Forest

\* The window always extends the worker's tip.
LEMMA PersistForest ==
    ASSUME Safe, persist
    PROVE  Forest'
<1>1. /\ command.kind = "publish" /\ wpc = "idle" /\ wpc' = "publish"
      /\ UNCHANGED forest_frame
      /\ UNCHANGED <<clean, pc, after, command, dtip>>
  BY DEF persist, Running, worker_step, store_vars, journal_vars, forest_vars, clean_vars,
     producer_vars, forest_frame
<1>2. Up
  BY <1>1 DEF Safe, Threads, InvIdle, NoCommand
<1> DEFINE s == command.blocks
           t == <<dtip>> \o s
<1>3. s \in Seq(Blocks) /\ Extends(Below, s) /\ dtip = Below /\ dtip \in Blocks
  BY <1>1, <1>2, PublishCommand DEF Safe, Types, ThreadTypes
<1>4. \A i \in 1 .. Len(t) - 1 : Parent[t[i + 1]] = t[i]
  <2>1. /\ Len(t) = Len(s) + 1 /\ t[1] = dtip
        /\ \A i \in 1 .. Len(s) : t[i + 1] = s[i]
    <3> HIDE DEF s
    <3> QED BY <1>3
  <2> HIDE DEF s, t
  <2> SUFFICES ASSUME NEW i \in 1 .. Len(t) - 1 PROVE Parent[t[i + 1]] = t[i]
    OBVIOUS
  <2>2. i \in 1 .. Len(s) /\ t[i + 1] = s[i] /\ Len(s) \in Nat
    BY <1>3, <2>1
  <2>3. Parent[s[i]] = IF i = 1 THEN dtip ELSE s[i - 1]
    BY <1>3, <2>2 DEF Extends
  <2>4. i # 1 => i - 1 \in 1 .. Len(s) /\ (i - 1) + 1 = i
    BY <2>2
  <2> QED BY <2>1, <2>2, <2>3, <2>4
<1>5. UNCHANGED fault
  BY <1>4 DEF persist
<1> QED BY <1>1, <1>5, WorkerForestMoves

\* A published window is not applied yet, and is retained.
LEMMA PublishForest ==
    ASSUME Safe, publish
    PROVE  Forest'
<1> DEFINE s == command.blocks
<1>1. /\ command.kind = "publish" /\ wpc = "publish" /\ wpc' = "append"
      /\ log' = log \o [i \in 1 .. Len(s) |-> ForwardRecord(tail[i])]
      /\ UNCHANGED <<floor, forest_tip, touched, committed, clean, pc, after, command, dtip, fault>>
  BY DEF publish, Running, worker_step, forest_vars, clean_vars, producer_vars
<1>2. Up /\ Up' /\ Working /\ Working' /\ ~Restored
  BY <1>1 DEF Safe, Threads, InvIdle, Up, NoCommand, Working, Restored, InvChannel
<1>3. /\ s \in Seq(Blocks) /\ Len(s) # 0 /\ Extends(Below, s) /\ dtip = Below /\ dtip \in Blocks
      /\ LastBlock(s) = s[Len(s)]
  BY <1>1, <1>2, PublishCommand DEF Safe, Types
<1>4. JTip = dtip /\ forest_tip = JTip /\ touched = {} /\ committed = Height[dtip]
  BY <1>1, <1>2 DEF Safe, Forest, InvWorker, InvCommitted
<1>5. \A i \in 1 .. Len(s) : tail[i] = s[i]
  BY <1>1, <1>2 DEF Safe, Threads, InvDurable, InvChannel
<1>6. [i \in 1 .. Len(s) |-> ForwardRecord(tail[i])] = [i \in 1 .. Len(s) |-> ForwardRecord(s[i])]
  BY <1>5
<1>7. LogTypes /\ InvLog /\ TipOK /\ (Retained = {} <=> log = << >>)
  BY SafeTip
<1> HIDE DEF s
<1>8. /\ LogTypes' /\ InvLog' /\ JTip' = s[Len(s)] /\ RetainedBlocks' = RetainedBlocks \cup SetOf(s)
      /\ Retained' # {}
      /\ Retained # {} => Base' = Base
      /\ Retained = {} => Base' = Root
  BY <1>1, <1>3, <1>4, <1>6, <1>7, Publication
<1>9. Retained' # {} => Base' \in Blocks
  BY <1>8, TipFactsNext
<1>10. InvForest'
  <2>1. CASE Retained = {}
    <3>1. forest_tip = Root /\ committed = 0 /\ Base' = Root
      BY <1>4, <1>7, <1>8, <2>1, HeightTypes, TreeAssumption
    <3> QED BY <1>1, <1>4, <1>8, <3>1, HeightDef, BranchDef DEF InvForest
  <2>2. CASE Retained # {}
    BY <1>1, <1>4, <1>8, <2>2 DEF InvForest, Safe, Forest
  <2> QED BY <2>1, <2>2
<1>11. InvEmpty'
  <2>1. log' # << >>
    BY <1>8 DEF Retained, LogTypes
  <2> QED BY <2>1 DEF InvEmpty
<1>12. InvReplayed' /\ clean = FALSE
  BY <1>1, <1>2, RunningReplayed, WorkingUnclean
<1>13. InvCommitted' /\ InvChecks' /\ InvClean' /\ InvFailed'
  BY <1>1, <1>2, <1>12 DEF Safe, Forest, InvCommitted, InvChecks, InvClean, InvFailed
<1>14. InvWorker'
  <2>1. LastBlock(command.blocks)' = s[Len(s)]
    BY <1>1, <1>3 DEF s, LastBlock
  <2> QED BY <1>1, <1>2, <1>4, <1>8, <2>1 DEF InvWorker
<1> QED BY <1>8, <1>10, <1>11, <1>12, <1>13, <1>14 DEF Forest

\* The forest moves to the journal's tip.
LEMMA MovesToTip ==
    ASSUME Safe, UNCHANGED <<log, floor, committed>>, forest_tip' = JTip,
           touched' \subseteq RetainedBlocks
    PROVE  InvLog' /\ InvEmpty' /\ InvForest' /\ JTip' = JTip
<1>1. /\ InvLog' /\ JTip' = JTip /\ Retained' = Retained /\ Base' = Base
      /\ RetainedBlocks' = RetainedBlocks
  BY LogFrame DEF Safe, Forest
<1>2. TipOK /\ LogTypes /\ (Retained = {} <=> log = << >>) /\ ForwardBlocks \subseteq RetainedBlocks
  BY SafeTip, RetainedFacts
<1>3. InvEmpty'
  BY <1>2 DEF InvEmpty, Safe, Forest
<1>4. InvForest'
  BY <1>1, <1>2 DEF InvForest, Safe, Forest
<1> QED BY <1>1, <1>3, <1>4

\* The blocks that are applied in part are those of the window.
LEMMA ApplyForest ==
    ASSUME Safe, apply_forward_batch
    PROVE  Forest'
<1>1. /\ command.kind = "publish" /\ wpc = "apply" /\ wpc' = "forest_sync"
      /\ forest_tip' = LastBlock(command.blocks)
      /\ touched' = touched \cup SetOf(command.blocks)
      /\ UNCHANGED <<log, floor, committed, clean, pc, after, command, dtip, fault>>
  BY DEF apply_forward_batch, Running, worker_step, journal_vars, clean_vars, producer_vars
<1>2. Up /\ Up' /\ Working /\ Working'
  BY <1>1 DEF Safe, Threads, InvIdle, Up, NoCommand, Working
<1>3. SetOf(command.blocks) \subseteq RetainedBlocks /\ JTip = LastBlock(command.blocks)
  BY <1>1, <1>2, PublishedRetained
<1>4. touched = {}
  BY <1>1, <1>2 DEF Safe, Forest, InvWorker
<1>5. InvLog' /\ InvEmpty' /\ InvForest' /\ JTip' = JTip
  BY <1>1, <1>3, <1>4, MovesToTip
<1>6. InvReplayed' /\ clean = FALSE
  BY <1>1, <1>2, RunningReplayed, WorkingUnclean
<1>7. InvCommitted' /\ InvChecks' /\ InvClean' /\ InvFailed'
  BY <1>1, <1>2, <1>6 DEF Safe, Forest, InvCommitted, InvChecks, InvClean, InvFailed
<1>8. InvWorker'
  BY <1>1, <1>2, <1>3, <1>5 DEF InvWorker, LastBlock
<1> QED BY <1>5, <1>6, <1>7, <1>8 DEF Forest

\* Once the forest is synced it holds nothing in part.
LEMMA ForestSyncForest ==
    ASSUME Safe, forest_sync \/ backward_sync
    PROVE  Forest'
<1>1. /\ \/ command.kind = "publish" /\ wpc = "forest_sync" /\ wpc' = "update_height"
         \/ command.kind = "rollback" /\ wpc = "backward_sync" /\ wpc' = "remove_header"
      /\ touched' = {}
      /\ UNCHANGED <<log, floor, forest_tip, committed, clean, pc, after, command, dtip, fault>>
  BY DEF forest_sync, backward_sync, Running, worker_step, journal_vars, clean_vars, producer_vars,
     SyncedForest
<1>2. Up /\ Up' /\ Working /\ Working'
  BY <1>1 DEF Safe, Threads, InvIdle, Up, NoCommand, Working
<1>3. forest_tip = JTip
  BY <1>1, <1>2 DEF Safe, Forest, InvWorker
<1>4. InvLog' /\ InvEmpty' /\ InvForest' /\ JTip' = JTip
  BY <1>1, <1>3, MovesToTip
<1>5. InvReplayed' /\ clean = FALSE
  BY <1>1, <1>2, RunningReplayed, WorkingUnclean
<1>6. InvCommitted' /\ InvChecks' /\ InvClean' /\ InvFailed'
  BY <1>1, <1>2, <1>5 DEF Safe, Forest, InvCommitted, InvChecks, InvClean, InvFailed
<1>7. InvWorker'
  BY <1>1, <1>2, <1>3, <1>4 DEF InvWorker, LastBlock, Orphan, Safe, Forest
<1> QED BY <1>4, <1>5, <1>6, <1>7 DEF Forest

\* The worker's tip moves to the journal's.
LEMMA CommitsTip ==
    ASSUME Safe, UNCHANGED <<log, floor, forest_tip, touched>>, forest_tip = JTip,
           committed' = Height[JTip]
    PROVE  InvLog' /\ InvEmpty' /\ InvForest' /\ JTip' = JTip
<1>1. InvLog' /\ JTip' = JTip /\ (LogTypes' <=> LogTypes) /\ RetainedBlocks' = RetainedBlocks
  BY LogFrame DEF Safe, Forest
<1>2. TipOK /\ LogTypes /\ JTip \in Blocks /\ (Retained = {} <=> log = << >>)
  BY SafeTip
<1>3. ForestAtTip'
  BY <1>1, <1>2, HeightTypes DEF ForestAtTip, Safe, Forest, InvForest
<1>4. InvForest'
  BY <1>1, <1>2, <1>3, AtTipNext
<1>5. InvEmpty'
  BY <1>2, HeightDef DEF InvEmpty
<1> QED BY <1>1, <1>4, <1>5

\* The height moves to the forest's block.
LEMMA UpdateHeightForest ==
    ASSUME Safe, update_height
    PROVE  Forest'
<1>1. /\ command.kind = "publish" /\ wpc = "update_height" /\ wpc' = "prune"
      /\ dtip' = LastBlock(command.blocks) /\ committed' = Height[dtip']
      /\ UNCHANGED <<log, floor, forest_tip, touched, clean, pc, after, command, fault>>
  BY DEF update_height, Running, worker_step, journal_vars, forest_vars, clean_vars, producer_vars
<1>2. Up /\ Up' /\ Working /\ Working'
  BY <1>1 DEF Safe, Threads, InvIdle, Up, NoCommand, Working
<1>3. forest_tip = JTip /\ JTip = LastBlock(command.blocks) /\ touched = {}
  BY <1>1, <1>2 DEF Safe, Forest, InvWorker
<1>4. InvLog' /\ InvEmpty' /\ InvForest' /\ JTip' = JTip
  BY <1>1, <1>3, CommitsTip
<1>5. InvReplayed' /\ clean = FALSE
  BY <1>1, <1>2, RunningReplayed, WorkingUnclean
<1>6. InvCommitted' /\ InvChecks' /\ InvClean' /\ InvFailed'
  BY <1>1, <1>2, <1>5 DEF Safe, Forest, InvCommitted, InvChecks, InvClean, InvFailed
<1>7. InvWorker'
  BY <1>1, <1>2, <1>3, <1>4 DEF InvWorker, LastBlock
<1> QED BY <1>4, <1>5, <1>6, <1>7 DEF Forest

\* Pruning keeps the base below the height.
LEMMA CompleteForest ==
    ASSUME Safe, complete
    PROVE  Forest'
<1>1. /\ command.kind = "publish" /\ wpc = "prune" /\ wpc' = "idle" /\ command' = NoCommand
      /\ floor' = floor \/ floor' \in ForwardRecords
      /\ UNCHANGED <<log, forest_tip, touched, committed, clean, pc, after, dtip, fault>>
  BY DEF complete, Running, worker_step, forest_vars, clean_vars, producer_vars, PruneCuts
<1>2. Up /\ Up' /\ Working /\ Working'
  BY <1>1 DEF Safe, Threads, InvIdle, Up, NoCommand, Working
<1>3. forest_tip = JTip /\ JTip = dtip /\ touched = {} /\ committed = Height[dtip]
  BY <1>1, <1>2 DEF Safe, Forest, InvWorker, InvCommitted
<1>4. LogTypes /\ InvLog /\ JTip \in Blocks
  BY SafeTip
<1>5. InvLog' /\ InvEmpty' /\ InvForest' /\ JTip' = JTip
  <2>1. CASE floor' = floor
    BY <1>1, <1>3, <2>1, ForestFrame DEF Safe, forest_frame
  <2>2. CASE floor' \in ForwardRecords
    <3>1. LogTypes' /\ InvLog' /\ JTip' = JTip
      BY <1>1, <1>4, <2>2, Pruning
    <3>2. ForestAtTip'
      BY <1>1, <1>3, <1>4, <3>1, HeightTypes DEF ForestAtTip
    <3> QED BY <1>1, <3>1, <3>2, AtTipNext DEF InvEmpty, Safe, Forest
  <2> QED BY <1>1, <2>1, <2>2
<1>6. InvReplayed' /\ clean = FALSE
  BY <1>1, <1>2, RunningReplayed, WorkingUnclean
<1>7. InvCommitted' /\ InvChecks' /\ InvClean' /\ InvFailed'
  BY <1>1, <1>2, <1>6 DEF Safe, Forest, InvCommitted, InvChecks, InvClean, InvFailed
<1>8. InvWorker'
  BY <1>1, <1>2, <1>3, <1>5 DEF InvWorker, NoCommand
<1> QED BY <1>5, <1>6, <1>7, <1>8 DEF Forest

\* Discarding what is unpublished leaves journal and forest alone.
LEMMA DiscardForest ==
    ASSUME Safe, discard_unpublished
    PROVE  Forest'
<1>1. /\ command.kind = "discard" /\ wpc = "idle" /\ wpc' = "idle" /\ command' = NoCommand
      /\ UNCHANGED forest_frame
      /\ UNCHANGED <<clean, pc, after, dtip, fault>>
  BY DEF discard_unpublished, Running, answer, worker_step, forest_vars, clean_vars, producer_vars,
     forest_frame
<1>2. Up /\ Up' /\ Working /\ Working'
  BY <1>1 DEF Safe, Threads, InvIdle, Up, NoCommand, Working
<1>3. InvLog' /\ InvEmpty' /\ InvForest' /\ JTip' = JTip
  BY <1>1, ForestFrame DEF Safe
<1>4. InvReplayed' /\ clean = FALSE
  BY <1>1, <1>2, RunningReplayed, WorkingUnclean
<1>5. InvCommitted' /\ InvChecks' /\ InvClean' /\ InvFailed'
  BY <1>1, <1>2, <1>4 DEF Safe, Forest, InvCommitted, InvChecks, InvClean, InvFailed, forest_frame
<1>6. InvWorker'
  BY <1>1, <1>2, <1>3 DEF InvWorker, NoCommand, Safe, Forest, forest_frame
<1> QED BY <1>3, <1>4, <1>5, <1>6 DEF Forest

\* The clean marker is written when forest, journal and threads agree.
LEMMA SyncForest ==
    ASSUME Safe, sync_barrier
    PROVE  Forest'
<1>1. /\ command.kind \in {"sync", "shutdown"} /\ wpc = "idle" /\ wpc' = "idle" /\ command' = NoCommand
      /\ touched' = {} /\ committed' = Height[dtip]
      /\ clean' = clean \/ (clean' = TRUE /\ command.kind = "shutdown")
      /\ UNCHANGED <<log, floor, forest_tip, pc, after, dtip, fault>>
  BY DEF sync_barrier, Running, journal_vars, producer_vars
<1>2. Up /\ Up' /\ Working /\ Working'
  BY <1>1 DEF Safe, Threads, InvIdle, Up, NoCommand, Working
<1>3. forest_tip = JTip /\ JTip = dtip /\ committed = Height[dtip] /\ touched = {}
  BY <1>1, <1>2 DEF Safe, Forest, InvWorker, InvCommitted
<1>4. InvLog' /\ InvEmpty' /\ InvForest' /\ JTip' = JTip
  BY <1>1, <1>3, ForestFrame DEF Safe, forest_frame
<1>5. command.kind = after /\ pc = "syncing"
  BY <1>1, <1>2 DEF Safe, Threads, InvChannel
<1>6. InvReplayed' /\ clean = FALSE
  BY <1>1, <1>2, RunningReplayed, WorkingUnclean
<1>7. InvCommitted' /\ InvChecks' /\ InvFailed'
  BY <1>1, <1>2 DEF Safe, Forest, InvCommitted, InvChecks, InvFailed
<1>8. InvClean'
  BY <1>1, <1>3, <1>4, <1>5, <1>6 DEF InvClean, NoCommand
<1>9. InvWorker'
  BY <1>1, <1>2, <1>3, <1>4 DEF InvWorker, NoCommand
<1> QED BY <1>4, <1>6, <1>7, <1>8, <1>9 DEF Forest

\* A roll back always finds the tip of the worker as the latest forward record.
LEMMA MarkForest ==
    ASSUME Safe, mark_rolled_back
    PROVE  Forest'
<1>1. /\ command.kind = "rollback" /\ wpc = "idle" /\ wpc' = "apply_backward" /\ ForwardRecords # {}
      /\ UNCHANGED <<floor, forest_tip, touched, committed, clean, pc, after, command, dtip>>
  BY DEF mark_rolled_back, Running, worker_step, forest_vars, clean_vars, producer_vars
<1>2. Up /\ Up' /\ Working /\ Working'
  BY <1>1 DEF Safe, Threads, InvIdle, Up, NoCommand, Working
<1>3. forest_tip = JTip /\ JTip = dtip /\ touched = {}
  BY <1>1, <1>2 DEF Safe, Forest, InvWorker
<1>4. dtip = Orphan /\ Orphan \in Blocks
  BY <1>1, <1>2, RollbackCommand DEF Safe, Types
<1>5. LogTypes /\ InvLog /\ JTip # Root /\ JTip = log[latest_forward].block
  BY <1>1, SafeTip
<1>6. log' = [log EXCEPT ![latest_forward].status = RolledBack] /\ UNCHANGED fault
  BY <1>3, <1>4, <1>5 DEF mark_rolled_back
<1>7. /\ LogTypes' /\ InvLog' /\ JTip' = Parent[JTip] /\ Retained' = Retained /\ Base' = Base
      /\ RetainedBlocks' = RetainedBlocks
  BY <1>1, <1>5, <1>6, RollingBack
<1>8. InvForest'
  BY <1>1, <1>7 DEF InvForest, Safe, Forest
<1>9. InvEmpty'
  <2>1. Retained # {}
    BY <1>1 DEF ForwardRecords
  <2>2. Retained' # {} /\ LogTypes'
    BY <1>7, <2>1
  <2>3. log' # << >>
    BY <2>2 DEF Retained, LogTypes
  <2> QED BY <2>3 DEF InvEmpty
<1>10. InvReplayed' /\ clean = FALSE
  BY <1>1, <1>2, RunningReplayed, WorkingUnclean
<1>11. InvCommitted' /\ InvChecks' /\ InvClean' /\ InvFailed'
  BY <1>1, <1>2, <1>6, <1>10 DEF Safe, Forest, InvCommitted, InvChecks, InvClean, InvFailed
<1>12. Orphan' = Orphan
  BY <1>1 DEF Orphan
<1>13. InvWorker'
  BY <1>1, <1>2, <1>3, <1>4, <1>5, <1>7, <1>12 DEF InvWorker
<1> QED BY <1>7, <1>8, <1>9, <1>10, <1>11, <1>13 DEF Forest

\* The forest goes back to the parent of the block that was rolled back.
LEMMA BackwardForest ==
    ASSUME Safe, apply_backward
    PROVE  Forest'
<1>1. /\ command.kind = "rollback" /\ wpc = "apply_backward" /\ wpc' = "backward_sync"
      /\ forest_tip' = Parent[Orphan] /\ touched' = touched \cup {Orphan}
      /\ UNCHANGED <<log, floor, committed, clean, pc, after, command, dtip, fault>>
  BY DEF apply_backward, Running, worker_step, journal_vars, clean_vars, producer_vars
<1>2. Up /\ Up' /\ Working /\ Working'
  BY <1>1 DEF Safe, Threads, InvIdle, Up, NoCommand, Working
<1>3. Orphan \in RetainedBlocks /\ JTip = Parent[Orphan] /\ Orphan # Root
  BY <1>1, <1>2, OrphanRetained
<1>4. touched = {}
  BY <1>1, <1>2 DEF Safe, Forest, InvWorker
<1>5. InvLog' /\ InvEmpty' /\ InvForest' /\ JTip' = JTip
  BY <1>1, <1>3, <1>4, MovesToTip
<1>6. InvReplayed' /\ clean = FALSE
  BY <1>1, <1>2, RunningReplayed, WorkingUnclean
<1>7. InvCommitted' /\ InvChecks' /\ InvClean' /\ InvFailed'
  BY <1>1, <1>2, <1>6 DEF Safe, Forest, InvCommitted, InvChecks, InvClean, InvFailed
<1>8. Orphan' = Orphan
  BY <1>1 DEF Orphan
<1>9. InvWorker'
  BY <1>1, <1>2, <1>3, <1>5, <1>8 DEF InvWorker
<1> QED BY <1>5, <1>6, <1>7, <1>9 DEF Forest

\* The height follows the forest back.
LEMMA RollbackHeightForest ==
    ASSUME Safe, rollback_height
    PROVE  Forest'
<1>1. /\ command.kind = "rollback" /\ wpc = "rollback_height" /\ wpc' = "idle" /\ command' = NoCommand
      /\ dtip' = Parent[Orphan] /\ committed' = Height[dtip']
      /\ UNCHANGED <<log, floor, forest_tip, touched, clean, pc, after, fault>>
  BY DEF rollback_height, Running, answer, worker_step, journal_vars, forest_vars, clean_vars,
     producer_vars
<1>2. Up /\ Up' /\ Working /\ Working'
  BY <1>1 DEF Safe, Threads, InvIdle, Up, NoCommand, Working
<1>3. forest_tip = JTip /\ JTip = Parent[Orphan] /\ touched = {}
  BY <1>1, <1>2 DEF Safe, Forest, InvWorker
<1>4. InvLog' /\ InvEmpty' /\ InvForest' /\ JTip' = JTip
  BY <1>1, <1>3, CommitsTip
<1>5. InvReplayed' /\ clean = FALSE
  BY <1>1, <1>2, RunningReplayed, WorkingUnclean
<1>6. InvCommitted' /\ InvChecks' /\ InvClean' /\ InvFailed'
  BY <1>1, <1>2, <1>5 DEF Safe, Forest, InvCommitted, InvChecks, InvClean, InvFailed
<1>7. InvWorker'
  BY <1>1, <1>2, <1>3, <1>4 DEF InvWorker, NoCommand
<1> QED BY <1>4, <1>5, <1>6, <1>7 DEF Forest

\* A worker that fails may leave the blocks of its step in part in the forest.
LEMMA WorkerFailForest ==
    ASSUME Safe, worker_fail
    PROVE  Forest'
<1>1. /\ command # NoCommand /\ wpc # "failed" /\ wpc' = "failed"
      /\ touched' = IF wpc \in {"apply", "apply_backward"}
                    THEN touched \cup SetOf(command.blocks) ELSE touched
      /\ UNCHANGED <<log, floor, forest_tip, committed, clean, pc, after, command, dtip, fault>>
  BY DEF worker_fail, journal_vars, clean_vars, producer_vars
<1>2. Up /\ Up' /\ Working /\ ~Working' /\ command.kind # "none"
  BY <1>1 DEF Safe, Threads, InvIdle, InvChannel, Up, Working
<1>3. touched' \subseteq RetainedBlocks
  <2>1. CASE wpc = "apply"
    <3>1. command.kind = "publish"
      BY <1>2, <2>1 DEF Safe, Types, ThreadTypes, Commands, Threads, InvChannel
    <3>2. SetOf(command.blocks) \subseteq RetainedBlocks
      BY <1>2, <2>1, <3>1, PublishedRetained
    <3> QED BY <1>1, <3>2 DEF Safe, Forest, InvForest
  <2>2. CASE wpc = "apply_backward"
    <3>1. command.kind = "rollback"
      BY <1>2, <2>2 DEF Safe, Types, ThreadTypes, Commands, Threads, InvChannel
    <3>2. Orphan \in RetainedBlocks /\ SetOf(command.blocks) = {Orphan}
      BY <1>2, <2>2, <3>1, OrphanRetained, RollbackCommand DEF Safe, Types
    <3> QED BY <1>1, <3>2 DEF Safe, Forest, InvForest
  <2> QED BY <1>1, <2>1, <2>2 DEF Safe, Forest, InvForest
<1>4. InvLog' /\ InvEmpty' /\ InvForest' /\ JTip' = JTip
  <2>1. /\ (InvLog' <=> InvLog) /\ JTip' = JTip /\ Retained' = Retained /\ Base' = Base
        /\ RetainedBlocks' = RetainedBlocks
    BY <1>1, LogFrame
  <2> QED BY <1>1, <1>3, <2>1 DEF Safe, Forest, InvEmpty, InvForest
<1>5. InvReplayed' /\ clean = FALSE
  BY <1>2, RunningReplayed, WorkingUnclean
<1>6. InvCommitted' /\ InvChecks' /\ InvClean' /\ InvWorker'
  BY <1>1, <1>2, <1>5 DEF Safe, Forest, InvCommitted, InvChecks, InvClean, InvWorker
<1>7. InvFailed'
  <2>1. CASE command.kind = "publish"
    <3>1. /\ Below = Parent[command.blocks[1]]
          /\ dtip = IF wpc = "prune" THEN LastBlock(command.blocks) ELSE Below
      BY <1>1, <1>2, <2>1, PublishCommand DEF Safe, Types
    <3>2. wpc \in PublishSteps
      BY <1>1, <1>2, <2>1 DEF Safe, Threads, InvChannel
    <3>3. forest_tip \in {Parent[command.blocks[1]], LastBlock(command.blocks)}
      BY <1>2, <2>1, <3>1, <3>2 DEF Safe, Forest, InvWorker
    <3> QED BY <1>1, <3>3 DEF InvFailed, LastBlock
  <2>2. CASE command.kind # "publish"
    BY <1>1, <2>2 DEF InvFailed
  <2> QED BY <2>1, <2>2
<1> QED BY <1>4, <1>5, <1>6, <1>7 DEF Forest

\* Every step of the worker keeps the forest's invariant.
LEMMA WorkerForest ==
    ASSUME Safe, Worker
    PROVE  Forest'
<1> USE DEF store_vars, journal_vars, forest_vars, clean_vars, producer_vars, Running, worker_step
<1>1. CASE \/ append \/ proof_sync \/ put \/ header_sync \/ index_set \/ index_flush
           \/ remove_header \/ remove_header_sync \/ remove_index
           \/ reorg_too_deep
  <2>1. /\ UNCHANGED forest_frame
        /\ UNCHANGED <<clean, pc, after, command, dtip, fault>>
        /\ command.kind # "none" /\ wpc # "failed" /\ wpc' # "publish"
        /\ \/ /\ wpc \in {"append", "proof_sync", "put_headers", "header_sync", "append_batch",
                          "index_flush"}
              /\ wpc' \in {"append", "proof_sync", "put_headers", "header_sync", "append_batch",
                           "index_flush", "apply"}
           \/ /\ wpc \in UndoSteps \ {"apply_backward", "backward_sync"}
              /\ wpc' \in UndoSteps \ {"apply_backward", "backward_sync"}
           \/ wpc' = "failed"
    BY <1>1 DEF append, proof_sync, put, header_sync, index_set, index_flush, remove_header,
       remove_header_sync, remove_index, reorg_too_deep, forest_frame
  <2> QED BY <2>1, WorkerForestMoves
<1>2. CASE truncate
  <2>1. /\ UNCHANGED forest_frame
        /\ UNCHANGED <<clean, pc, after, command, dtip>>
        /\ command.kind = "rollback" /\ wpc = "truncate" /\ wpc' = "rollback_height"
        /\ fault' = fault \/ fault' = "truncate"
    BY <1>2 DEF truncate, truncate_after, bail, forest_frame
  <2> QED
    <3>1. Up /\ Up' /\ Working /\ Working'
      BY <2>1 DEF Safe, Threads, InvIdle, Up, NoCommand, Working
    <3>2. InvLog' /\ InvEmpty' /\ InvForest' /\ JTip' = JTip
      BY <2>1, ForestFrame DEF Safe
    <3>3. InvReplayed' /\ clean = FALSE
      BY <2>1, <3>1, RunningReplayed, WorkingUnclean
    <3>4. InvCommitted' /\ InvChecks' /\ InvClean' /\ InvFailed'
      BY <2>1, <3>1, <3>3 DEF Safe, Forest, InvCommitted, InvChecks, InvClean, InvFailed,
         forest_frame
    <3>5. InvWorker'
      BY <2>1, <3>1, <3>2 DEF Safe, Forest, InvWorker, Orphan, LastBlock, forest_frame
    <3> QED BY <3>2, <3>3, <3>4, <3>5 DEF Forest
<1>3. CASE header_unavailable
  <2>1. /\ UNCHANGED forest_frame
        /\ UNCHANGED <<clean, pc, after, command, dtip, fault>>
        /\ wpc' = "failed"
        /\ \/ command.kind \in {"sync", "shutdown"} /\ wpc = "idle"
           \/ wpc \in {"put_headers", "header_sync", "remove_header", "remove_header_sync"}
    BY <1>3 DEF header_unavailable, forest_frame
  <2>2. command.kind = "none" => wpc = "idle"
    BY DEF Safe, Threads, InvIdle, InvChannel
  <2> QED BY <2>1, <2>2, WorkerForestMoves
<1> QED BY <1>1, <1>2, <1>3, PersistForest, PublishForest, ApplyForest, ForestSyncForest,
           UpdateHeightForest, CompleteForest, DiscardForest, SyncForest, MarkForest,
           BackwardForest, RollbackHeightForest DEF Worker

-----------------------------------------------------------------------------
(* The producer *)

\* A step of the producer changes neither journal nor forest; at most it puts a
\* command in front of an idle worker.
LEMMA ProducerForestMoves ==
    ASSUME Safe, UNCHANGED forest_frame, UNCHANGED <<clean, wpc, dtip>>,
           Up, Up', clean = FALSE,
           \/ UNCHANGED command
           \/ wpc = "idle" /\ command.kind = "none",
           fault' = fault
    PROVE  Forest'
<1>1. InvLog' /\ InvEmpty' /\ InvForest' /\ JTip' = JTip
  BY ForestFrame DEF Safe
<1>2. InvReplayed'
  BY RunningReplayed
<1>3. InvCommitted' /\ InvChecks' /\ InvClean'
  BY DEF Safe, Forest, InvCommitted, InvChecks, InvClean, forest_frame
<1>4. CASE UNCHANGED command
  <2>1. Orphan' = Orphan /\ LastBlock(command.blocks)' = LastBlock(command.blocks)
    BY <1>4 DEF Orphan, LastBlock
  <2>2. InvWorker'
    BY <1>1, <1>4, <2>1 DEF Safe, Forest, InvWorker, Working, forest_frame
  <2>3. InvFailed'
    BY <1>4, <2>1 DEF Safe, Forest, InvFailed, forest_frame
  <2> QED BY <1>1, <1>2, <1>3, <2>2, <2>3 DEF Forest
<1>5. CASE wpc = "idle" /\ command.kind = "none"
  <2>1. InvWorker' /\ InvFailed'
    BY <1>1, <1>5 DEF Safe, Forest, InvWorker, InvFailed, Working, forest_frame
  <2> QED BY <1>1, <1>2, <1>3, <2>1 DEF Forest
<1> QED BY <1>4, <1>5

\* The marker is there only where the producer leaves.
LEMMA ProducingUnclean ==
    ASSUME Safe, Up, pc \notin {"syncing", "exiting"}
    PROVE  clean = FALSE
  BY DEF Safe, Types, StoreTypes, Forest, InvClean, Up, RecoverySteps

\* The check of the durable tip passes.
LEMMA VerifyForest ==
    ASSUME Safe, verify_durable_tip
    PROVE  Forest'
<1>1. /\ pc = "syncing" /\ pc' = IF after = "shutdown" THEN "exiting" ELSE "idle"
      /\ reply = TRUE
      /\ UNCHANGED forest_frame
      /\ UNCHANGED <<clean, after, tip, command, wpc, dtip>>
      /\ IF dtip = tip /\ forest_tip = tip THEN UNCHANGED fault ELSE bail("diverged")
  BY DEF verify_durable_tip, store_vars, journal_vars, forest_vars, clean_vars, forest_frame,
     Safe, Types, ThreadTypes
<1>2. Up /\ Up' /\ ~Restored
  BY <1>1 DEF Up, RecoverySteps, Restored
<1>3. command.kind = "none" /\ submitted = 0 /\ window = << >> /\ wpc = "idle"
  BY <1>1, <1>2 DEF Safe, Threads, InvChannel, InvPhases
<1>4. Len(pending) = 0
  BY <1>2, <1>3 DEF Safe, Threads, InvPending
<1>5. dtip = tip
  BY <1>2, <1>3, <1>4 DEF Safe, Threads, InvDurable, Working, Below
<1>6. forest_tip = dtip
  BY <1>2, <1>3 DEF Safe, Forest, InvWorker, Working
<1>7. UNCHANGED fault
  BY <1>1, <1>5, <1>6
<1>8. CASE clean = FALSE
  BY <1>1, <1>2, <1>7, <1>8, ProducerForestMoves
<1>9. CASE clean = TRUE
  <2>1. InvLog' /\ InvEmpty' /\ InvForest' /\ JTip' = JTip
    BY <1>1, ForestFrame DEF Safe
  <2>2. InvReplayed'
    BY <1>2, RunningReplayed
  <2>3. InvClean'
    BY <1>1, <1>9, <2>1 DEF Safe, Forest, InvClean, forest_frame
  <2>4. InvCommitted' /\ InvChecks' /\ InvFailed'
    BY <1>1, <1>2, <1>3, <1>7 DEF Safe, Forest, InvCommitted, InvChecks, InvFailed, forest_frame
  <2>5. InvWorker'
    BY <1>1, <1>2, <1>3, <2>1 DEF Safe, Forest, InvWorker, Working, forest_frame
  <2> QED BY <2>1, <2>2, <2>3, <2>4, <2>5 DEF Forest
<1> QED BY <1>8, <1>9 DEF Safe, Types, StoreTypes

\* A process that ends leaves the stores as they are.
LEMMA EndForest ==
    ASSUME Safe, UNCHANGED forest_frame, process_ends, UNCHANGED <<clean, fault>>
    PROVE  Forest'
<1>1. /\ pc' = "down" /\ command' = NoCommand
  BY DEF process_ends
<1>2. ~Up' /\ ~Working'
  BY <1>1 DEF Up, RecoverySteps, Working
<1>3. InvLog' /\ InvEmpty' /\ InvForest' /\ JTip' = JTip
  BY ForestFrame DEF Safe
<1>4. InvReplayed' /\ InvCommitted' /\ InvWorker' /\ InvFailed'
  BY <1>1, <1>2 DEF InvReplayed, InvCommitted, InvWorker, InvFailed
<1>5. InvClean' /\ InvChecks'
  BY <1>1, <1>3 DEF Safe, Forest, InvClean, InvChecks, forest_frame
<1> QED BY <1>3, <1>4, <1>5 DEF Forest

\* Every step of the producer keeps the forest's invariant.
LEMMA ProducerForest ==
    ASSUME Safe, Producer \/ rpc_error \/ lookup_error
    PROVE  Forest'
<1> USE DEF store_vars, journal_vars, forest_vars, clean_vars, worker_vars, forest_frame
<1>1. CASE \/ keep_up \/ reconcile_chain \/ lookup_error \/ wait_for_apply \/ reconciled
           \/ sync_to_tip \/ reserve_persistence \/ stop_range \/ reorg_in_range \/ rpc_error
           \/ prove_block
  <2>1. /\ UNCHANGED forest_frame /\ UNCHANGED <<clean, wpc, dtip, command, fault>>
        /\ pc \in ProducerSteps \ {"syncing", "exiting"} /\ pc' \in ProducerSteps
    BY <1>1 DEF keep_up, reconcile_chain, lookup_error, wait_for_apply, reconciled, sync_to_tip,
       reserve_persistence, stop_range, reorg_in_range, rpc_error, prove_block, ProducerSteps
  <2>2. Up /\ Up' /\ clean = FALSE
    BY <2>1, StepNames, ProducingUnclean DEF Up
  <2> QED BY <2>1, <2>2, ProducerForestMoves
<1>2. CASE reconcile_barrier \/ publish_pending \/ sync
  <2>1. /\ UNCHANGED forest_frame /\ UNCHANGED <<clean, wpc, dtip, fault>>
        /\ pc \in {"reconcile_drain", "publish", "drain"} /\ pc' \in ProducerSteps
        /\ UNCHANGED command \/ (submitted = 0 /\ wpc # "failed")
    BY <1>2 DEF reconcile_barrier, publish_pending, sync, WorkerAlive, Drained, ProducerSteps
  <2>2. Up /\ Up' /\ clean = FALSE
    <3>1. pc \in ProducerSteps
      BY <2>1 DEF ProducerSteps
    <3> QED BY <2>1, <3>1, StepNames, ProducingUnclean DEF Up
  <2>3. submitted = 0 => command.kind = "none" \/ wpc = "failed"
    BY <2>1, <2>2 DEF Safe, Types, ThreadTypes, Commands, Threads, InvChannel
  <2>4. command.kind = "none" => wpc = "idle"
    BY <2>2 DEF Safe, Threads, InvChannel
  <2> QED BY <2>1, <2>2, <2>3, <2>4, ProducerForestMoves
<1>3. CASE worker_failed
  <2>1. /\ UNCHANGED forest_frame /\ UNCHANGED <<clean, wpc, dtip, command, fault>>
        /\ pc \in ProducerSteps /\ pc' \in ProducerSteps /\ wpc = "failed"
    BY <1>3 DEF worker_failed, ProducerSteps
  <2>2. Up /\ Up'
    BY <2>1, StepNames DEF Up
  <2>3. command.kind # "none"
    BY <2>1, <2>2 DEF Safe, Threads, InvChannel
  <2>4. clean = FALSE
    BY <2>2, <2>3, WorkingUnclean
  <2> QED BY <2>1, <2>2, <2>4, ProducerForestMoves
<1>4. CASE exit
  BY <1>4, EndForest DEF exit
<1> QED BY <1>1, <1>2, <1>3, <1>4, VerifyForest DEF Producer

-----------------------------------------------------------------------------
(* Recovery and the environment *)

\* Every step of the recovery keeps the forest's invariant, and its replay succeeds.
LEMMA RecoveryForest ==
    ASSUME Safe, Recovery
    PROVE  Forest'
<1> USE DEF store_vars, journal_vars, forest_vars, clean_vars, forest_frame, recovery_step
<1>1. LogTypes /\ InvLog /\ TipOK /\ JournalTip = JTip /\ JTip \in Blocks
      /\ (Retained = {} <=> log = << >>)
  BY SafeTip
<1>2. pc \in RecoverySteps /\ ~Up /\ (pc # "down" => clean = FALSE)
  <2>1. pc \in RecoverySteps
    BY DEF Recovery, open, repair, repair_sync, repair_index, check_gaps, replay_journal,
       replay_sync, cleanup, cleanup_sync, recover_tip, recover_height, RecoverySteps
  <2>2. pc \notin {"syncing", "exiting"}
    BY <2>1 DEF RecoverySteps
  <2> QED BY <2>1, <2>2 DEF Up, Safe, Types, StoreTypes, Forest, InvClean
<1>3. CASE open
  <2>1. /\ pc = "down" /\ pc' = "repair" /\ clean' = FALSE /\ needs_replay' = ~clean
        /\ UNCHANGED forest_frame /\ UNCHANGED fault
    BY <1>3 DEF open
  <2>2. InvLog' /\ InvEmpty' /\ InvForest' /\ JTip' = JTip
    BY <2>1, ForestFrame DEF Safe
  <2>3. ~Up' /\ ~Working'
    BY <2>1 DEF Up, Working, RecoverySteps
  <2>4. InvReplayed'
    <3>1. needs_replay' = FALSE => clean = TRUE
      BY <2>1 DEF Safe, Types, StoreTypes
    <3> QED BY <2>1, <2>2, <3>1 DEF InvReplayed, Safe, Forest, InvClean
  <2> QED BY <2>1, <2>2, <2>3, <2>4 DEF Forest, InvCommitted, InvWorker, InvFailed, InvClean,
             InvChecks, Safe
<1>4. CASE \/ repair \/ repair_sync \/ repair_index \/ check_gaps \/ cleanup \/ cleanup_sync
           \/ recover_tip
  <2>1. /\ UNCHANGED forest_frame /\ UNCHANGED <<clean, needs_replay>>
        /\ pc \in RecoverySteps \ {"down", "recover_height"} /\ pc' \in RecoverySteps \ {"down", "replay_sync"}
        /\ pc' \in {"cleanup", "cleanup_sync", "recover_tip", "recover_height"} =>
              pc \in {"cleanup", "cleanup_sync", "recover_tip", "recover_height"}
        /\ pc' = "recover_height" => tip' = JTip
        /\ fault' = fault \/ fault' \in {"gap", "truncate", "recovered tip"}
    BY <1>1, <1>4 DEF repair, repair_sync, repair_index, check_gaps, cleanup, cleanup_sync, recover_tip,
       RecoverySteps, bail, truncate_after
  <2>2. InvLog' /\ InvEmpty' /\ InvForest' /\ JTip' = JTip
    BY <2>1, ForestFrame DEF Safe
  <2>3. ~Up' /\ ~Working'
    BY <2>1 DEF Up, Working
  <2>4. InvReplayed'
    BY <2>1, <2>2 DEF InvReplayed, Safe, Forest
  <2> QED BY <1>2, <2>1, <2>2, <2>3, <2>4 DEF Forest, InvCommitted, InvWorker, InvFailed,
             InvClean, InvChecks, Safe
<1>5. CASE replay_journal
  <2>1. pc = "replay" /\ UNCHANGED <<log, floor, committed, clean, needs_replay>> /\ pc' \in {"replay_sync", "cleanup"}
    BY <1>5 DEF replay_journal
  <2>2. ~Up' /\ ~Working'
    BY <2>1 DEF Up, Working, RecoverySteps
  <2>3. CASE needs_replay = TRUE
    <3>1. /\ forest_tip' = JTip /\ touched' = touched \cup RetainedBlocks /\ pc' = "replay_sync"
          /\ IF Replayable THEN UNCHANGED fault ELSE bail("replay")
      BY <1>1, <1>5, <2>3 DEF replay_journal
    <3>2. touched \subseteq RetainedBlocks
      BY DEF Safe, Forest, InvForest
    <3>3. Replayable
      BY <1>1, <3>2 DEF Replayable, Safe, Forest, InvForest, InvEmpty
    <3>4. InvLog' /\ InvEmpty' /\ InvForest' /\ JTip' = JTip
      BY <2>1, <3>1, <3>2, MovesToTip
    <3>5. InvReplayed'
      BY <2>1, <2>3, <3>1, <3>4 DEF InvReplayed
    <3> QED BY <1>2, <2>1, <2>2, <3>1, <3>3, <3>4, <3>5 DEF Forest, InvCommitted, InvWorker, InvFailed,
               InvClean, InvChecks, Safe
  <2>4. CASE needs_replay = FALSE
    <3>1. UNCHANGED forest_frame /\ UNCHANGED fault /\ pc' = "cleanup"
      BY <1>5, <2>4 DEF replay_journal
    <3>2. forest_tip = JTip /\ touched = {}
      BY <2>1, <2>4 DEF Safe, Forest, InvReplayed, RecoverySteps
    <3>3. InvLog' /\ InvEmpty' /\ InvForest' /\ JTip' = JTip
      BY <3>1, ForestFrame DEF Safe
    <3>4. InvReplayed'
      BY <3>1, <3>2, <3>3 DEF InvReplayed
    <3> QED BY <1>2, <2>1, <2>2, <3>1, <3>3, <3>4 DEF Forest, InvCommitted, InvWorker, InvFailed,
               InvClean, InvChecks, Safe
  <2> QED BY <2>3, <2>4 DEF Safe, Types, StoreTypes
<1>6. CASE replay_sync
  <2>1. /\ pc = "replay_sync" /\ pc' = "cleanup" /\ touched' = {}
        /\ UNCHANGED <<log, floor, committed, forest_tip, clean, fault>>
    BY <1>6 DEF replay_sync
  <2>2. forest_tip = JTip
    BY <2>1 DEF Safe, Forest, InvReplayed
  <2>3. InvLog' /\ InvEmpty' /\ InvForest' /\ JTip' = JTip
    BY <2>1, <2>2, MovesToTip
  <2>4. ~Up' /\ ~Working'
    BY <2>1 DEF Up, Working, RecoverySteps
  <2>5. InvReplayed'
    BY <2>1, <2>2, <2>3 DEF InvReplayed
  <2> QED BY <1>2, <2>1, <2>3, <2>4, <2>5 DEF Forest, InvCommitted, InvWorker, InvFailed,
             InvClean, InvChecks, Safe
<1>7. CASE recover_height
  <2>1. /\ pc = "recover_height" /\ pc' = "idle" /\ committed' = Height[tip]
        /\ UNCHANGED <<log, floor, forest_tip, touched, clean, tip, dtip, command, wpc, fault>>
    BY <1>7 DEF recover_height
  <2>2. forest_tip = JTip /\ touched = {} /\ tip = JTip
    BY <2>1 DEF Safe, Forest, InvReplayed
  <2>3. dtip = tip /\ command = NoCommand /\ wpc = "idle"
    BY <1>2, <2>1 DEF Safe, Threads, InvIdle
  <2>4. InvLog' /\ InvEmpty' /\ InvForest' /\ JTip' = JTip
    BY <2>1, <2>2, CommitsTip
  <2>5. Up' /\ Working'
    BY <2>1, <2>3 DEF Up, Working, RecoverySteps
  <2>6. InvReplayed'
    BY <2>5, RunningReplayed
  <2>7. InvWorker'
    BY <2>1, <2>2, <2>3, <2>4, <2>5 DEF InvWorker, NoCommand
  <2>8. InvCommitted' /\ InvFailed'
    BY <2>1, <2>3, <2>5 DEF InvCommitted, InvFailed
  <2>9. InvClean' /\ InvChecks'
    BY <1>2, <2>1 DEF Safe, Forest, InvClean, InvChecks
  <2> QED BY <2>4, <2>6, <2>7, <2>8, <2>9 DEF Forest
<1> QED BY <1>3, <1>4, <1>5, <1>6, <1>7 DEF Recovery

\* A step that leaves everything the forest's invariant is about.
LEMMA UnchangedForest ==
    ASSUME Safe, UNCHANGED forest_frame,
           UNCHANGED <<clean, needs_replay, pc, after, tip, command, wpc, dtip, fault>>
    PROVE  Forest'
<1>1. InvLog' /\ InvEmpty' /\ InvForest' /\ JTip' = JTip
  BY ForestFrame DEF Safe
<1>2. Orphan' = Orphan /\ LastBlock(command.blocks)' = LastBlock(command.blocks)
  BY DEF Orphan, LastBlock
<1>3. InvCommitted' /\ InvFailed' /\ InvChecks'
  BY <1>2 DEF Safe, Forest, InvCommitted, InvFailed, InvChecks, Up, forest_frame
<1>4. InvWorker'
  BY <1>1, <1>2 DEF Safe, Forest, InvWorker, Working, Up, forest_frame
<1>5. InvClean' /\ InvReplayed'
  BY <1>1 DEF Safe, Forest, InvClean, InvReplayed, forest_frame
<1> QED BY <1>1, <1>3, <1>4, <1>5 DEF Forest

\* Core, stops, losses and peers keep the forest's invariant.
LEMMA EnvironmentForest ==
    ASSUME Safe, Environment
    PROVE  Forest'
<1> USE DEF store_vars, journal_vars, forest_vars, clean_vars, worker_vars, producer_vars
<1>1. CASE \/ \E t \in Blocks : reorganize(t)
           \/ set_shutdown
           \/ \E b \in Blocks : lose(b) \/ peer_fetch(b) \/ get_index(b)
           \/ peer_put \/ grow_heights \/ get_proof
  <2>1. UNCHANGED forest_frame /\ UNCHANGED <<clean, needs_replay, pc, after, tip, command, wpc, dtip, fault>>
    BY <1>1 DEF reorganize, set_shutdown, lose, peer_fetch, get_index, peer_put, grow_heights,
       get_proof, forest_frame
  <2> QED BY <2>1, UnchangedForest
<1>2. CASE kill \/ power_loss
  <2>1. UNCHANGED forest_frame /\ process_ends /\ UNCHANGED <<clean, fault>>
    BY <1>2 DEF kill, power_loss, forest_frame
  <2> QED BY <2>1, EndForest
<1> QED BY <1>1, <1>2, WorkerFailForest, ProducerForest DEF Environment

\* Every step keeps the forest's invariant.
LEMMA NextForest ==
    ASSUME Safe, [Next]_vars
    PROVE  Forest'
<1>1. CASE UNCHANGED vars
  <2>1. UNCHANGED forest_frame /\ UNCHANGED <<clean, needs_replay, pc, after, tip, command, wpc, dtip, fault>>
    BY <1>1 DEF vars, store_vars, journal_vars, forest_vars, clean_vars, worker_vars, producer_vars,
       forest_frame
  <2> QED BY <2>1, UnchangedForest
<1> QED BY <1>1, ProducerForest, WorkerForest, RecoveryForest, EnvironmentForest DEF Next

-----------------------------------------------------------------------------
(* Types *)

\* A process that ends leaves its variables at their initial values.
LEMMA EndTypes ==
    ASSUME active' \in Blocks, process_ends
    PROVE  ThreadTypes'
<1>1. /\ pc' = "down" /\ after' = "range" /\ tip' = Root /\ goal' = 0
      /\ window' = << >> /\ pending' = << >> /\ submitted' = 0 /\ shutdown' = FALSE
      /\ command' = NoCommand /\ wpc' = "idle" /\ dtip' = Root /\ indexes' = NoIndexes
      /\ completed' = 0 /\ reply' = FALSE
      /\ peer' = NoBlock /\ asked' = NoRequest /\ heights_open' = TRUE
  BY DEF process_ends
<1>2. NoCommand \in [kind : Commands, blocks : Seq(Blocks)]
  BY DEF NoCommand, Commands
<1>3. NoIndexes \in [Blocks -> Nat]
  BY DEF NoIndexes
<1>4. NoRequest \in [block : Blocks \cup {NoBlock}, place : Nat]
  BY DEF NoRequest
<1>5. "down" \in RecoverySteps
  BY DEF RecoverySteps
<1>6. << >> \in Seq(Blocks)
  OBVIOUS
<1>7. /\ tip' \in Blocks /\ dtip' \in Blocks /\ goal' \in Heights \cup {0}
      /\ window' \in Seq(Blocks) /\ pending' \in Seq(Blocks)
      /\ submitted' \in Nat /\ completed' \in Nat
  BY <1>1, <1>6, TreeAssumption
<1>8. /\ command' \in [kind : Commands, blocks : Seq(Blocks)]
      /\ indexes' \in [Blocks -> Nat]
      /\ asked' \in [block : Blocks \cup {NoBlock}, place : Nat]
      /\ pc' \in RecoverySteps
  BY <1>1, <1>2, <1>3, <1>4, <1>5
<1>9. /\ reply' \in BOOLEAN /\ shutdown' \in BOOLEAN /\ heights_open' \in BOOLEAN
      /\ peer' \in Blocks \cup {NoBlock}
      /\ after' \in {"range", "bail", "sync", "shutdown"}
      /\ wpc' \in PublishSteps
  BY <1>1
<1> QED BY <1>7, <1>8, <1>9 DEF ThreadTypes

\* Every step of the producer keeps the types.
LEMMA ProducerTypes ==
    ASSUME Safe, Producer \/ rpc_error \/ lookup_error
    PROVE  Types'
<1> USE DEF store_vars, journal_vars, clean_vars, worker_vars, env_vars, core_vars, service_vars
<1>1. StoreTypes /\ ThreadTypes
  BY DEF Safe, Types
<1>2. StoreTypes'
  <2>1. CASE prove_block
    <3>1. PICK b \in Blocks \ {Root} : tail' = Append(tail, b)
      BY <1>1, <2>1, ProvedBlock
    <3>2. /\ UNCHANGED <<log, floor, forest_vars, header_vars, proof_vars, index_vars, committed,
                         clean_vars>>
      BY <2>1 DEF prove_block
    <3>3. tail' \in Seq(Blocks)
      BY <1>1, <3>1 DEF StoreTypes
    <3> QED BY <1>1, <3>2, <3>3 DEF StoreTypes, forest_vars, header_vars, proof_vars, index_vars
  <2>2. CASE exit
    <3>1. UNCHANGED <<store_vars, clean>> /\ needs_replay' = TRUE
      BY <2>2 DEF exit, process_ends
    <3> QED BY <1>1, <3>1 DEF StoreTypes, forest_vars, header_vars, proof_vars, index_vars
  <2>3. CASE ~prove_block /\ ~exit
    <3>1. UNCHANGED <<store_vars, clean_vars>>
      BY <2>3 DEF Producer, rpc_error, lookup_error, keep_up, reconcile_chain, wait_for_apply,
         reconcile_barrier, reconciled, sync_to_tip, reserve_persistence, stop_range,
         reorg_in_range, publish_pending, sync, verify_durable_tip, worker_failed
    <3> QED BY <1>1, <3>1 DEF StoreTypes, forest_vars, header_vars, proof_vars, index_vars
  <2> QED BY <2>1, <2>2, <2>3
<1>3. ThreadTypes'
  <2> USE DEF ThreadTypes, ProducerSteps
  <2>0. << >> \in Seq(Blocks)
    OBVIOUS
  <2>1. CASE keep_up \/ stop_range \/ reorg_in_range \/ rpc_error \/ worker_failed
    BY <1>1, <2>1, SMTT(30) DEF keep_up, stop_range, reorg_in_range, rpc_error, worker_failed
  <2>2. ASSUME retire_apply, Up PROVE pending' \in Seq(Blocks) /\ submitted' \in Nat /\ completed' \in Nat
    <3>1. completed <= submitted
      BY <1>1, <2>2 DEF Safe, Threads, InvChannel
    <3> QED BY <1>1, <2>2, <3>1 DEF retire_apply, retired_pending
  <2>3. CASE reconcile_chain \/ lookup_error \/ wait_for_apply
    <3>1. /\ retire_apply /\ pc \in ProducerSteps /\ pc' \in ProducerSteps
          /\ UNCHANGED <<active, after, tip, goal, window, command, wpc, dtip, indexes, reply, shutdown,
                         peer, asked, heights_open>>
      BY <2>3 DEF reconcile_chain, lookup_error, wait_for_apply
    <3>2. Up
      BY <3>1, StepNames DEF Up
    <3> QED BY <1>1, <2>2, <3>1, <3>2
  <2>4. CASE reserve_persistence
    <3>1. /\ pc \in ProducerSteps /\ pc' \in ProducerSteps
          /\ after' = after \/ after' = "sync"
          /\ UNCHANGED <<active, tip, goal, window, command, wpc, dtip, indexes, reply, shutdown,
                         peer, asked, heights_open>>
          /\ retire_apply \/ UNCHANGED <<pending, submitted, completed>>
      BY <2>4 DEF reserve_persistence
    <3>2. Up
      BY <3>1, StepNames DEF Up
    <3> QED BY <1>1, <2>2, <3>1, <3>2
  <2>5. CASE reconcile_barrier \/ sync
    <3>1. /\ pc' \in ProducerSteps
          /\ UNCHANGED <<active, after, tip, goal, window, pending, submitted, completed, wpc, dtip, indexes,
                         reply, shutdown, peer, asked, heights_open>>
          /\ \/ command' = [kind |-> "discard", blocks |-> << >>]
             \/ command' = [kind |-> "rollback", blocks |-> <<tip>>]
             \/ command' = [kind |-> after, blocks |-> << >>] /\ pc = "drain"
      BY <2>5 DEF reconcile_barrier, sync, send
    <3>2. pc = "drain" => after \in {"sync", "shutdown"}
      BY DEF Safe, Threads, InvPhases
    <3>3. command' \in [kind : Commands, blocks : Seq(Blocks)]
      <4>1. <<tip>> \in Seq(Blocks) /\ << >> \in Seq(Blocks)
        BY <1>1
      <4>2. {"discard", "rollback", "sync", "shutdown"} \subseteq Commands
        BY DEF Commands
      <4>3. \A k \in Commands, t \in Seq(Blocks) :
               [kind |-> k, blocks |-> t] \in [kind : Commands, blocks : Seq(Blocks)]
        OBVIOUS
      <4> QED BY <3>1, <3>2, <4>1, <4>2, <4>3
    <3> QED BY <1>1, <3>1, <3>3
  <2>6. CASE reconciled \/ verify_durable_tip
    <3>1. /\ pc' \in ProducerSteps /\ reply' = FALSE
          /\ UNCHANGED <<active, after, goal, submitted, completed, wpc, command, dtip, indexes,
                         shutdown, peer, asked, heights_open>>
          /\ \/ window' = << >> /\ pending' = << >> /\ tip' = dtip
             \/ UNCHANGED <<window, pending, tip>>
      BY <2>6 DEF reconciled, RestoredTip, verify_durable_tip
    <3>2. window' \in Seq(Blocks) /\ pending' \in Seq(Blocks) /\ tip' \in Blocks
      BY <1>1, <2>0, <3>1
    <3>3. /\ pc' \in ProducerSteps /\ reply' \in BOOLEAN
          /\ UNCHANGED <<active, after, goal, submitted, completed, wpc, command, dtip, indexes,
                         shutdown, peer, asked, heights_open>>
      BY <3>1
    <3> QED BY <1>1, <3>2, <3>3
  <2>7. CASE sync_to_tip
    <3>1. Height[active] \in Heights \cup {0}
      BY <1>1, HeightTypes
    <3> QED BY <1>1, <2>7, <3>1 DEF sync_to_tip
  <2>8. CASE prove_block
    <3>1. PICK b \in Blocks \ {Root} :
             window' = Append(window, b) /\ pending' = Append(pending, b) /\ tip' = b
      BY <1>1, <2>8, ProvedBlock
    <3>2. window' \in Seq(Blocks) /\ pending' \in Seq(Blocks) /\ tip' \in Blocks
      BY <1>1, <3>1
    <3>3. /\ pc' \in ProducerSteps
          /\ after' = after \/ after' = "range"
          /\ UNCHANGED <<active, goal, submitted, command, completed, wpc, dtip, indexes, reply,
                         shutdown, peer, asked, heights_open>>
      BY <2>8 DEF prove_block
    <3> QED BY <1>1, <3>2, <3>3
  <2>9. CASE publish_pending
    <3>1. /\ pc' \in ProducerSteps
          /\ UNCHANGED <<active, after, tip, goal, pending, completed, wpc, dtip, indexes, reply,
                         shutdown, peer, asked, heights_open>>
          /\ \/ UNCHANGED <<window, submitted, command>>
             \/ /\ command' = [kind |-> "publish", blocks |-> window]
                /\ submitted' = Len(window) /\ window' = << >>
      BY <2>9 DEF publish_pending, send
    <3>2. [kind |-> "publish", blocks |-> window] \in [kind : Commands, blocks : Seq(Blocks)]
      BY <1>1 DEF Commands
    <3>3. Len(window) \in Nat
      BY <1>1
    <3>4. /\ window' \in Seq(Blocks) /\ submitted' \in Nat
          /\ command' \in [kind : Commands, blocks : Seq(Blocks)]
      BY <1>1, <2>0, <3>1, <3>2, <3>3
    <3>5. /\ pc' \in ProducerSteps
          /\ UNCHANGED <<active, after, tip, goal, pending, completed, wpc, dtip, indexes, reply,
                         shutdown, peer, asked, heights_open>>
      BY <3>1
    <3> QED BY <1>1, <3>4, <3>5
  <2>10. CASE exit
    <3>1. active' \in Blocks /\ process_ends
      BY <1>1, <2>10 DEF exit
    <3> QED BY <3>1, EndTypes
  <2> QED BY <2>1, <2>3, <2>4, <2>5, <2>6, <2>7, <2>8, <2>9, <2>10 DEF Producer
<1> QED BY <1>2, <1>3 DEF Types

\* The places of appended proofs.
LEMMA AppendTypes ==
    ASSUME Types, NEW t \in Seq(Blocks), append_proofs(t)
    PROVE  /\ proofs' \in Seq(Blocks \cup {Garbage}) /\ indexes' \in [Blocks -> Nat]
           /\ proofs_synced \in 0 .. Len(proofs')
<1>1. proofs' = proofs \o t /\ proofs \in Seq(Blocks \cup {Garbage}) /\ t \in Seq(Blocks \cup {Garbage})
  BY DEF append_proofs, Types, StoreTypes
<1>2. proofs' \in Seq(Blocks \cup {Garbage}) /\ Len(proofs') = Len(proofs) + Len(t)
  BY <1>1
<1>3. proofs_synced \in 0 .. Len(proofs')
  BY <1>1, <1>2 DEF Types, StoreTypes
<1>4. ASSUME NEW b \in Blocks
      PROVE  (IF \E i \in 1 .. Len(t) : t[i] = b
              THEN Len(proofs) + (CHOOSE i \in 1 .. Len(t) : t[i] = b) ELSE 0) \in Nat
  <2>1. Len(proofs) \in Nat
    BY <1>1
  <2>2. CASE \E i \in 1 .. Len(t) : t[i] = b
    <3>1. (CHOOSE i \in 1 .. Len(t) : t[i] = b) \in 1 .. Len(t)
      BY <2>2
    <3> QED BY <2>1, <2>2, <3>1
  <2> QED BY <2>2
<1>5. indexes' \in [Blocks -> Nat]
  BY <1>4 DEF append_proofs
<1> QED BY <1>2, <1>3, <1>5

\* Headers that are put have the type of headers.
LEMMA PutTypes ==
    ASSUME Types, NEW S \in SUBSET Blocks, put_headers(S)
    PROVE  headers' \in [Heights -> Blocks \cup {NoBlock}]
<1>1. ASSUME NEW h \in Heights
      PROVE  (IF \E b \in S : Height[b] = h THEN CHOOSE b \in S : Height[b] = h
              ELSE headers[h]) \in Blocks \cup {NoBlock}
  <2>1. CASE \E b \in S : Height[b] = h
    <3>1. (CHOOSE b \in S : Height[b] = h) \in S
      BY <2>1
    <3> QED BY <2>1, <3>1
  <2> QED BY <2>1 DEF Types, StoreTypes
<1> QED BY <1>1 DEF put_headers

\* The proofs that a repair appends are those of the records, in their order.
LEMMA Ordered ==
    ASSUME LogTypes, NEW R \in SUBSET ForwardRecords
    PROVE  /\ InOrder(R) \in Seq(Blocks) /\ Len(InOrder(R)) = Cardinality(R)
           /\ Cardinality(R) \in Nat
           /\ \A n \in 1 .. Cardinality(R) : \E i \in R : Rank(R, i) = n /\ InOrder(R)[n] = log[i].block
           /\ \A i \in R : Rank(R, i) \in 1 .. Cardinality(R) /\ InOrder(R)[Rank(R, i)] = log[i].block
           /\ \A i, k \in R : i < k => Rank(R, i) < Rank(R, k)
<1>1. R \in SUBSET (1 .. Len(log)) /\ Len(log) \in Nat /\ \A i \in R : log[i].block \in Blocks
  BY RetainedFacts
<1> DEFINE c == Cardinality(R)
           At(n) == CHOOSE i \in R : Cardinality({j \in R : j <= i}) = n
<1>2. /\ c \in Nat
      /\ \A i \in R : Rank(R, i) \in 1 .. c
      /\ \A i, k \in R : i < k => Rank(R, i) < Rank(R, k)
  BY <1>1, RankGrows
<1>3. \A i \in R : i \in Nat
  BY <1>1
<1>4. \A i, k \in R : Rank(R, i) = Rank(R, k) => i = k
  <2> SUFFICES ASSUME NEW i \in R, NEW k \in R, i # k PROVE Rank(R, i) # Rank(R, k)
    OBVIOUS
  <2>1. Rank(R, i) \in Nat /\ Rank(R, k) \in Nat
    BY <1>2
  <2>2. i < k \/ k < i
    BY <1>3
  <2> QED BY <1>2, <2>1, <2>2
<1>5. ASSUME NEW n \in 1 .. c PROVE At(n) \in R /\ Rank(R, At(n)) = n
  <2>1. \E i \in R : Rank(R, i) = n
    BY <1>1, RankOnto
  <2> QED BY <2>1 DEF Rank
<1> HIDE DEF c
<1>6. InOrder(R) = [n \in 1 .. c |-> log[At(n)].block]
  BY DEF InOrder, c
<1>7. \A n \in 1 .. c : log[At(n)].block \in Blocks
  BY <1>1, <1>5
<1> HIDE DEF At
<1>8. /\ InOrder(R) \in Seq(Blocks) /\ Len(InOrder(R)) = c
      /\ \A n \in 1 .. c : InOrder(R)[n] = log[At(n)].block
  BY <1>2, <1>6, <1>7
<1>9. \A n \in 1 .. c : \E i \in R : Rank(R, i) = n /\ InOrder(R)[n] = log[i].block
  BY <1>5, <1>8
<1>10. \A i \in R : Rank(R, i) \in 1 .. c /\ InOrder(R)[Rank(R, i)] = log[i].block
  BY <1>2, <1>4, <1>9
<1> QED BY <1>2, <1>8, <1>9, <1>10 DEF c

\* A cut leaves a prefix of the proof file.
LEMMA TruncateTypes ==
    ASSUME Types, NEW b \in Blocks, truncate_after(b)
    PROVE  proofs' \in Seq(Blocks \cup {Garbage}) /\ proofs_synced' \in 0 .. Len(proofs')
<1>1. proofs \in Seq(Blocks \cup {Garbage}) /\ index[b] \in Nat /\ proofs_synced \in 0 .. Len(proofs)
  BY DEF Types, StoreTypes
<1>2. CASE b # Root /\ ~(index[b] \in 1 .. Len(proofs))
  BY <1>1, <1>2 DEF truncate_after, proof_vars
<1>3. CASE ~(b # Root /\ ~(index[b] \in 1 .. Len(proofs)))
  <2> DEFINE end == IF b = Root THEN 0 ELSE index[b]
  <2>1. end \in 0 .. Len(proofs)
    BY <1>1, <1>3
  <2>2. proofs' = SubSeq(proofs, 1, end) /\ proofs_synced' = end
    BY <1>3 DEF truncate_after
  <2> HIDE DEF end
  <2>3. proofs' \in Seq(Blocks \cup {Garbage}) /\ Len(proofs') = end
    BY <1>1, <2>1, <2>2
  <2> QED BY <2>1, <2>2, <2>3
<1> QED BY <1>2, <1>3

\* Every step of the worker keeps the types.
LEMMA WorkerTypes ==
    ASSUME Safe, Worker \/ worker_fail
    PROVE  Types'
<1> USE DEF Running, worker_step, journal_vars, forest_vars, header_vars, proof_vars, index_vars,
        store_vars, clean_vars, producer_vars, env_vars, core_vars, service_vars
<1>1. StoreTypes /\ ThreadTypes /\ Types
  BY DEF Safe, Types
<1>2. ASSUME command.kind # "none" PROVE Up
  BY <1>2 DEF Safe, Threads, InvIdle, NoCommand
<1>3. ASSUME command.kind = "publish"
      PROVE  /\ command.blocks \in Seq(Blocks) /\ LastBlock(command.blocks) \in Blocks
             /\ SetOf(command.blocks) \subseteq Blocks
  BY <1>1, <1>2, <1>3, PublishCommand DEF Safe
<1>4. ASSUME command.kind = "rollback"
      PROVE  Orphan \in Blocks /\ SetOf(command.blocks) = {Orphan}
  BY <1>1, <1>2, <1>4, RollbackCommand DEF Safe
<1>5. ASSUME command.kind = "rollback", wpc \in UndoSteps
      PROVE  Parent[Orphan] \in Blocks
  <2>1. Orphan \in Blocks \ {Root}
    BY <1>2, <1>4, <1>5 DEF Safe, Forest, InvWorker, Working
  <2> QED BY <2>1, ParentFacts
<1>6. NoCommand \in [kind : Commands, blocks : Seq(Blocks)] /\ NoIndexes \in [Blocks -> Nat]
  BY DEF NoCommand, Commands, NoIndexes
<1>7. LogTypes /\ \A b \in Blocks : Height[b] \in Heights \cup {0}
  BY SafeTip, HeightTypes
<1>8. ThreadTypes'
  <2>1. /\ UNCHANGED <<active, tip, goal, window, pending, submitted, shutdown, peer, heights_open,
                       asked, pc, after>>
        /\ wpc' \in PublishSteps \cup RollbackSteps \cup {"failed"}
        /\ UNCHANGED command \/ command' = NoCommand
        /\ UNCHANGED reply \/ reply' = TRUE
        /\ UNCHANGED completed \/ (completed' = Len(command.blocks) /\ command.kind = "publish")
        /\ \/ UNCHANGED dtip
           \/ command.kind = "publish" /\ dtip' = LastBlock(command.blocks)
           \/ command.kind = "rollback" /\ wpc = "rollback_height" /\ dtip' = Parent[Orphan]
        /\ \/ UNCHANGED indexes
           \/ indexes' = NoIndexes
           \/ command.kind = "publish" /\ append_proofs(command.blocks)
    BY <1>1 DEF Worker, worker_fail, persist, publish, append, proof_sync, put, header_sync, index_set,
       index_flush, apply_forward_batch, forest_sync, update_height, complete, Completion,
       discard_unpublished, sync_barrier, mark_rolled_back, reorg_too_deep, apply_backward,
       backward_sync, remove_header, remove_header_sync, remove_index, truncate, rollback_height,
       header_unavailable, answer, ThreadTypes
  <2>2. completed' \in Nat
    BY <1>1, <1>3, <2>1 DEF ThreadTypes
  <2>3. dtip' \in Blocks
    BY <1>1, <1>3, <1>5, <2>1 DEF ThreadTypes
  <2>4. indexes' \in [Blocks -> Nat]
    BY <1>1, <1>3, <1>6, <2>1, AppendTypes DEF ThreadTypes
  <2>5. reply' \in BOOLEAN /\ command' \in [kind : Commands, blocks : Seq(Blocks)]
    BY <1>1, <1>6, <2>1 DEF ThreadTypes
  <2>6. /\ UNCHANGED <<active, tip, goal, window, pending, submitted, shutdown, peer, heights_open,
                       asked, pc, after>>
        /\ wpc' \in PublishSteps \cup RollbackSteps \cup {"failed"}
    BY <2>1
  <2> QED BY <1>1, <2>2, <2>3, <2>4, <2>5, <2>6 DEF ThreadTypes
<1>9. StoreTypes'
  <2> DEFINE T1 == log \in Seq(Records) /\ floor \in 1 .. Len(log) + 1
             T2 == tail \in Seq(Blocks)
             T3 == forest_tip \in Blocks /\ touched \subseteq Blocks
             T4 == headers \in [Heights -> Blocks \cup {NoBlock}]
             T5 == headers_disk \in [Heights -> Blocks \cup {NoBlock}]
             T6 == proofs \in Seq(Blocks \cup {Garbage}) /\ proofs_synced \in 0 .. Len(proofs)
             T7 == index \in [Blocks -> Nat] /\ index_disk \in [Blocks -> Nat]
             T8 == committed \in Heights \cup {0}
             T9 == clean \in BOOLEAN /\ needs_replay \in BOOLEAN
  <2>1. StoreTypes' <=> T1' /\ T2' /\ T3' /\ T4' /\ T5' /\ T6' /\ T7' /\ T8' /\ T9'
    BY DEF StoreTypes, Records
  <2>2. T1 /\ T2 /\ T3 /\ T4 /\ T5 /\ T6 /\ T7 /\ T8 /\ T9
    BY <1>1 DEF StoreTypes, Records
  <2>3. CASE persist \/ reorg_too_deep \/ header_unavailable
    <3>1. UNCHANGED <<store_vars, clean_vars>>
      BY <2>3 DEF persist, reorg_too_deep, header_unavailable
    <3> QED BY <2>1, <2>2, <3>1
  <2>4. CASE publish
    <3> DEFINE s == command.blocks
    <3>1. /\ log' = log \o [i \in 1 .. Len(s) |-> ForwardRecord(tail[i])]
          /\ tail' = SubSeq(tail, Len(s) + 1, Len(tail))
          /\ command.kind = "publish" /\ wpc = "publish"
          /\ UNCHANGED <<floor, forest_vars, header_vars, proof_vars, index_vars, committed, clean_vars>>
      BY <2>4 DEF publish
    <3>2. s \in Seq(Blocks) /\ Up
      BY <1>2, <1>3, <3>1
    <3>3. \A i \in 1 .. Len(s) : tail[i] = s[i]
      BY <3>1, <3>2 DEF Safe, Threads, InvDurable, InvChannel, Working, Restored
    <3>4. [i \in 1 .. Len(s) |-> ForwardRecord(tail[i])] = [i \in 1 .. Len(s) |-> ForwardRecord(s[i])]
      BY <3>3
    <3>5. tail' \in Seq(Blocks)
      BY <2>2, <3>1, <3>2
    <3> HIDE DEF s
    <3>6. log' \in Seq(Records) /\ Len(log') = Len(log) + Len(s)
      BY <1>7, <3>1, <3>2, <3>4, PublishedRecords
    <3>7. Len(log) \in Nat /\ Len(s) \in Nat
      BY <2>2, <3>2
    <3>8. T1'
      BY <2>2, <3>1, <3>6, <3>7
    <3> QED BY <2>1, <2>2, <3>1, <3>5, <3>8
  <2>5. CASE append
    <3>1. /\ append_proofs(command.blocks) /\ command.kind = "publish" /\ UNCHANGED proofs_synced
          /\ UNCHANGED <<journal_vars, forest_vars, header_vars, index_vars, committed, clean_vars>>
      BY <2>5 DEF append
    <3>2. T6'
      BY <1>1, <1>3, <3>1, AppendTypes
    <3> QED BY <2>1, <2>2, <3>1, <3>2
  <2>6. CASE proof_sync
    <3>1. /\ proofs_synced' = Len(proofs)
          /\ UNCHANGED <<journal_vars, forest_vars, header_vars, proofs, index_vars, committed, clean_vars>>
      BY <2>6 DEF proof_sync
    <3>2. T6'
      BY <2>2, <3>1
    <3> QED BY <2>1, <2>2, <3>1, <3>2
  <2>7. CASE put
    <3>1. /\ put_headers(SetOf(command.blocks)) /\ command.kind = "publish"
          /\ UNCHANGED <<journal_vars, forest_vars, headers_disk, proof_vars, index_vars, committed,
                         clean_vars>>
      BY <2>7 DEF put
    <3>2. T4'
      BY <1>1, <1>3, <3>1, PutTypes
    <3> QED BY <2>1, <2>2, <3>1, <3>2
  <2>8. CASE header_sync \/ remove_header_sync
    <3>1. /\ headers_disk' = headers
          /\ UNCHANGED <<journal_vars, forest_vars, headers, proof_vars, index_vars, committed, clean_vars>>
      BY <2>8 DEF header_sync, remove_header_sync, SyncedHeaders
    <3> QED BY <2>1, <2>2, <3>1
  <2>9. CASE index_set
    <3>1. /\ index' = [b \in Blocks |-> IF indexes[b] # 0 THEN indexes[b] ELSE index[b]]
          /\ UNCHANGED <<journal_vars, forest_vars, header_vars, proof_vars, index_disk, committed,
                         clean_vars>>
      BY <2>9 DEF index_set, append_batch
    <3>2. T7'
      BY <1>1, <2>2, <3>1 DEF ThreadTypes
    <3> QED BY <2>1, <2>2, <3>1, <3>2
  <2>10. CASE index_flush
    <3>1. /\ index_disk' = index
          /\ UNCHANGED <<journal_vars, forest_vars, header_vars, proof_vars, index, committed, clean_vars>>
      BY <2>10 DEF index_flush
    <3> QED BY <2>1, <2>2, <3>1
  <2>11. CASE apply_forward_batch \/ apply_backward
    <3>1. /\ \/ /\ command.kind = "publish" /\ forest_tip' = LastBlock(command.blocks)
                /\ touched' = touched \cup SetOf(command.blocks)
             \/ /\ command.kind = "rollback" /\ wpc = "apply_backward" /\ forest_tip' = Parent[Orphan]
                /\ touched' = touched \cup {Orphan}
          /\ UNCHANGED <<journal_vars, header_vars, proof_vars, index_vars, committed, clean_vars>>
      BY <2>11 DEF apply_forward_batch, apply_backward
    <3>2. T3'
      BY <1>3, <1>4, <1>5, <2>2, <3>1
    <3> QED BY <2>1, <2>2, <3>1, <3>2
  <2>12. CASE forest_sync \/ backward_sync
    <3>1. /\ touched' = {}
          /\ UNCHANGED <<journal_vars, forest_tip, header_vars, proof_vars, index_vars, committed,
                         clean_vars>>
      BY <2>12 DEF forest_sync, backward_sync, SyncedForest
    <3> QED BY <2>1, <2>2, <3>1
  <2>13. CASE update_height \/ rollback_height
    <3>1. /\ \/ command.kind = "publish" /\ committed' = Height[LastBlock(command.blocks)]
             \/ command.kind = "rollback" /\ wpc = "rollback_height" /\ committed' = Height[Parent[Orphan]]
          /\ UNCHANGED <<journal_vars, forest_vars, header_vars, proof_vars, index_vars, clean_vars>>
      BY <2>13 DEF update_height, rollback_height, answer
    <3>2. T8'
      BY <1>3, <1>5, <1>7, <3>1
    <3> QED BY <2>1, <2>2, <3>1, <3>2
  <2>14. CASE complete
    <3>1. /\ floor' = floor \/ floor' \in ForwardRecords
          /\ UNCHANGED <<log, tail, forest_vars, header_vars, proof_vars, index_vars, committed,
                         clean_vars>>
      BY <2>14 DEF complete, PruneCuts
    <3>2. T1'
      BY <1>7, <2>2, <3>1, RetainedFacts
    <3> QED BY <2>1, <2>2, <3>1, <3>2
  <2>15. CASE discard_unpublished
    <3>1. /\ tail' = << >>
          /\ UNCHANGED <<log, floor, forest_vars, header_vars, proof_vars, index_vars, committed,
                         clean_vars>>
      BY <2>15 DEF discard_unpublished, answer
    <3>2. T2'
      BY <3>1
    <3> QED BY <2>1, <2>2, <3>1, <3>2
  <2>16. CASE sync_barrier
    <3>1. /\ touched' = {} /\ proofs_synced' = Len(proofs) /\ headers_disk' = headers
          /\ committed' = Height[dtip] /\ (clean' = clean \/ clean' = TRUE)
          /\ UNCHANGED <<journal_vars, forest_tip, headers, proofs, index_vars, needs_replay>>
      BY <2>16 DEF sync_barrier
    <3>2. T6'
      BY <2>2, <3>1
    <3>3. T8'
      <4>1. dtip \in Blocks
        BY <1>1 DEF ThreadTypes
      <4>2. committed' = Height[dtip]
        BY <3>1
      <4> QED BY <1>7, <4>1, <4>2
    <3>4. T9'
      BY <2>2, <3>1
    <3> QED BY <2>1, <2>2, <3>1, <3>2, <3>3, <3>4
  <2>17. CASE mark_rolled_back
    <3>1. /\ log' = log \/ log' = [log EXCEPT ![latest_forward].status = RolledBack]
          /\ ForwardRecords # {} /\ UNCHANGED floor
          /\ UNCHANGED <<tail, forest_vars, header_vars, proof_vars, index_vars, committed, clean_vars>>
      BY <2>17 DEF mark_rolled_back
    <3>2. InvLog
      BY DEF Safe, Forest
    <3>3. T1'
      <4>1. CASE log' = log
        BY <2>2, <3>1, <4>1
      <4>2. CASE log' = [log EXCEPT ![latest_forward].status = RolledBack]
        BY <1>7, <3>1, <3>2, <4>2, RollingBack DEF LogTypes
      <4> QED BY <3>1, <4>1, <4>2
    <3> QED BY <2>1, <2>2, <3>1, <3>3
  <2>18. CASE remove_header
    <3>1. /\ headers' = [h \in Heights |-> IF headers[h] \in {Orphan} THEN NoBlock ELSE headers[h]]
          /\ UNCHANGED <<journal_vars, forest_vars, headers_disk, proof_vars, index_vars, committed,
                         clean_vars>>
      BY <2>18 DEF remove_header, remove_headers
    <3>2. T4'
      BY <2>2, <3>1
    <3> QED BY <2>1, <2>2, <3>1, <3>2
  <2>19. CASE remove_index
    <3>1. /\ index' = [b \in Blocks |-> IF b \in {Orphan} THEN 0 ELSE index[b]]
          /\ index_disk' = [b \in Blocks |-> IF b \in {Orphan} THEN 0 ELSE index_disk[b]]
          /\ UNCHANGED <<journal_vars, forest_vars, header_vars, proof_vars, committed, clean_vars>>
      BY <2>19 DEF remove_index, remove_indexes
    <3>2. T7'
      BY <2>2, <3>1
    <3> QED BY <2>1, <2>2, <3>1, <3>2
  <2>20. CASE truncate
    <3>1. /\ truncate_after(Parent[Orphan]) /\ command.kind = "rollback" /\ wpc = "truncate"
          /\ UNCHANGED <<journal_vars, forest_vars, header_vars, index_vars, committed, clean_vars>>
      BY <2>20 DEF truncate
    <3>2. T6'
      BY <1>1, <1>5, <3>1, TruncateTypes
    <3> QED BY <2>1, <2>2, <3>1, <3>2
  <2>21. CASE worker_fail
    <3>1. /\ touched' = touched \/ touched' = touched \cup SetOf(command.blocks)
          /\ headers_disk' = headers \/ headers_disk' = headers_disk
          /\ UNCHANGED <<journal_vars, forest_tip, headers, proof_vars, index_vars, committed, clean_vars>>
      BY <2>21 DEF worker_fail
    <3>2. SetOf(command.blocks) \subseteq Blocks
      BY <1>1 DEF ThreadTypes, SetOf
    <3>3. T3' /\ T5'
      BY <2>2, <3>1, <3>2
    <3> QED BY <2>1, <2>2, <3>1, <3>3
  <2> QED BY <2>3, <2>4, <2>5, <2>6, <2>7, <2>8, <2>9, <2>10, <2>11, <2>12, <2>13, <2>14, <2>15,
             <2>16, <2>17, <2>18, <2>19, <2>20, <2>21 DEF Worker
<1> QED BY <1>8, <1>9 DEF Types

\* Every step of the recovery keeps the types.
LEMMA RecoveryTypes ==
    ASSUME Safe, Recovery
    PROVE  Types'
<1> USE DEF recovery_step, journal_vars, forest_vars, header_vars, proof_vars, index_vars,
        store_vars, clean_vars, env_vars, core_vars, service_vars
<1>1. StoreTypes /\ ThreadTypes /\ Types
  BY DEF Safe, Types
<1>2. JournalTip \in Blocks /\ LogTypes /\ RetainedBlocks \subseteq Blocks /\ ForwardBlocks \subseteq Blocks
  BY SafeTip, RetainedFacts
<1>3. Repairs \subseteq ForwardRecords /\ InOrder(Repairs) \in Seq(Blocks)
  <2>1. Repairs \subseteq ForwardRecords
    BY DEF Repairs
  <2> HIDE DEF ForwardRecords, Repairs
  <2> QED BY <1>2, <2>1, Ordered
<1>4. ThreadTypes'
  <2>1. /\ UNCHANGED <<active, after, goal, window, pending, submitted, command, wpc, completed, reply,
                       shutdown, peer, asked, heights_open>>
        /\ pc' \in RecoverySteps \cup {"idle"}
        /\ tip' = tip \/ tip' = JournalTip
        /\ dtip' = dtip \/ dtip' = JournalTip
        /\ \/ UNCHANGED indexes
           \/ indexes' = NoIndexes
           \/ append_proofs(InOrder(Repairs))
    BY DEF Recovery, open, repair, repair_sync, repair_index, check_gaps, replay_journal,
       replay_sync, cleanup, cleanup_sync, recover_tip, recover_height, RecoverySteps
  <2>2. tip' \in Blocks /\ dtip' \in Blocks
    BY <1>1, <1>2, <2>1 DEF ThreadTypes
  <2>3. indexes' \in [Blocks -> Nat]
    <3>1. NoIndexes \in [Blocks -> Nat]
      BY DEF NoIndexes
    <3> QED BY <1>1, <1>3, <2>1, <3>1, AppendTypes DEF ThreadTypes
  <2>4. /\ UNCHANGED <<active, after, goal, window, pending, submitted, command, wpc, completed, reply,
                       shutdown, peer, asked, heights_open>>
        /\ pc' \in ProducerSteps \cup RecoverySteps
    BY <2>1 DEF ProducerSteps
  <2> QED BY <1>1, <2>2, <2>3, <2>4 DEF ThreadTypes
<1>5. StoreTypes'
  <2> DEFINE T1 == log \in Seq(Records) /\ floor \in 1 .. Len(log) + 1
             T2 == tail \in Seq(Blocks)
             T3 == forest_tip \in Blocks /\ touched \subseteq Blocks
             T4 == headers \in [Heights -> Blocks \cup {NoBlock}]
             T5 == headers_disk \in [Heights -> Blocks \cup {NoBlock}]
             T6 == proofs \in Seq(Blocks \cup {Garbage}) /\ proofs_synced \in 0 .. Len(proofs)
             T7 == index \in [Blocks -> Nat] /\ index_disk \in [Blocks -> Nat]
             T8 == committed \in Heights \cup {0}
             T9 == clean \in BOOLEAN /\ needs_replay \in BOOLEAN
  <2>1. StoreTypes' <=> T1' /\ T2' /\ T3' /\ T4' /\ T5' /\ T6' /\ T7' /\ T8' /\ T9'
    BY DEF StoreTypes, Records
  <2>2. T1 /\ T2 /\ T3 /\ T4 /\ T5 /\ T6 /\ T7 /\ T8 /\ T9
    BY <1>1 DEF StoreTypes, Records
  <2>3. CASE open
    <3>1. /\ tail' = << >> /\ clean' = FALSE /\ needs_replay' = ~clean
          /\ UNCHANGED <<log, floor, forest_vars, header_vars, proof_vars, index_vars, committed>>
      BY <2>3 DEF open
    <3>2. T2'
      BY <3>1
    <3>3. T9'
      BY <2>2, <3>1
    <3> QED BY <2>1, <2>2, <3>1, <3>2, <3>3
  <2>4. CASE repair
    <3>1. /\ put_headers(ForwardBlocks) /\ append_proofs(InOrder(Repairs)) /\ UNCHANGED proofs_synced
          /\ UNCHANGED <<journal_vars, forest_vars, headers_disk, index_vars, committed, clean_vars>>
      BY <2>4 DEF repair
    <3>2. T4'
      BY <1>1, <1>2, <3>1, PutTypes
    <3>3. T6'
      <4> HIDE DEF Repairs
      <4> QED BY <1>1, <1>3, <3>1, AppendTypes
    <3> QED BY <2>1, <2>2, <3>1, <3>2, <3>3
  <2>5. CASE repair_sync
    <3>1. /\ proofs_synced' = Len(proofs) /\ headers_disk' = headers
          /\ UNCHANGED <<journal_vars, forest_vars, headers, proofs, index_vars, committed, clean_vars>>
      BY <2>5 DEF repair_sync
    <3>2. T6'
      BY <2>2, <3>1
    <3> QED BY <2>1, <2>2, <3>1, <3>2
  <2>6. CASE repair_index
    <3>1. /\ index' = [b \in Blocks |-> IF indexes[b] # 0 THEN indexes[b] ELSE index[b]]
          /\ UNCHANGED <<journal_vars, forest_vars, header_vars, proof_vars, index_disk, committed,
                         clean_vars>>
      BY <2>6 DEF repair_index, append_batch
    <3>2. T7'
      BY <1>1, <2>2, <3>1 DEF ThreadTypes
    <3> QED BY <2>1, <2>2, <3>1, <3>2
  <2>7. CASE check_gaps
    <3>1. /\ index_disk' = index
          /\ UNCHANGED <<journal_vars, forest_vars, header_vars, proof_vars, index, committed, clean_vars>>
      BY <2>7 DEF check_gaps
    <3> QED BY <2>1, <2>2, <3>1
  <2>8. CASE replay_journal \/ replay_sync
    <3>1. /\ \/ UNCHANGED <<forest_tip, touched>>
             \/ forest_tip' = JournalTip /\ touched' = touched \cup RetainedBlocks
             \/ touched' = {} /\ UNCHANGED forest_tip
          /\ UNCHANGED <<journal_vars, header_vars, proof_vars, index_vars, committed, clean_vars>>
      BY <2>8 DEF replay_journal, replay_sync
    <3>2. T3'
      BY <1>2, <2>2, <3>1
    <3> QED BY <2>1, <2>2, <3>1, <3>2
  <2>9. CASE cleanup
    <3>1. /\ headers' = [h \in Heights |-> IF headers[h] \in OrphanedBlocks THEN NoBlock ELSE headers[h]]
          /\ index' = [b \in Blocks |-> IF b \in OrphanedBlocks THEN 0 ELSE index[b]]
          /\ index_disk' = [b \in Blocks |-> IF b \in OrphanedBlocks THEN 0 ELSE index_disk[b]]
          /\ UNCHANGED <<journal_vars, forest_vars, headers_disk, proof_vars, committed, clean_vars>>
      BY <2>9 DEF cleanup, remove_headers, remove_indexes
    <3>2. T4' /\ T7'
      BY <2>2, <3>1
    <3> QED BY <2>1, <2>2, <3>1, <3>2
  <2>10. CASE cleanup_sync
    <3>1. /\ headers_disk' = headers
          /\ UNCHANGED <<journal_vars, forest_vars, headers, proof_vars, index_vars, committed, clean_vars>>
      BY <2>10 DEF cleanup_sync
    <3> QED BY <2>1, <2>2, <3>1
  <2>11. CASE recover_tip
    <3>1. /\ truncate_after(JournalTip) \/ UNCHANGED <<proofs, proofs_synced>>
          /\ UNCHANGED <<journal_vars, forest_vars, header_vars, index_vars, committed, clean_vars>>
      BY <2>11 DEF recover_tip
    <3>2. T6'
      BY <1>1, <1>2, <2>2, <3>1, TruncateTypes
    <3> QED BY <2>1, <2>2, <3>1, <3>2
  <2>12. CASE recover_height
    <3>1. /\ committed' = Height[tip]
          /\ UNCHANGED <<journal_vars, forest_vars, header_vars, proof_vars, index_vars, clean_vars>>
      BY <2>12 DEF recover_height
    <3>2. T8'
      BY <1>1, <3>1, HeightTypes DEF ThreadTypes
    <3> QED BY <2>1, <2>2, <3>1, <3>2
  <2> QED BY <2>3, <2>4, <2>5, <2>6, <2>7, <2>8, <2>9, <2>10, <2>11, <2>12 DEF Recovery
<1> QED BY <1>4, <1>5 DEF Types

\* Core, stops, losses and peers keep the types.
LEMMA EnvironmentTypes ==
    ASSUME Safe, Environment
    PROVE  Types'
<1> USE DEF journal_vars, forest_vars, header_vars, proof_vars, index_vars, store_vars, clean_vars,
        producer_vars, worker_vars, env_vars, core_vars, service_vars
<1>1. StoreTypes /\ ThreadTypes /\ Types
  BY DEF Safe, Types
<1>2. CASE \/ \E t \in Blocks : reorganize(t)
           \/ set_shutdown \/ grow_heights \/ get_proof
           \/ \E b \in Blocks : peer_fetch(b) \/ get_index(b)
  <2>1. /\ UNCHANGED <<store_vars, clean_vars, producer_vars, worker_vars>>
        /\ active' = active \/ active' \in Blocks
        /\ shutdown' = shutdown \/ shutdown' = TRUE
        /\ heights_open' = heights_open \/ heights_open' = FALSE
        /\ peer' = peer \/ peer' \in Blocks \cup {NoBlock}
        /\ \/ UNCHANGED asked
           \/ asked' = NoRequest
           \/ \E b \in Blocks : asked' = [block |-> b, place |-> index[b]]
    BY <1>2 DEF reorganize, set_shutdown, grow_heights, get_proof, peer_fetch, get_index
  <2>2. StoreTypes'
    BY <1>1, <2>1 DEF StoreTypes
  <2>3. asked' \in [block : Blocks \cup {NoBlock}, place : Nat]
    <3>1. asked \in [block : Blocks \cup {NoBlock}, place : Nat]
      BY <1>1 DEF ThreadTypes
    <3>2. NoRequest \in [block : Blocks \cup {NoBlock}, place : Nat]
      BY DEF NoRequest
    <3>3. \A b \in Blocks :
             [block |-> b, place |-> index[b]] \in [block : Blocks \cup {NoBlock}, place : Nat]
      BY <1>1 DEF StoreTypes
    <3> QED BY <2>1, <3>1, <3>2, <3>3
  <2>4. /\ active' \in Blocks /\ peer' \in Blocks \cup {NoBlock}
        /\ shutdown' \in BOOLEAN /\ heights_open' \in BOOLEAN
    BY <1>1, <2>1 DEF ThreadTypes
  <2>5. UNCHANGED <<producer_vars, worker_vars>>
    BY <2>1
  <2>6. ThreadTypes'
    BY <1>1, <2>3, <2>4, <2>5 DEF ThreadTypes
  <2> QED BY <2>2, <2>6 DEF Types
<1>3. CASE peer_put
  <2>1. /\ peer # NoBlock /\ put_headers({peer}) /\ peer' = NoBlock
        /\ UNCHANGED <<journal_vars, forest_vars, headers_disk, proof_vars, index_vars, committed,
                       clean_vars, producer_vars, worker_vars, active, shutdown, asked, heights_open>>
    BY <1>3 DEF peer_put
  <2>2. {peer} \in SUBSET Blocks
    BY <1>1, <2>1 DEF ThreadTypes
  <2>3. headers' \in [Heights -> Blocks \cup {NoBlock}]
    BY <1>1, <2>1, <2>2, PutTypes
  <2>4. StoreTypes'
    <3>1. UNCHANGED <<journal_vars, forest_vars, headers_disk, proof_vars, index_vars, committed,
                      clean_vars>>
      BY <2>1
    <3> QED BY <1>1, <2>3, <3>1 DEF StoreTypes
  <2>5. ThreadTypes'
    <3>1. UNCHANGED <<producer_vars, worker_vars, active, shutdown, asked, heights_open>>
      BY <2>1
    <3>2. peer' \in Blocks \cup {NoBlock}
      BY <2>1
    <3> QED BY <1>1, <3>1, <3>2 DEF ThreadTypes
  <2> QED BY <2>4, <2>5 DEF Types
<1>4. CASE \E b \in Blocks : lose(b)
  <2>1. PICK b \in Blocks : lose(b)
    BY <1>4
  <2>2. /\ \/ /\ index' = [index EXCEPT ![b] = 0]
              /\ index_disk' = [index_disk EXCEPT ![b] = 0]
              /\ headers' = [headers EXCEPT ![Height[b]] = NoBlock]
              /\ headers_disk' = [headers_disk EXCEPT ![Height[b]] = NoBlock]
              /\ UNCHANGED proofs
           \/ /\ index[b] \in 1 .. Len(proofs)
              /\ proofs' = [proofs EXCEPT ![index[b]] = Garbage]
              /\ UNCHANGED <<header_vars, index_vars>>
        /\ UNCHANGED <<journal_vars, forest_vars, proofs_synced, committed, clean_vars, producer_vars,
                       worker_vars, active, shutdown, service_vars>>
    BY <2>1 DEF lose
  <2>3. /\ headers' \in [Heights -> Blocks \cup {NoBlock}]
        /\ headers_disk' \in [Heights -> Blocks \cup {NoBlock}]
        /\ index' \in [Blocks -> Nat] /\ index_disk' \in [Blocks -> Nat]
    <3>1. /\ headers \in [Heights -> Blocks \cup {NoBlock}]
          /\ headers_disk \in [Heights -> Blocks \cup {NoBlock}]
          /\ index \in [Blocks -> Nat] /\ index_disk \in [Blocks -> Nat]
      BY <1>1 DEF StoreTypes
    <3>2. \/ /\ index' = [index EXCEPT ![b] = 0]
             /\ index_disk' = [index_disk EXCEPT ![b] = 0]
             /\ headers' = [headers EXCEPT ![Height[b]] = NoBlock]
             /\ headers_disk' = [headers_disk EXCEPT ![Height[b]] = NoBlock]
          \/ UNCHANGED <<header_vars, index_vars>>
      BY <2>2
    <3>3. CASE UNCHANGED <<header_vars, index_vars>>
      BY <3>1, <3>3
    <3>4. CASE /\ index' = [index EXCEPT ![b] = 0]
               /\ index_disk' = [index_disk EXCEPT ![b] = 0]
               /\ headers' = [headers EXCEPT ![Height[b]] = NoBlock]
               /\ headers_disk' = [headers_disk EXCEPT ![Height[b]] = NoBlock]
      BY <3>1, <3>4
    <3> QED BY <3>2, <3>3, <3>4
  <2>4. proofs' \in Seq(Blocks \cup {Garbage}) /\ Len(proofs') = Len(proofs)
    <3>1. proofs \in Seq(Blocks \cup {Garbage})
      BY <1>1 DEF StoreTypes
    <3>2. CASE UNCHANGED proofs
      BY <3>1, <3>2
    <3>3. CASE index[b] \in 1 .. Len(proofs) /\ proofs' = [proofs EXCEPT ![index[b]] = Garbage]
      BY <3>1, <3>3
    <3> QED BY <2>2, <3>2, <3>3
  <2>5. UNCHANGED <<journal_vars, forest_vars, proofs_synced, committed, clean_vars, producer_vars,
                    worker_vars, active, shutdown, service_vars>>
    BY <2>2
  <2>6. StoreTypes'
    BY <1>1, <2>3, <2>4, <2>5 DEF StoreTypes
  <2>7. ThreadTypes'
    BY <1>1, <2>5 DEF ThreadTypes
  <2> QED BY <2>6, <2>7 DEF Types
<1>5. ASSUME index_survives PROVE index' \in [Blocks -> Nat] /\ index_disk' \in [Blocks -> Nat]
  BY <1>1, <1>5 DEF index_survives, StoreTypes
<1>6. CASE kill
  <2>1. /\ process_ends /\ index_survives
        /\ UNCHANGED <<journal_vars, forest_vars, header_vars, proof_vars, committed, clean, active>>
    BY <1>6 DEF kill
  <2>2. needs_replay' = TRUE
    BY <2>1 DEF process_ends
  <2>3. StoreTypes'
    BY <1>1, <1>5, <2>1, <2>2 DEF StoreTypes
  <2>4. active' \in Blocks
    BY <1>1, <2>1 DEF ThreadTypes
  <2> QED BY <2>1, <2>3, <2>4, EndTypes DEF Types
<1>7. CASE power_loss
  <2>1. /\ \E kept \in SUBSET Heights :
             headers' = [h \in Heights |-> IF h \in kept THEN headers[h] ELSE headers_disk[h]]
        /\ headers_disk' = headers'
        /\ \E n \in proofs_synced .. Len(proofs) :
             \E torn \in SUBSET (proofs_synced + 1 .. n) :
               proofs' = [i \in 1 .. n |-> IF i \in torn THEN Garbage ELSE proofs[i]]
        /\ proofs_synced' = Len(proofs')
        /\ process_ends /\ index_survives
        /\ UNCHANGED <<journal_vars, forest_vars, committed, clean, active>>
    BY <1>7 DEF power_loss
  <2>2. needs_replay' = TRUE
    BY <2>1 DEF process_ends
  <2>3. headers' \in [Heights -> Blocks \cup {NoBlock}] /\ headers_disk' \in [Heights -> Blocks \cup {NoBlock}]
    BY <1>1, <2>1 DEF StoreTypes
  <2>4. proofs' \in Seq(Blocks \cup {Garbage})
    <3>1. PICK n \in proofs_synced .. Len(proofs) :
             \E torn \in SUBSET (proofs_synced + 1 .. n) :
               proofs' = [i \in 1 .. n |-> IF i \in torn THEN Garbage ELSE proofs[i]]
      BY <2>1
    <3>2. n \in Nat /\ \A i \in 1 .. n : proofs[i] \in Blocks \cup {Garbage}
      BY <1>1 DEF StoreTypes
    <3> QED BY <3>1, <3>2
  <2>5. proofs_synced' \in 0 .. Len(proofs')
    <3>1. Len(proofs') \in Nat
      BY <2>4
    <3>2. proofs_synced' = Len(proofs')
      BY <2>1
    <3> QED BY <3>1, <3>2
  <2>6. index' \in [Blocks -> Nat] /\ index_disk' \in [Blocks -> Nat]
    BY <1>5, <2>1
  <2>7. UNCHANGED <<journal_vars, forest_vars, committed, clean>>
    BY <2>1
  <2>8. StoreTypes'
    BY <1>1, <2>2, <2>3, <2>4, <2>5, <2>6, <2>7 DEF StoreTypes
  <2>9. active' \in Blocks
    BY <1>1, <2>1 DEF ThreadTypes
  <2> QED BY <2>1, <2>8, <2>9, EndTypes DEF Types
<1> QED BY <1>2, <1>3, <1>4, <1>6, <1>7, WorkerTypes, ProducerTypes DEF Environment

-----------------------------------------------------------------------------
(* The theorems *)

\* The invariant holds initially.
LEMMA InitSafe ==
    ASSUME Init
    PROVE  Safe
<1>1. /\ log = << >> /\ floor = 1 /\ tail = << >> /\ forest_tip = Root /\ touched = {}
      /\ committed = 0 /\ pc = "down" /\ wpc = "idle" /\ clean = FALSE /\ fault = "none"
      /\ command = NoCommand
  BY DEF Init
<1>2. StoreTypes
  <2>1. << >> \in Seq([block : Blocks, status : {Forward, RolledBack}])
    OBVIOUS
  <2>2. Len(log) = 0 /\ floor \in 1 .. Len(log) + 1
    BY <1>1
  <2>3. proofs = << >> /\ proofs_synced = 0
    BY DEF Init
  <2>4. proofs \in Seq(Blocks \cup {Garbage}) /\ proofs_synced \in 0 .. Len(proofs)
    BY <2>3
  <2>5. headers \in [Heights -> Blocks \cup {NoBlock}] /\ headers_disk \in [Heights -> Blocks \cup {NoBlock}]
    BY DEF Init
  <2>6. index \in [Blocks -> Nat] /\ index_disk \in [Blocks -> Nat]
    BY DEF Init, NoIndexes
  <2>7. tail \in Seq(Blocks) /\ forest_tip \in Blocks /\ touched \subseteq Blocks
    BY <1>1, TreeAssumption
  <2>8. committed \in Heights \cup {0} /\ clean \in BOOLEAN /\ needs_replay \in BOOLEAN
    BY DEF Init
  <2>9. log \in Seq([block : Blocks, status : {Forward, RolledBack}])
    BY <1>1, <2>1
  <2> QED BY <2>2, <2>4, <2>5, <2>6, <2>7, <2>8, <2>9 DEF StoreTypes
<1>3. ThreadTypes
  <2>1. NoCommand \in [kind : Commands, blocks : Seq(Blocks)]
    BY DEF NoCommand, Commands
  <2>2. NoIndexes \in [Blocks -> Nat] /\ NoRequest \in [block : Blocks \cup {NoBlock}, place : Nat]
    BY DEF NoIndexes, NoRequest
  <2>3. << >> \in Seq(Blocks) /\ "down" \in RecoverySteps
    BY DEF RecoverySteps
  <2>4. /\ active \in Blocks /\ tip \in Blocks /\ dtip \in Blocks /\ goal \in Heights \cup {0}
        /\ window \in Seq(Blocks) /\ pending \in Seq(Blocks) /\ submitted \in Nat /\ completed \in Nat
        /\ command \in [kind : Commands, blocks : Seq(Blocks)] /\ indexes \in [Blocks -> Nat]
        /\ asked \in [block : Blocks \cup {NoBlock}, place : Nat] /\ pc \in RecoverySteps
    BY <2>1, <2>2, <2>3, TreeAssumption DEF Init
  <2>5. /\ reply \in BOOLEAN /\ shutdown \in BOOLEAN /\ heights_open \in BOOLEAN
        /\ peer \in Blocks \cup {NoBlock}
        /\ after \in {"range", "bail", "sync", "shutdown"} /\ wpc \in PublishSteps
    BY DEF Init
  <2> QED BY <2>4, <2>5 DEF ThreadTypes
<1>4. Retained = {} /\ RetainedBlocks = {} /\ ForwardRecords = {}
  <2>1. Retained = {}
    BY <1>1 DEF Retained
  <2> QED BY <2>1 DEF RetainedBlocks, ForwardRecords
<1>5. ~Up /\ ~Working
  BY <1>1 DEF Up, Working, RecoverySteps
<1>6. Forest
  BY <1>1, <1>4, <1>5 DEF Forest, InvLog, InvEmpty, InvForest, InvCommitted, InvWorker, InvFailed,
     InvClean, InvReplayed, InvChecks
<1> QED BY <1>2, <1>3, <1>6, InitThreads DEF Safe, Types

\* Every step of the bridge, of its recovery and of its environment keeps the
\* protocol of the threads, the journal, the forest and the types.
LEMMA NextSafe ==
    ASSUME Safe, [Next]_vars
    PROVE  Safe'
<1>1. Threads' /\ Forest'
  BY NextThreads, NextForest DEF Safe, Types
<1>2. Types'
  <2>1. CASE UNCHANGED vars
    <3>1. StoreTypes /\ ThreadTypes
      BY DEF Safe, Types
    <3>2. StoreTypes'
      BY <2>1, <3>1 DEF StoreTypes, vars, store_vars, journal_vars, forest_vars, header_vars,
         proof_vars, index_vars, clean_vars
    <3>3. ThreadTypes'
      BY <2>1, <3>1 DEF ThreadTypes, vars, core_vars, producer_vars, worker_vars, service_vars
    <3> QED BY <3>2, <3>3 DEF Types
  <2> QED BY <2>1, ProducerTypes, WorkerTypes, RecoveryTypes, EnvironmentTypes DEF Next
<1> QED BY <1>1, <1>2 DEF Safe

\* The invariant holds in every reachable state.
THEOREM Inductive == Spec => []Safe
<1>1. Init => Safe
  BY InitSafe
<1>2. Safe /\ [Next]_vars => Safe'
  BY NextSafe
<1> QED BY <1>1, <1>2, PTL DEF Spec

\* Four internal checks of prover.rs never fire, whatever is lost and whatever
\* peers ask: a window that does not extend the worker's tip, a roll back of a
\* block that is not the latest forward record, a barrier that finds the two
\* threads at different tips, and a replay that does not end at the journal's tip.
THEOREM ChecksPass == Spec => []InvChecks
<1>1. Safe => InvChecks
  BY DEF Safe, Forest
<1> QED BY <1>1, Inductive, PTL

\* All variables have their types in every reachable state.
THEOREM TypeCorrect == Spec => []TypeOK
<1>1. Safe => TypeOK
  <2> SUFFICES ASSUME Safe PROVE TypeOK
    OBVIOUS
  <2>1. StoreTypes /\ ThreadTypes
    BY DEF Safe, Types
  <2>2. submitted \in 0 .. PublicationBlocks /\ completed \in 0 .. PublicationBlocks
    <3>1. CASE Up
      <4>1. submitted <= PublicationBlocks
        BY <3>1 DEF Safe, Threads, InvPending
      <4>2. completed = 0 \/ completed = submitted
        BY <3>1 DEF Safe, Threads, InvChannel
      <4> QED BY <2>1, <4>1, <4>2, SizeAssumption DEF ThreadTypes
    <3>2. CASE ~Up
      BY <3>2, SizeAssumption DEF Safe, Threads, InvIdle
    <3> QED BY <3>1, <3>2
  <2>3. /\ command.kind \in Commands /\ command.blocks \in Seq(Blocks)
        /\ asked.block \in Blocks \cup {NoBlock} /\ asked.place \in Nat
    BY <2>1 DEF ThreadTypes
  <2> QED BY <2>1, <2>2, <2>3 DEF TypeOK, StoreTypes, ThreadTypes
<1> QED BY <1>1, Inductive, PTL

\* The producer always sees the forest through the right overlay.
THEOREM OverlayCovered == Spec => []OverlayCovers
<1>1. Safe => OverlayCovers
  <2> SUFFICES ASSUME Safe, pc = "fetch" PROVE OverlayCovers
    BY DEF OverlayCovers
  <2>1. Up /\ ~Restored /\ StoreTypes /\ ThreadTypes
    BY DEF Up, RecoverySteps, Restored, Safe, Types
  <2>2. /\ Extends(Below, pending) /\ EndOf(Below, pending) = tip
        /\ Len(pending) = submitted + Len(window)
        /\ submitted <= PublicationBlocks /\ Len(window) < PublicationBlocks
        /\ pending \in Seq(Blocks) /\ submitted \in Nat /\ Len(window) \in Nat /\ tip \in Blocks
    BY <2>1 DEF Safe, Threads, InvPending, ThreadTypes
  <2>3. Below \in Blocks
    <3>1. CASE Len(pending) = 0
      BY <2>2, <3>1 DEF Below
    <3>2. CASE Len(pending) # 0
      <4>1. 1 \in 1 .. Len(pending)
        BY <2>2, <3>2
      <4> QED BY <2>2, <3>2, <4>1, ParentFacts DEF Below, Extends
    <3> QED BY <3>1, <3>2
  <2>4. /\ Height[tip] = Height[Below] + Len(pending) /\ Branch[tip] = Branch[Below] \cup SetOf(pending)
        /\ Height[Below] \in Nat
    BY <2>2, <2>3, RunEnd, HeightTypes
  <2>5. ASSUME NEW i \in 1 .. Len(pending)
        PROVE  pending[i] = (CHOOSE b \in Branch[tip] : Height[b] = Height[tip] + i - Len(pending))
    <3>1. Height[pending[i]] = Height[Below] + i /\ pending[i] \in Branch[tip]
      BY <2>2, <2>3, <2>4, RunBranches DEF SetOf
    <3>2. Height[pending[i]] = Height[tip] + i - Len(pending)
      BY <2>2, <2>4, <3>1
    <3>3. \A b \in Branch[tip] : Height[b] = Height[pending[i]] => b = pending[i]
      BY <2>2, <3>1, BranchLine
    <3> HIDE DEF Below
    <3> QED BY <3>1, <3>2, <3>3
  <2>6. Len(pending) < MaxPending
    BY <2>2, SizeAssumption DEF MaxPending
  <2>7. command.kind \in {"none", "publish"}
    BY <2>1 DEF Safe, Threads, InvChannel, Commands, ThreadTypes
  <2>8. forest_tip = Below \/ \E i \in 1 .. Len(pending) : forest_tip = pending[i]
    <3>1. CASE command.kind = "publish"
      <4>1. /\ Below = Parent[command.blocks[1]] /\ LastBlock(command.blocks) = pending[submitted]
            /\ wpc # "failed" => dtip = IF wpc = "prune" THEN LastBlock(command.blocks) ELSE Below
        BY <2>1, <3>1, PublishCommand DEF Safe
      <4>2. submitted \in 1 .. Len(pending) /\ wpc \in PublishSteps \cup {"failed"}
        BY <2>1, <2>2, <3>1 DEF Safe, Threads, InvChannel
      <4>3. CASE wpc = "failed"
        BY <2>1, <3>1, <4>1, <4>2, <4>3 DEF Safe, Forest, InvFailed
      <4>4. CASE wpc # "failed"
        <5>1. forest_tip = Below \/ forest_tip = pending[submitted]
          BY <2>1, <3>1, <4>1, <4>2, <4>4 DEF Safe, Forest, InvWorker, Working
        <5> QED BY <4>2, <5>1
      <4> QED BY <4>3, <4>4
    <3>2. CASE command.kind = "none"
      <4>1. wpc = "idle" /\ forest_tip = dtip
        BY <2>1, <3>2 DEF Safe, Threads, InvChannel, Forest, InvWorker, Working
      <4>2. dtip = IF submitted # 0 THEN pending[submitted] ELSE Below
        BY <2>1, <3>2, <4>1 DEF Safe, Threads, InvDurable, Working
      <4>3. submitted # 0 => submitted \in 1 .. Len(pending)
        BY <2>2
      <4> QED BY <4>1, <4>2, <4>3
    <3> QED BY <2>7, <3>1, <3>2
  <2>9. Branch[Below] \subseteq Branch[forest_tip] /\ Branch[forest_tip] \subseteq Branch[tip]
    <3>1. CASE forest_tip = Below
      BY <2>4, <3>1
    <3>2. ASSUME NEW i \in 1 .. Len(pending), forest_tip = pending[i]
          PROVE  Branch[Below] \subseteq Branch[forest_tip] /\ Branch[forest_tip] \subseteq Branch[tip]
      <4>1. Branch[pending[i]] = Branch[Below] \cup {pending[j] : j \in 1 .. i}
        BY <2>2, <2>3, RunBranches, ZenonT(30)
      <4>2. pending[i] \in Branch[tip]
        BY <2>4 DEF SetOf
      <4> QED BY <2>2, <3>2, <4>1, <4>2, BranchBelow
    <3> QED BY <2>8, <3>1, <3>2
  <2> QED BY <2>2, <2>4, <2>5, <2>6, <2>9 DEF OverlayCovers
<1> QED BY <1>1, Inductive, PTL
=============================================================================
