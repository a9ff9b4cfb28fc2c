------------------------ MODULE ForestJournalProofs ------------------------
(***************************************************************************)
(* Proofs about ForestJournal when the only crash is a power loss: its     *)
(* invariants, and that it implements PublishedLog.                        *)
(*                                                                         *)
(* The argument: the marker in memory is always intact in its own slot,    *)
(* on the medium and in the cache, because a writer only ever touches the  *)
(* other slot.  The other slot holds something older, something torn, or   *)
(* a candidate whose records were flushed before it was written.  So every *)
(* outcome of a power loss reads the marker or the candidate, and both are *)
(* trusted: all their pages are complete records on the medium.            *)
(***************************************************************************)
EXTENDS ForestJournal, TLAPS

-----------------------------------------------------------------------------
(* The inductive invariant *)

Other(i) == 1 - i

WellFormed(m) ==
    /\ m \in PublicationMarker
    /\ m.replay_start <= m.end
    /\ m.end > PageSize => m.replay_start < m.end
    /\ m.end = PageSize => m.block = NoBlock

\* Page p is the same record whatever a power loss keeps, and agrees with what
\* was shown of it, or with what was appended if nothing was shown yet.
Solid(p) ==
    /\ IsRecord(wal[p]) /\ IsRecord(disk[p])
    /\ wal[p].block = disk[p].block
    /\ shown[p] # Absent => /\ wal[p].block = shown[p].block
                            /\ shown[p].status = RolledBack =>
                                 wal[p].status = RolledBack /\ disk[p].status = RolledBack
    /\ shown[p] = Absent /\ mode = "up" => wal[p] = records[p] /\ disk[p] = records[p]

\* A marker that recovery may select: its range is all records.
Trusted(m) ==
    /\ \A p \in Pos : m.replay_start <= p /\ p < m.end => Solid(p)
    /\ m.end > PageSize => wal[offset(m)].block = m.block
    /\ \A p \in Pos : p >= m.end => shown[p] = Absent

OlderThan(x, m) ==
    x # TornSlot => /\ WellFormed(x)
                    /\ x.generation < m.generation
                    /\ x.generation % 2 = Other(m.generation % 2)
                    /\ MonotonicSlots(x, m)

\* One generation ahead of the marker in memory, and within the log.
Follows(m) ==
    /\ WellFormed(m)
    /\ m.generation = marker.generation + 1
    /\ MonotonicSlots(marker, m)
    /\ m.end <= appended_end
    /\ m.replay_start <= marker.end

Writing == mpc \in {"publish_write", "floor_write", "fallback_write"}
Syncing == mpc \in {"publish_sync", "floor_sync", "fallback_sync"}

MySlot == slot_of(marker)
OtherSlot == Other(slot_of(marker))

\* The marker in memory is intact in its own slot; the other slot is older, or
\* is the one being written, or was left behind by a write that failed.
InvSlots ==
    /\ WellFormed(marker)
    /\ published_end = marker.end
    /\ marker.end <= appended_end
    /\ slots[MySlot] = marker
    /\ disk_slots[MySlot] = marker
    /\ OlderThan(disk_slots[OtherSlot], marker)
    /\ \/ Syncing /\ slots[OtherSlot] = next
       \/ ~Syncing /\ slots[OtherSlot] = disk_slots[OtherSlot]
       \/ /\ mpc = "idle" /\ poisoned
          /\ slots[OtherSlot] = TornSlot \/ Follows(slots[OtherSlot])

\* The markers that a reader may come to select.
Believed(m) ==
    \/ m = marker
    \/ m \in {slots[0], slots[1]} /\ m # TornSlot /\ m.generation > marker.generation
    \/ Writing /\ m = next

InvTrusted == \A m \in {marker, next, slots[0], slots[1]} : Believed(m) => Trusted(m)

InvRecords ==
    \A p \in Pos :
        /\ records[p] # Absent =>
             /\ p < appended_end
             /\ marker.replay_start <= p
             /\ pruning.replay_start <= p
             /\ IsRecord(wal[p]) /\ wal[p].block = records[p].block
             /\ p < marker.end => records[p] = shown[p]
        /\ marker.end <= p /\ p < appended_end =>
             records[p] # Absent /\ wal[p] = records[p] /\ records[p].status = Forward
        /\ p < marker.end => shown[p] # Absent

\* Published pages are settled: cached, stored and shown alike, except while a
\* status byte is being rewritten or after that has failed.
InvSettled ==
    ~poisoned => \A p \in Pos :
        /\ marker.replay_start <= p /\ p < marker.end
        /\ ~(jpc = "roll_back" /\ p = jarg)
        => disk[p] = shown[p] /\ wal[p] = shown[p]

InvPublisher ==
    /\ mpc \notin {"idle", "punch"} => Follows(next)
    /\ mpc = "publish_flush" => records[offset(next)].block = next.block
    /\ mpc \in {"publish_flush", "publish_write", "publish_sync"} =>
         next.replay_start = marker.replay_start /\ marker.end < next.end
    /\ mpc \in {"floor_write", "floor_sync", "fallback_write", "fallback_sync"} =>
         next.end = marker.end /\ pruning.replay_start = next.replay_start
    /\ mpc \in {"fallback_write", "fallback_sync", "punch"} =>
         pruning.replay_start = marker.replay_start
    /\ mpc = "punch" => \A i \in Slot : slots[i].replay_start = marker.replay_start
    /\ pruning.replay_start < marker.end

InvJournal ==
    /\ jpc = "append" => appended_end <= MaxRecords
    /\ jpc = "roll_back" => /\ records[jarg] # Absent /\ jarg < marker.end
                            /\ wal[jarg].status = RolledBack

InvUp ==
    mode = "up" => /\ InvSlots /\ InvTrusted /\ InvRecords /\ InvSettled
                   /\ InvPublisher /\ InvJournal

InvDown ==
    mode \in {"down", "opening"} =>
        LET m == read_publication_marker(slots) IN
        /\ slots = disk_slots
        /\ SlotsReadable(slots)
        /\ \A i \in Slot : slots[i] # TornSlot => WellFormed(slots[i])
        /\ Trusted(m)
        /\ jpc = "idle" /\ mpc = "idle" /\ pruning = NoPrune /\ ~poisoned
        /\ \A p \in Pos : m.replay_start <= p /\ p < m.end => wal[p] = disk[p]
        /\ \A p \in Pos : p < m.replay_start => shown[p] # Absent

InvClean ==
    clean => /\ mode = "down"
             /\ LET m == read_publication_marker(slots) IN
                \A p \in Pos : m.replay_start <= p /\ p < m.end => wal[p] = shown[p]

IInv ==
    /\ TypeOK
    /\ InvUp /\ InvDown /\ InvClean
    /\ mode # "refused"
    /\ FloorsExcludeHoles

-----------------------------------------------------------------------------
\* Generations alternate between the two slots.
LEMMA SlotFacts ==
    ASSUME NEW g \in Nat
    PROVE  /\ g % 2 \in Slot
           /\ (g + 1) % 2 = Other(g % 2)
           /\ Other(g % 2) \in Slot
           /\ Other(g % 2) # g % 2
           /\ Other(Other(g % 2)) = g % 2
  BY DEF Slot, Other

\* The journal that initialize_journal installs satisfies the invariant.
LEMMA InitIInv == Init => IInv
<1> SUFFICES ASSUME Init PROVE IInv
  OBVIOUS
<1> USE BlocksAssumption, BoundsAssumption
<1>1. TypeOK
  <2> USE DEF Init, Pos, End, Slot, PageSize
  <2>1. NoRecords \in [Pos -> JournalRecord \cup {Absent}]
    BY DEF NoRecords
  <2>2. NoRecords \in [Pos -> Page]
    BY DEF NoRecords, Page
  <2>3. slots \in [Slot -> PublicationMarker]
    BY DEF FirstMarker, PublicationMarker
  <2>4. disk_slots \in [Slot -> PublicationMarker]
    BY DEF FirstMarker, PublicationMarker
  <2>5. pruning \in [old_start : 0 .. MaxRecords + 1, replay_start : 0 .. MaxRecords + 1]
    BY DEF NoPrune
  <2>6. clean \in BOOLEAN /\ poisoned \in BOOLEAN /\ needs_replay \in BOOLEAN
    OBVIOUS
  <2>7. /\ appended_end \in End /\ published_end \in End /\ epoch \in 0 .. MaxEpoch
        /\ jarg \in Pos
    OBVIOUS
  <2>8. /\ mode = "down" /\ jpc = "idle" /\ mpc = "idle"
        /\ marker = TornSlot /\ next = TornSlot /\ submitted = NoBoundary
        /\ wal = NoRecords /\ disk = NoRecords /\ records = NoRecords /\ shown = NoRecords
    OBVIOUS
  <2> HIDE DEF Init, Pos, End, Slot, PageSize
  <2> QED
    BY <2>1, <2>2, <2>3, <2>4, <2>5, <2>6, <2>7, <2>8 DEF TypeOK
<1>2. InvDown
  <2> USE DEF Init, Pos, End, Slot, PageSize
  <2>1. /\ slots[0] = FirstMarker(0) /\ slots[1] = FirstMarker(1)
        /\ FirstMarker(0) # TornSlot /\ FirstMarker(1) # TornSlot
    BY DEF FirstMarker, TornSlot
  <2>2. NewerSlot(slots) = 1 /\ Checksummed(slots) = Slot
    BY <2>1 DEF NewerSlot, Checksummed, FirstMarker
  <2>3. SlotsReadable(slots)
    BY <2>1, <2>2 DEF SlotsReadable, ValidBoundary, MonotonicSlots, FirstMarker
  <2>4. Trusted(FirstMarker(1))
    BY DEF Trusted, FirstMarker, NoRecords
  <2>5. WellFormed(FirstMarker(0)) /\ WellFormed(FirstMarker(1))
    BY DEF WellFormed, FirstMarker, PublicationMarker
  <2> QED
    BY <2>1, <2>2, <2>3, <2>4, <2>5 DEF InvDown, read_publication_marker, FirstMarker
<1>3. FloorsExcludeHoles
  BY DEF Init, FloorsExcludeHoles, NoRecords, Absent, Hole
<1> QED
  BY <1>1, <1>2, <1>3 DEF IInv, InvUp, InvClean, Init

-----------------------------------------------------------------------------
(* A running process *)

Up == IInv /\ mode = "up"

\* What a running process may rely on, part by part.
LEMMA UpFacts ==
    ASSUME Up
    PROVE  /\ TypeOK /\ InvSlots /\ InvTrusted /\ InvRecords /\ InvSettled
           /\ InvPublisher /\ InvJournal /\ FloorsExcludeHoles
           /\ ~clean
  BY DEF Up, IInv, InvUp, InvClean

\* The numbers of a running process.
LEMMA UpTypes ==
    ASSUME Up
    PROVE  /\ MaxRecords \in Nat /\ 1 \in Pos
           /\ marker \in PublicationMarker /\ marker # TornSlot
           /\ marker.generation \in Nat
           /\ marker.end \in Nat /\ marker.replay_start \in Nat
           /\ 1 <= marker.replay_start /\ marker.replay_start <= marker.end
           /\ marker.end <= appended_end /\ appended_end \in Nat
           /\ appended_end <= MaxRecords + 1
           /\ published_end = marker.end
           /\ pruning.replay_start \in Nat /\ pruning.old_start \in Nat
           /\ MySlot \in Slot /\ OtherSlot \in Slot /\ MySlot # OtherSlot
  <1> USE UpFacts, BoundsAssumption DEF PageSize
  <1>1. marker \in PublicationMarker /\ marker.replay_start <= marker.end
    BY DEF InvSlots, WellFormed
  <1>2. /\ marker.generation \in Nat /\ marker.end \in End /\ marker.replay_start \in End
    BY <1>1 DEF PublicationMarker
  <1>3. marker # TornSlot
    BY <1>1 DEF PublicationMarker, TornSlot, End
  <1>4. pruning.replay_start \in Nat /\ pruning.old_start \in Nat
    BY DEF TypeOK
  <1>5. MySlot \in Slot /\ OtherSlot \in Slot /\ MySlot # OtherSlot
    BY <1>2, SlotFacts DEF MySlot, OtherSlot, slot_of
  <1>6. /\ appended_end \in Nat /\ appended_end <= MaxRecords + 1
        /\ published_end = marker.end /\ marker.end <= appended_end
    BY DEF TypeOK, End, InvSlots
  <1> QED
    BY <1>1, <1>2, <1>3, <1>4, <1>5, <1>6 DEF TypeOK, Pos, End

\* The page functions of a running process.
LEMMA UpPages ==
    ASSUME Up
    PROVE  /\ wal \in [Pos -> Page] /\ disk \in [Pos -> Page]
           /\ records \in [Pos -> JournalRecord \cup {Absent}]
           /\ shown \in [Pos -> JournalRecord \cup {Absent}]
  BY UpFacts DEF TypeOK

\* The record that a boundary names lies below its end.
LEMMA OffsetFacts ==
    ASSUME NEW m, m.end \in End, m.end > 1
    PROVE  /\ offset(m) \in Pos /\ offset(m) < m.end
           /\ \A k \in Nat : k < m.end => k <= offset(m)
  BY BoundsAssumption DEF End, PageSize, offset, Pos

\* Offsets are positive.
LEMMA PosFacts ==
    ASSUME NEW p \in Pos
    PROVE  p \in Nat /\ 1 <= p
  BY DEF Pos, PageSize

\* Records are told apart from the three non-records.
LEMMA RecordPages ==
    ASSUME NEW x \in Page
    PROVE  /\ IsRecord(x) <=> x \in JournalRecord
           /\ x = Hole => ~IsRecord(x)
           /\ Torn \in Page /\ Absent \in Page /\ Hole \in Page
           /\ Torn # Hole /\ Absent # Hole
           /\ Absent \notin JournalRecord
  BY BlocksAssumption DEF Page, IsRecord, JournalRecord, Absent, Torn, Hole, Forward,
       RolledBack

\* A page stays solid when it is untouched or written back.
LEMMA SolidFrame ==
    ASSUME NEW p \in Pos, Solid(p), mode' = mode,
           wal'[p] = wal[p], disk'[p] \in {disk[p], wal[p]},
           shown'[p] = shown[p], records'[p] = records[p] \/ shown[p] # Absent
    PROVE  Solid(p)'
  BY DEF Solid

\* A marker stays trusted when its pages stay solid.
LEMMA TrustedFrame ==
    ASSUME NEW m, Trusted(m), mode' = mode,
           \A p \in Pos : m.replay_start <= p /\ p < m.end => Solid(p)',
           m.end > PageSize => wal'[offset(m)] = wal[offset(m)],
           \A p \in Pos : p >= m.end => shown'[p] = shown[p]
    PROVE  Trusted(m)'
  BY DEF Trusted

\* A marker stays trusted when no page changes.
LEMMA SamePages ==
    ASSUME NEW m, Trusted(m), UNCHANGED <<wal, disk, records, shown, mode>>
    PROVE  Trusted(m)'
  BY DEF Trusted, Solid

\* The only slot newer than the marker is the other one.
LEMMA SlotsFacts ==
    ASSUME Up, NEW m, m \in {slots[0], slots[1]}, m # TornSlot,
           m.generation > marker.generation
    PROVE  /\ m = slots[OtherSlot] /\ Follows(m)
           /\ (Syncing /\ m = next) \/ (mpc = "idle" /\ poisoned)
  <1> USE UpFacts, UpTypes
  <1>1. m = slots[OtherSlot]
    BY DEF InvSlots, Slot
  <1>2. slots[OtherSlot] # disk_slots[OtherSlot]
    BY <1>1 DEF InvSlots, OlderThan, WellFormed, PublicationMarker
  <1>3. Syncing => Follows(next)
    BY DEF InvPublisher, Syncing
  <1> QED
    BY <1>1, <1>2, <1>3 DEF InvSlots

\* No slot is more than one generation ahead.
LEMMA NoNewerSlot ==
    ASSUME Up, NEW m, m \in {slots[0], slots[1]}, m # TornSlot
    PROVE  m.generation \in Nat /\ m.generation <= marker.generation + 1
  <1>1. m.generation \in Nat
    BY UpFacts DEF TypeOK, Slot, PublicationMarker
  <1> QED
    BY <1>1, UpTypes, SlotsFacts DEF Follows

\* Every believed marker is trusted and covers the marker in memory.
LEMMA BelievedFacts ==
    ASSUME Up, NEW m, Believed(m)
    PROVE  /\ Trusted(m)
           /\ m \in PublicationMarker
           /\ m.end \in Nat /\ m.replay_start \in Nat
           /\ m.replay_start <= m.end /\ m.end <= appended_end
           /\ marker.replay_start <= m.replay_start /\ marker.end <= m.end
           /\ m.end > 1 => /\ offset(m) \in Pos /\ offset(m) < m.end
                           /\ m.replay_start <= offset(m)
           /\ m.replay_start <= marker.end
           /\ m = marker \/ (mpc = "idle" /\ poisoned) \/ Syncing \/ Writing
  <1> USE UpFacts, UpTypes
  <1>1. m = marker \/ Follows(m)
    BY SlotsFacts DEF Believed, InvPublisher, Writing
  <1>2. m = marker \/ (mpc = "idle" /\ poisoned) \/ Syncing \/ Writing
    BY SlotsFacts DEF Believed
  <1>3. WellFormed(m)
    BY <1>1 DEF Follows, InvSlots
  <1>4. /\ m \in PublicationMarker /\ m.end \in End /\ m.replay_start \in End
        /\ m.replay_start <= m.end
        /\ m.end > 1 => m.replay_start < m.end
    BY <1>3 DEF WellFormed, PublicationMarker, PageSize
  <1>5. /\ marker.replay_start <= m.replay_start /\ marker.end <= m.end
        /\ m.end <= appended_end /\ m.replay_start <= marker.end
    BY <1>1 DEF Follows, MonotonicSlots
  <1>6. Trusted(m)
    BY DEF InvTrusted, Believed
  <1>7. m.end \in Nat /\ m.replay_start \in Nat
    BY <1>4 DEF End, PageSize
  <1>8. m.end > 1 => /\ offset(m) \in Pos /\ offset(m) < m.end
                     /\ m.replay_start <= offset(m)
    BY <1>4, <1>7, OffsetFacts
  <1> QED
    BY <1>2, <1>4, <1>5, <1>6, <1>7, <1>8

\* Steps that touch no page only have to account for new believed markers.
LEMMA KeepTrusted ==
    ASSUME Up, UNCHANGED <<wal, disk, records, shown, mode>>,
           \A m : Believed(m)' => Trusted(m)
    PROVE  InvTrusted'
  BY SamePages DEF InvTrusted

\* The marker being installed.
LEMMA NextFacts ==
    ASSUME Up, mpc \notin {"idle", "punch"}
    PROVE  /\ WellFormed(next) /\ Follows(next)
           /\ next \in PublicationMarker /\ next # TornSlot
           /\ next.generation = marker.generation + 1
           /\ next.end \in Nat /\ next.end \in End /\ next.replay_start \in Nat
           /\ marker.end <= next.end /\ marker.replay_start <= next.replay_start
           /\ next.end <= appended_end
           /\ slot_of(next) = OtherSlot /\ slot_of(next) \in Slot
  <1>1. Follows(next)
    BY UpFacts DEF InvPublisher
  <1>2. WellFormed(next) /\ next \in PublicationMarker
    BY <1>1 DEF Follows, WellFormed
  <1>3. next.end \in End /\ next.replay_start \in End
    BY <1>2 DEF PublicationMarker
  <1>4. next.end \in Nat /\ next.replay_start \in Nat /\ next # TornSlot
    BY <1>3 DEF End, PageSize, TornSlot
  <1>5. /\ next.generation = marker.generation + 1
        /\ marker.end <= next.end /\ marker.replay_start <= next.replay_start
        /\ next.end <= appended_end
    BY <1>1 DEF Follows, MonotonicSlots
  <1>6. slot_of(next) = OtherSlot /\ slot_of(next) \in Slot
    BY <1>5, UpTypes, SlotFacts DEF slot_of, OtherSlot
  <1> QED
    BY <1>1, <1>2, <1>3, <1>4, <1>5, <1>6

\* After the slot sync the written marker is the one in memory.
LEMMA SyncedSlots ==
    ASSUME Up, Syncing, marker' = next, slots' = slots, disk_slots' = slots,
           published_end' = next.end, appended_end' = appended_end, ~Syncing'
    PROVE  InvSlots'
  <1> USE UpFacts, UpTypes, NextFacts DEF Syncing
  <1>1. MySlot' = OtherSlot /\ OtherSlot' = MySlot
    BY SlotFacts DEF MySlot, OtherSlot, slot_of
  <1>2. slots[OtherSlot] = next /\ slots[MySlot] = marker
    BY DEF InvSlots
  <1>3. OlderThan(marker, next)
    BY SlotFacts DEF OlderThan, InvSlots, Follows, slot_of
  <1> QED
    BY <1>1, <1>2, <1>3 DEF InvSlots, OlderThan

-----------------------------------------------------------------------------
(* Steps of a running process *)

\* Extending the file touches only the page after the appended records.
LEMMA AppendBeginKeeps ==
    ASSUME Up, append_begin
    PROVE  IInv'
<1> USE UpFacts, UpTypes, UpPages, PosFacts
<1>1. mode' = "up" /\ clean' = clean
  BY DEF append_begin, publication_vars, JournalFree, Up
<1>2. TypeOK'
  <2>1. wal' \in [Pos -> Page]
    BY RecordPages DEF append_begin, Page
  <2> QED
    BY <2>1 DEF append_begin, publication_vars, JournalFree, TypeOK
<1>3. InvSlots'
  BY DEF append_begin, publication_vars, JournalFree, InvSlots, Follows, Syncing,
       MySlot, OtherSlot, slot_of
<1>4. InvTrusted'
  <2> SUFFICES ASSUME NEW m, Believed(m)' PROVE Trusted(m)'
    BY DEF InvTrusted
  <2>1. Believed(m)
    BY DEF append_begin, publication_vars, JournalFree, Believed, Writing
  <2>2. ASSUME NEW p \in Pos, m.replay_start <= p, p < m.end
        PROVE  Solid(p)'
    <3>1. Solid(p)
      BY <2>1, <2>2, BelievedFacts DEF Trusted
    <3>2. /\ wal'[p] = wal[p] /\ disk'[p] \in {disk[p], wal[p]}
          /\ shown'[p] = shown[p] /\ records'[p] = records[p]
      BY <2>1, <2>2, BelievedFacts DEF append_begin, publication_vars, JournalFree
    <3> QED
      BY <1>1, <3>1, <3>2, SolidFrame DEF Up
  <2>3. m.end > PageSize => wal'[offset(m)] = wal[offset(m)]
    BY <2>1, BelievedFacts DEF append_begin, publication_vars, JournalFree, PageSize
  <2>4. mode' = mode /\ shown' = shown
    BY <1>1 DEF append_begin, publication_vars, JournalFree, Up
  <2> QED
    BY <2>1, <2>2, <2>3, <2>4, BelievedFacts, TrustedFrame
<1>5. InvRecords'
  BY DEF append_begin, publication_vars, JournalFree, InvRecords
<1>6. InvSettled'
  BY DEF append_begin, publication_vars, JournalFree, InvSettled
<1>7. InvPublisher'
  BY DEF append_begin, publication_vars, JournalFree, InvPublisher, Follows
<1>8. InvJournal'
  BY DEF append_begin, publication_vars, JournalFree, InvJournal
<1>9. FloorsExcludeHoles'
  <2>1. \A p \in Pos : wal'[p] = Hole => wal[p] = Hole
    BY DEF append_begin, Torn, Hole
  <2> QED
    BY <2>1 DEF append_begin, publication_vars, JournalFree, FloorsExcludeHoles
<1> QED
  BY <1>1, <1>2, <1>3, <1>4, <1>5, <1>6, <1>7, <1>8, <1>9 DEF IInv, InvUp, InvDown,
       InvClean

\* A finished record lies beyond every believed marker.
LEMMA AppendEndKeeps ==
    ASSUME Up, NEW b \in Blocks, append_end(b)
    PROVE  IInv'
<1> USE UpFacts, UpTypes, UpPages, PosFacts
<1>1. mode' = "up" /\ clean' = clean
  BY DEF append_end, publication_vars, Up
<1>2. TypeOK'
  <2>1. [block |-> b, status |-> Forward] \in JournalRecord
    BY DEF JournalRecord
  <2>2. wal' \in [Pos -> Page] /\ records' \in [Pos -> JournalRecord \cup {Absent}]
    BY <2>1 DEF append_end, Page
  <2>3. appended_end' \in End
    BY DEF append_end, InvJournal, End, PageSize
  <2>4. needs_replay' \in BOOLEAN
    BY DEF append_end
  <2> QED
    BY <2>2, <2>3, <2>4 DEF append_end, publication_vars, TypeOK
<1>3. InvSlots'
  <2>1. appended_end' > appended_end
    BY DEF append_end
  <2>2. ASSUME NEW m, Follows(m) PROVE Follows(m)'
    BY <2>1, <2>2 DEF append_end, publication_vars, Follows, WellFormed,
         PublicationMarker, End, PageSize
  <2> QED
    BY <2>1, <2>2 DEF append_end, publication_vars, InvSlots, Syncing, MySlot, OtherSlot
<1>4. InvTrusted'
  <2> SUFFICES ASSUME NEW m, Believed(m)' PROVE Trusted(m)'
    BY DEF InvTrusted
  <2>1. Believed(m)
    BY DEF append_end, publication_vars, Believed, Writing
  <2>2. ASSUME NEW p \in Pos, m.replay_start <= p, p < m.end
        PROVE  Solid(p)'
    <3>1. Solid(p)
      BY <2>1, <2>2, BelievedFacts DEF Trusted
    <3>2. /\ wal'[p] = wal[p] /\ disk'[p] \in {disk[p], wal[p]}
          /\ shown'[p] = shown[p] /\ records'[p] = records[p]
      BY <2>1, <2>2, BelievedFacts DEF append_end, publication_vars
    <3> QED
      BY <1>1, <3>1, <3>2, SolidFrame DEF Up
  <2>3. m.end > PageSize => wal'[offset(m)] = wal[offset(m)]
    BY <2>1, BelievedFacts DEF append_end, publication_vars, PageSize
  <2>4. mode' = mode /\ shown' = shown
    BY <1>1 DEF append_end, publication_vars, Up
  <2> QED
    BY <2>1, <2>2, <2>3, <2>4, BelievedFacts, TrustedFrame
<1>5. InvRecords'
  <2>1. /\ appended_end \in Pos /\ appended_end' = appended_end + 1
        /\ wal'[appended_end] = [block |-> b, status |-> Forward]
        /\ records'[appended_end] = [block |-> b, status |-> Forward]
        /\ \A p \in Pos : p # appended_end => wal'[p] = wal[p] /\ records'[p] = records[p]
    BY DEF append_end, InvJournal, Pos, PageSize
  <2>2. /\ UNCHANGED <<marker, pruning, shown>>
        /\ pruning.replay_start < marker.end
    BY DEF append_end, publication_vars, InvPublisher
  <2>3. [block |-> b, status |-> Forward] # Absent /\ IsRecord([block |-> b, status |-> Forward])
    BY DEF Absent, IsRecord, Forward
  <2> QED
    BY <2>1, <2>2, <2>3 DEF InvRecords
<1>6. InvSettled'
  BY DEF append_end, publication_vars, InvSettled
<1>7. InvPublisher'
  <2>1. appended_end' > appended_end
    BY DEF append_end
  <2>2. Follows(next) => Follows(next)'
    BY <2>1 DEF append_end, publication_vars, Follows, WellFormed, PublicationMarker,
         End, PageSize
  <2>3. mpc = "publish_flush" => records'[offset(next)] = records[offset(next)]
    BY DEF append_end, InvPublisher, Follows, WellFormed, PublicationMarker, End,
         PageSize, offset
  <2> QED
    BY <2>2, <2>3 DEF append_end, publication_vars, InvPublisher
<1>8. InvJournal'
  BY DEF append_end, publication_vars, InvJournal
<1>9. FloorsExcludeHoles'
  <2>1. \A p \in Pos : wal'[p] = Hole => wal[p] = Hole
    BY DEF append_end, Hole, Forward
  <2> QED
    BY <2>1 DEF append_end, publication_vars, FloorsExcludeHoles
<1> QED
  BY <1>1, <1>2, <1>3, <1>4, <1>5, <1>6, <1>7, <1>8, <1>9 DEF IInv, InvUp, InvDown,
       InvClean

\* Cutting the failed record off, or leaving it, touches nothing below
\* appended_end.
LEMMA AppendFailKeeps ==
    ASSUME Up, append_fail
    PROVE  IInv'
<1> USE UpFacts, UpTypes, UpPages, PosFacts
<1>1. mode' = "up" /\ clean' = clean
  BY DEF append_fail, publication_vars, set_len, Up
<1>2. TypeOK'
  <2>1. wal' \in [Pos -> Page]
    BY DEF append_fail, set_len, Page
  <2>2. poisoned' \in BOOLEAN
    BY DEF append_fail, TypeOK
  <2> QED
    BY <2>1, <2>2 DEF append_fail, publication_vars, set_len, TypeOK
<1>3. InvSlots'
  BY DEF append_fail, publication_vars, set_len, InvSlots, Follows, Syncing, MySlot,
       OtherSlot, slot_of
<1>4. InvTrusted'
  <2>0. \A p \in Pos : p < appended_end => wal'[p] = wal[p]
    BY DEF append_fail, set_len
  <2> SUFFICES ASSUME NEW m, Believed(m)' PROVE Trusted(m)'
    BY DEF InvTrusted
  <2>1. Believed(m)
    BY DEF append_fail, publication_vars, set_len, Believed, Writing
  <2>2. ASSUME NEW p \in Pos, m.replay_start <= p, p < m.end
        PROVE  Solid(p)'
    <3>1. Solid(p)
      BY <2>1, <2>2, BelievedFacts DEF Trusted
    <3> QED
      BY <1>1, <2>0, <2>1, <2>2, <3>1, BelievedFacts, SolidFrame DEF append_fail,
           publication_vars, set_len, Up
  <2>3. m.end > PageSize => wal'[offset(m)] = wal[offset(m)]
    BY <2>0, <2>1, BelievedFacts DEF PageSize
  <2>4. mode' = mode /\ shown' = shown
    BY <1>1 DEF append_fail, publication_vars, set_len, Up
  <2> QED
    BY <2>1, <2>2, <2>3, <2>4, BelievedFacts, TrustedFrame
<1>5. InvRecords'
  BY DEF append_fail, publication_vars, set_len, InvRecords
<1>6. InvSettled'
  <2>1. \A p \in Pos : p < appended_end => wal'[p] = wal[p]
    BY DEF append_fail, set_len
  <2>2. ~poisoned' => ~poisoned
    BY DEF append_fail
  <2> QED
    BY <2>1, <2>2 DEF append_fail, publication_vars, set_len, InvSettled
<1>7. InvPublisher'
  BY DEF append_fail, publication_vars, set_len, InvPublisher, Follows
<1>8. InvJournal'
  BY DEF append_fail, publication_vars, set_len, InvJournal
<1>9. FloorsExcludeHoles'
  <2>1. \A p \in Pos : wal'[p] = Hole => wal[p] = Hole
    BY DEF append_fail, set_len, Absent, Hole
  <2> QED
    BY <2>1 DEF append_fail, FloorsExcludeHoles
<1> QED
  BY <1>1, <1>2, <1>3, <1>4, <1>5, <1>6, <1>7, <1>8, <1>9 DEF IInv, InvUp, InvDown,
       InvClean

\* Copying the cached pages to the medium settles them.
LEMMA FlushKeeps ==
    ASSUME Up, flush
    PROVE  IInv'
<1> USE UpFacts, UpTypes, UpPages, PosFacts
<1>1. mode' = "up" /\ clean' = clean
  BY DEF flush, journal_vars, publication_vars, JournalFree, Up
<1>2. TypeOK'
  BY DEF flush, journal_vars, publication_vars, JournalFree, TypeOK, Pos, End
<1>3. InvSlots'
  BY DEF flush, journal_vars, publication_vars, JournalFree, InvSlots, Follows,
       Syncing, MySlot, OtherSlot, slot_of
<1>4. InvTrusted'
  <2> SUFFICES ASSUME NEW m, Believed(m)' PROVE Trusted(m)'
    BY DEF InvTrusted
  <2>1. Believed(m)
    BY DEF flush, journal_vars, publication_vars, JournalFree, Believed, Writing
  <2>2. ASSUME NEW p \in Pos, m.replay_start <= p, p < m.end
        PROVE  Solid(p)'
    <3>1. Solid(p)
      BY <2>1, <2>2, BelievedFacts DEF Trusted
    <3>2. /\ wal'[p] = wal[p] /\ disk'[p] \in {disk[p], wal[p]}
          /\ shown'[p] = shown[p] /\ records'[p] = records[p]
      BY <2>1, <2>2, BelievedFacts DEF flush, journal_vars, publication_vars,
           JournalFree
    <3> QED
      BY <1>1, <3>1, <3>2, SolidFrame DEF Up
  <2>3. m.end > PageSize => wal'[offset(m)] = wal[offset(m)]
    BY <2>1, BelievedFacts DEF flush, journal_vars, publication_vars, JournalFree,
         PageSize
  <2>4. mode' = mode /\ shown' = shown
    BY <1>1 DEF flush, journal_vars, publication_vars, JournalFree, Up
  <2> QED
    BY <2>1, <2>2, <2>3, <2>4, BelievedFacts, TrustedFrame
<1>5. InvRecords'
  BY DEF flush, journal_vars, publication_vars, JournalFree, InvRecords
<1>6. InvSettled'
  BY DEF flush, journal_vars, publication_vars, JournalFree, InvSettled
<1>7. InvPublisher'
  BY DEF flush, journal_vars, publication_vars, JournalFree, InvPublisher, Follows
<1>8. InvJournal'
  BY DEF flush, journal_vars, publication_vars, JournalFree, InvJournal
<1>9. FloorsExcludeHoles'
  BY DEF flush, journal_vars, publication_vars, JournalFree, FloorsExcludeHoles
<1> QED
  BY <1>1, <1>2, <1>3, <1>4, <1>5, <1>6, <1>7, <1>8, <1>9 DEF IInv, InvUp, InvDown,
       InvClean

\* A discard runs only when no other marker is believed.
LEMMA DiscardUnpublishedKeeps ==
    ASSUME Up, discard_unpublished
    PROVE  IInv'
<1> USE UpFacts, UpTypes, UpPages, PosFacts
<1>1. mode' = "up" /\ clean' = clean
  BY DEF discard_unpublished, publication_vars, JournalFree, MarkerFree, set_len, Up
<1>2. TypeOK'
  <2>1. wal' \in [Pos -> Page] /\ records' \in [Pos -> JournalRecord \cup {Absent}]
    BY DEF discard_unpublished, set_len, Page
  <2>2. appended_end' \in End
    BY DEF discard_unpublished, PublicationMarker
  <2>3. epoch' \in 0 .. MaxEpoch
    BY BoundsAssumption DEF discard_unpublished, TypeOK
  <2> QED
    BY <2>1, <2>2, <2>3 DEF discard_unpublished, publication_vars, JournalFree,
         MarkerFree, set_len, TypeOK
<1>3. InvSlots'
  BY DEF discard_unpublished, publication_vars, JournalFree, MarkerFree, set_len,
       InvSlots, Follows, Syncing, MySlot, OtherSlot, slot_of
<1>4. InvTrusted'
  <2>0. \A p \in Pos : p < marker.end => wal'[p] = wal[p] /\ records'[p] = records[p]
    BY DEF discard_unpublished, set_len
  <2> SUFFICES ASSUME NEW m, Believed(m)' PROVE Trusted(m)'
    BY DEF InvTrusted
  <2>1. Believed(m)
    BY DEF discard_unpublished, publication_vars, JournalFree, MarkerFree, set_len,
         Believed, Writing
  <2>2. ASSUME NEW p \in Pos, m.replay_start <= p, p < m.end
        PROVE  Solid(p)'
    <3>1. Solid(p)
      BY <2>1, <2>2, BelievedFacts DEF Trusted
    <3>2. p < marker.end
      BY <2>1, <2>2, BelievedFacts DEF discard_unpublished, publication_vars,
           JournalFree, MarkerFree, set_len, Syncing, Writing
    <3> QED
      BY <1>1, <2>0, <3>1, <3>2, SolidFrame DEF discard_unpublished, publication_vars,
           JournalFree, MarkerFree, set_len, Up
  <2>3. m.end > PageSize => wal'[offset(m)] = wal[offset(m)]
    BY <2>0, <2>1, BelievedFacts DEF discard_unpublished, publication_vars,
         JournalFree, MarkerFree, set_len, PageSize, Syncing, Writing
  <2>4. mode' = mode /\ shown' = shown
    BY <1>1 DEF discard_unpublished, publication_vars, JournalFree, MarkerFree,
         set_len, Up
  <2> QED
    BY <2>1, <2>2, <2>3, <2>4, BelievedFacts, TrustedFrame
<1>5. InvRecords'
  <2>1. /\ \A p \in Pos : IF p < marker.end THEN wal'[p] = wal[p] /\ records'[p] = records[p]
                            ELSE records'[p] = Absent
        /\ UNCHANGED <<marker, pruning, shown>> /\ appended_end' = marker.end
    BY DEF discard_unpublished, publication_vars, JournalFree, MarkerFree, set_len
  <2> QED
    BY <2>1 DEF InvRecords
<1>6. InvSettled'
  BY DEF discard_unpublished, publication_vars, JournalFree, MarkerFree, set_len,
       InvSettled
<1>7. InvPublisher'
  BY DEF discard_unpublished, publication_vars, JournalFree, MarkerFree, set_len,
       InvPublisher, Follows
<1>8. InvJournal'
  BY DEF discard_unpublished, publication_vars, JournalFree, MarkerFree, set_len,
       InvJournal
<1>9. FloorsExcludeHoles'
  <2>1. \A p \in Pos : wal'[p] = Hole => wal[p] = Hole
    BY DEF discard_unpublished, set_len, Absent, Hole
  <2> QED
    BY <2>1 DEF discard_unpublished, publication_vars, JournalFree, MarkerFree,
         set_len, FloorsExcludeHoles
<1> QED
  BY <1>1, <1>2, <1>3, <1>4, <1>5, <1>6, <1>7, <1>8, <1>9 DEF IInv, InvUp, InvDown,
       InvClean

\* One status byte changes, and either value of it is acceptable.
LEMMA MarkRolledBackBeginKeeps ==
    ASSUME Up, NEW r \in Pos, mark_rolled_back_begin(r)
    PROVE  IInv'
<1> USE UpFacts, UpTypes, UpPages, PosFacts
<1>1. mode' = "up" /\ clean' = clean
  BY DEF mark_rolled_back_begin, publication_vars, JournalFree, Visible, Up
<1>2. TypeOK'
  <2>1. wal[r] \in JournalRecord
    BY RecordPages DEF mark_rolled_back_begin, Visible, InvRecords, IsRecord, Absent,
         Forward, RolledBack
  <2>2. [wal[r] EXCEPT !.status = RolledBack] \in JournalRecord
    BY <2>1 DEF JournalRecord
  <2>3. wal' \in [Pos -> Page]
    BY <2>2 DEF mark_rolled_back_begin, Page
  <2> QED
    BY <2>3 DEF mark_rolled_back_begin, publication_vars, JournalFree, Visible, TypeOK
<1>3. InvSlots'
  BY DEF mark_rolled_back_begin, publication_vars, JournalFree, Visible, InvSlots,
       Follows, Syncing, MySlot, OtherSlot, slot_of
<1>4. InvTrusted'
  <2> SUFFICES ASSUME NEW m, Believed(m)' PROVE Trusted(m)'
    BY DEF InvTrusted
  <2>1. Believed(m)
    BY DEF mark_rolled_back_begin, publication_vars, JournalFree, Visible, Believed,
         Writing
  <2>2. /\ r < marker.end /\ shown[r] # Absent /\ wal[r] \in JournalRecord
        /\ wal' = [wal EXCEPT ![r] = [wal[r] EXCEPT !.status = RolledBack]]
        /\ disk' = disk /\ shown' = shown /\ records' = records
    <3>1. r \in Visible
      BY DEF mark_rolled_back_begin
    <3>2. r < marker.end /\ records[r] # Absent
      BY <3>1, RecordPages DEF Visible, Pos, PageSize, IsRecord, Absent, Forward,
           RolledBack
    <3>3. shown[r] # Absent /\ IsRecord(wal[r])
      BY <3>2 DEF InvRecords
    <3> QED
      BY <3>2, <3>3, RecordPages DEF mark_rolled_back_begin
  <2>3. /\ wal'[r].block = wal[r].block /\ IsRecord(wal'[r])
        /\ wal'[r].status = RolledBack
    BY <2>2 DEF JournalRecord, IsRecord, RolledBack
  <2>4. ASSUME NEW p \in Pos, m.replay_start <= p, p < m.end
        PROVE  Solid(p)'
    <3>1. Solid(p)
      BY <2>1, <2>4, BelievedFacts DEF Trusted
    <3>2. CASE p # r
      BY <1>1, <2>2, <3>1, <3>2, SolidFrame DEF Up
    <3>3. CASE p = r
      BY <1>1, <2>2, <2>3, <3>1, <3>3 DEF Up, Solid
    <3> QED
      BY <3>2, <3>3
  <2>5. m.end > PageSize => wal'[offset(m)].block = wal[offset(m)].block
    BY <2>1, <2>2, <2>3, BelievedFacts DEF PageSize
  <2> QED
    BY <2>1, <2>2, <2>4, <2>5, BelievedFacts DEF Trusted
<1>5. InvRecords'
  <2>1. r < marker.end /\ records[r] # Absent /\ wal[r] \in JournalRecord
    BY RecordPages DEF mark_rolled_back_begin, Visible, InvRecords, IsRecord, Absent,
         Forward, RolledBack
  <2>2. wal'[r].block = wal[r].block /\ IsRecord(wal'[r])
    BY <2>1 DEF mark_rolled_back_begin, JournalRecord, IsRecord
  <2>3. /\ \A p \in Pos : p # r => wal'[p] = wal[p]
        /\ UNCHANGED <<records, marker, pruning, shown, appended_end>>
    BY DEF mark_rolled_back_begin, publication_vars, JournalFree, Visible
  <2> QED
    BY <2>1, <2>2, <2>3 DEF InvRecords
<1>6. InvSettled'
  BY DEF mark_rolled_back_begin, publication_vars, JournalFree, Visible, InvSettled
<1>7. InvPublisher'
  BY DEF mark_rolled_back_begin, publication_vars, JournalFree, Visible, InvPublisher,
       Follows
<1>8. InvJournal'
  <2>1. r < marker.end /\ records[r] # Absent /\ wal[r] \in JournalRecord
    BY RecordPages DEF mark_rolled_back_begin, Visible, InvRecords, IsRecord, Absent,
         Forward, RolledBack
  <2>2. wal'[r].status = RolledBack
    BY <2>1 DEF mark_rolled_back_begin, JournalRecord
  <2> QED
    BY <2>1, <2>2 DEF mark_rolled_back_begin, publication_vars, JournalFree, Visible,
         InvJournal
<1>9. FloorsExcludeHoles'
  <2>1. \A p \in Pos : wal'[p] = Hole => wal[p] = Hole
    <3>1. wal[r] \in JournalRecord
      BY RecordPages DEF mark_rolled_back_begin, Visible, InvRecords, IsRecord,
           Absent, Forward, RolledBack
    <3>2. wal'[r].status = RolledBack
      BY <3>1 DEF mark_rolled_back_begin, JournalRecord
    <3> QED
      BY <3>2 DEF mark_rolled_back_begin, Hole, RolledBack
  <2> QED
    BY <2>1 DEF mark_rolled_back_begin, publication_vars, JournalFree, Visible,
         FloorsExcludeHoles
<1> QED
  BY <1>1, <1>2, <1>3, <1>4, <1>5, <1>6, <1>7, <1>8, <1>9 DEF IInv, InvUp, InvDown,
       InvClean

\* The status is shown only once the medium has it.
LEMMA MarkRolledBackEndKeeps ==
    ASSUME Up, mark_rolled_back_end
    PROVE  IInv'
<1> USE UpFacts, UpTypes, UpPages, PosFacts
<1>1. mode' = "up" /\ clean' = clean
  BY DEF mark_rolled_back_end, publication_vars, Up
<1>2. TypeOK'
  <2>1. jarg \in Pos /\ records[jarg] \in JournalRecord /\ shown[jarg] \in JournalRecord
    BY DEF mark_rolled_back_end, InvJournal, InvRecords, TypeOK
  <2>2. /\ [records[jarg] EXCEPT !.status = RolledBack] \in JournalRecord
        /\ [shown[jarg] EXCEPT !.status = RolledBack] \in JournalRecord
    BY <2>1 DEF JournalRecord
  <2>3. /\ records' \in [Pos -> JournalRecord \cup {Absent}]
        /\ shown' \in [Pos -> JournalRecord \cup {Absent}]
    BY <2>2 DEF mark_rolled_back_end
  <2>4. needs_replay' \in BOOLEAN /\ jarg' \in Pos
    BY DEF mark_rolled_back_end, PageSize
  <2> QED
    BY <2>3, <2>4 DEF mark_rolled_back_end, publication_vars, TypeOK
<1>3. InvSlots'
  BY DEF mark_rolled_back_end, publication_vars, InvSlots, Follows, Syncing, MySlot,
       OtherSlot, slot_of
<1>4. InvTrusted'
  <2> SUFFICES ASSUME NEW m, Believed(m)' PROVE Trusted(m)'
    BY DEF InvTrusted
  <2>1. Believed(m)
    BY DEF mark_rolled_back_end, publication_vars, Believed, Writing
  <2>2. /\ jarg \in Pos /\ jarg < marker.end /\ shown[jarg] \in JournalRecord
        /\ wal[jarg].status = RolledBack
    BY DEF mark_rolled_back_end, InvJournal, InvRecords, TypeOK
  <2>3. /\ shown' = [shown EXCEPT ![jarg] = [shown[jarg] EXCEPT !.status = RolledBack]]
        /\ wal' = wal /\ disk' = wal
        /\ \A p \in Pos : p # jarg => records'[p] = records[p]
    BY DEF mark_rolled_back_end
  <2>4. shown'[jarg] # Absent /\ shown'[jarg].block = shown[jarg].block
    BY <2>2, <2>3, RecordPages DEF JournalRecord, Absent, RolledBack
  <2>5. ASSUME NEW p \in Pos, m.replay_start <= p, p < m.end
        PROVE  Solid(p)'
    <3>1. Solid(p)
      BY <2>1, <2>5, BelievedFacts DEF Trusted
    <3>2. CASE p # jarg
      BY <1>1, <2>3, <3>1, <3>2, SolidFrame DEF Up
    <3>3. CASE p = jarg
      <4>1. shown[p] # Absent
        BY <2>2, <3>3, RecordPages DEF JournalRecord, Absent, Forward, RolledBack
      <4> QED
        BY <1>1, <2>2, <2>3, <2>4, <3>1, <3>3, <4>1 DEF Up, Solid
    <3> QED
      BY <3>2, <3>3
  <2>6. \A p \in Pos : p >= m.end => shown'[p] = shown[p]
    BY <2>1, <2>2, <2>3, BelievedFacts DEF Pos, PageSize
  <2> QED
    BY <2>1, <2>3, <2>5, <2>6, BelievedFacts DEF Trusted
<1>5. InvRecords'
  <2>1. /\ jarg \in Pos /\ records[jarg] \in JournalRecord /\ jarg < marker.end
        /\ shown[jarg] = records[jarg] /\ records[jarg] # Absent
    BY DEF mark_rolled_back_end, InvJournal, InvRecords, TypeOK
  <2>2. /\ records'[jarg] = shown'[jarg] /\ records'[jarg] # Absent
        /\ records'[jarg].block = records[jarg].block
    BY <2>1 DEF mark_rolled_back_end, JournalRecord, Absent, RolledBack
  <2>3. /\ \A p \in Pos : p # jarg => records'[p] = records[p] /\ shown'[p] = shown[p]
        /\ UNCHANGED <<wal, marker, pruning, appended_end>>
    BY DEF mark_rolled_back_end, publication_vars
  <2> QED
    BY <2>1, <2>2, <2>3 DEF InvRecords
<1>6. InvSettled'
  <2>1. /\ jarg \in Pos /\ shown[jarg] \in JournalRecord /\ wal[jarg] \in JournalRecord
        /\ jarg < marker.end /\ wal[jarg].block = shown[jarg].block
        /\ wal[jarg].status = RolledBack
    BY RecordPages DEF mark_rolled_back_end, InvJournal, InvRecords, TypeOK
  <2>2. shown'[jarg] = wal[jarg]
    BY <2>1 DEF mark_rolled_back_end, JournalRecord
  <2>3. /\ \A p \in Pos : p # jarg => shown'[p] = shown[p]
        /\ disk' = wal /\ wal' = wal /\ marker' = marker /\ poisoned' = poisoned
    BY DEF mark_rolled_back_end, publication_vars
  <2> QED
    BY <2>2, <2>3 DEF InvSettled
<1>7. InvPublisher'
  BY DEF mark_rolled_back_end, publication_vars, InvPublisher, Follows
<1>8. InvJournal'
  BY DEF mark_rolled_back_end, publication_vars, InvJournal
<1>9. FloorsExcludeHoles'
  BY DEF mark_rolled_back_end, publication_vars, FloorsExcludeHoles
<1> QED
  BY <1>1, <1>2, <1>3, <1>4, <1>5, <1>6, <1>7, <1>8, <1>9 DEF IInv, InvUp, InvDown,
       InvClean

\* After a failed status flush the page stays unsettled and the journal
\* poisoned.
LEMMA MarkRolledBackFailKeeps ==
    ASSUME Up, mark_rolled_back_fail
    PROVE  IInv'
<1> USE UpFacts, UpTypes, UpPages, PosFacts
<1>1. mode' = "up" /\ clean' = clean
  BY DEF mark_rolled_back_fail, file_vars, publication_vars, Up
<1>2. TypeOK'
  <2>1. poisoned' \in BOOLEAN /\ jarg' \in Pos
    BY DEF mark_rolled_back_fail, PageSize
  <2> QED
    BY <2>1 DEF mark_rolled_back_fail, file_vars, publication_vars, TypeOK
<1>3. InvSlots'
  BY DEF mark_rolled_back_fail, file_vars, publication_vars, InvSlots, Follows,
       Syncing, MySlot, OtherSlot, slot_of
<1>4. InvTrusted'
  <2>1. ASSUME NEW m, Believed(m)' PROVE Trusted(m)
    <3>1. Believed(m)
      BY <2>1 DEF mark_rolled_back_fail, file_vars, publication_vars, Believed, Writing
    <3> QED
      BY <3>1, BelievedFacts
  <2>2. UNCHANGED <<wal, disk, records, shown, mode>>
    BY DEF mark_rolled_back_fail, file_vars, publication_vars
  <2> QED
    BY <2>1, <2>2, KeepTrusted
<1>5. InvRecords'
  BY DEF mark_rolled_back_fail, file_vars, publication_vars, InvRecords
<1>6. InvSettled'
  BY DEF mark_rolled_back_fail, file_vars, publication_vars, InvSettled
<1>7. InvPublisher'
  BY DEF mark_rolled_back_fail, file_vars, publication_vars, InvPublisher, Follows
<1>8. InvJournal'
  BY DEF mark_rolled_back_fail, file_vars, publication_vars, InvJournal
<1>9. FloorsExcludeHoles'
  BY DEF mark_rolled_back_fail, file_vars, publication_vars, FloorsExcludeHoles
<1> QED
  BY <1>1, <1>2, <1>3, <1>4, <1>5, <1>6, <1>7, <1>8, <1>9 DEF IInv, InvUp, InvDown,
       InvClean

\* Only records that were already shown are dropped from memory.
LEMMA PreparePruneKeeps ==
    ASSUME Up, prepare_prune
    PROVE  IInv'
<1> USE UpFacts, UpTypes, UpPages, PosFacts
<1>1. mode' = "up" /\ clean' = clean
  BY DEF prepare_prune, file_vars, JournalFree, Visible, Up
<1>2. TypeOK'
  <2>1. records' \in [Pos -> JournalRecord \cup {Absent}]
    BY DEF prepare_prune
  <2>2. PICK cut \in Visible : pruning' = [old_start |-> 0, replay_start |-> cut]
    BY DEF prepare_prune
  <2>3. cut \in 0 .. MaxRecords + 1 /\ 0 \in 0 .. MaxRecords + 1
    BY <2>2 DEF Visible, Pos, PageSize
  <2> QED
    BY <2>1, <2>2, <2>3 DEF prepare_prune, file_vars, TypeOK
<1>3. InvSlots'
  BY DEF prepare_prune, file_vars, JournalFree, Visible, InvSlots, Follows, Syncing,
       MySlot, OtherSlot, slot_of
<1>4. InvTrusted'
  <2>0. \A p \in Pos : records'[p] = records[p] \/ shown[p] # Absent
    <3> SUFFICES ASSUME NEW p \in Pos, records'[p] # records[p] PROVE shown[p] # Absent
      OBVIOUS
    <3>1. PICK cut \in Visible : records' = [q \in Pos |-> IF q < cut THEN Absent ELSE records[q]]
      BY DEF prepare_prune
    <3>2. cut \in Pos /\ cut < marker.end
      BY <3>1 DEF Visible
    <3>3. p < marker.end
      BY <3>1, <3>2
    <3> QED
      BY <3>3 DEF InvRecords
  <2> SUFFICES ASSUME NEW m, Believed(m)' PROVE Trusted(m)'
    BY DEF InvTrusted
  <2>1. Believed(m)
    BY DEF prepare_prune, file_vars, Believed, Writing
  <2>2. UNCHANGED <<wal, disk, shown, mode>>
    BY DEF prepare_prune, file_vars
  <2>3. ASSUME NEW p \in Pos, m.replay_start <= p, p < m.end
        PROVE  Solid(p)'
    <3>1. Solid(p)
      BY <2>1, <2>3, BelievedFacts DEF Trusted
    <3> QED
      BY <2>0, <2>2, <3>1, SolidFrame
  <2> QED
    BY <2>1, <2>2, <2>3, BelievedFacts, TrustedFrame
<1>5. InvRecords'
  <2>1. PICK cut \in Visible :
            /\ pruning' = [old_start |-> 0, replay_start |-> cut]
            /\ records' = [p \in Pos |-> IF p < cut THEN Absent ELSE records[p]]
    BY DEF prepare_prune
  <2>2. cut \in Pos /\ cut < marker.end
    BY <2>1 DEF Visible
  <2>3. UNCHANGED <<wal, marker, shown, appended_end>>
    BY DEF prepare_prune, file_vars
  <2> QED
    BY <2>1, <2>2, <2>3 DEF InvRecords
<1>6. InvSettled'
  BY DEF prepare_prune, file_vars, JournalFree, Visible, InvSettled
<1>7. InvPublisher'
  <2>1. PICK cut \in Visible : pruning' = [old_start |-> 0, replay_start |-> cut]
    BY DEF prepare_prune
  <2>2. cut \in Pos /\ cut < marker.end
    BY <2>1 DEF Visible
  <2>3. mpc' = "idle" /\ marker' = marker
    BY DEF prepare_prune
  <2> QED
    BY <2>1, <2>2, <2>3 DEF InvPublisher
<1>8. InvJournal'
  BY DEF prepare_prune, file_vars, JournalFree, Visible, InvJournal
<1>9. FloorsExcludeHoles'
  BY DEF prepare_prune, file_vars, JournalFree, Visible, FloorsExcludeHoles
<1> QED
  BY <1>1, <1>2, <1>3, <1>4, <1>5, <1>6, <1>7, <1>8, <1>9 DEF IInv, InvUp, InvDown,
       InvClean

\* A captured boundary changes no file.
LEMMA SubmitKeeps ==
    ASSUME Up, NEW b \in JournalBoundary, submit(b)
    PROVE  IInv'
<1> USE UpFacts, UpTypes, UpPages, PosFacts
<1>1. mode' = "up" /\ clean' = clean
  BY DEF submit, file_vars, journal_vars, JournalFree, Up
<1>2. TypeOK'
  BY DEF submit, file_vars, journal_vars, JournalFree, TypeOK, Pos, End
<1>3. InvSlots'
  BY DEF submit, file_vars, journal_vars, JournalFree, InvSlots, Follows, Syncing,
       MySlot, OtherSlot, slot_of
<1>4. InvTrusted'
  <2>1. ASSUME NEW m, Believed(m)' PROVE Trusted(m)
    <3>1. Believed(m)
      BY <2>1 DEF submit, file_vars, journal_vars, JournalFree, Believed, Writing
    <3> QED
      BY <3>1, BelievedFacts
  <2>2. UNCHANGED <<wal, disk, records, shown, mode>>
    BY DEF submit, file_vars, journal_vars, JournalFree
  <2> QED
    BY <2>1, <2>2, KeepTrusted
<1>5. InvRecords'
  BY DEF submit, file_vars, journal_vars, JournalFree, InvRecords
<1>6. InvSettled'
  BY DEF submit, file_vars, journal_vars, JournalFree, InvSettled
<1>7. InvPublisher'
  BY DEF submit, file_vars, journal_vars, JournalFree, InvPublisher, Follows
<1>8. InvJournal'
  BY DEF submit, file_vars, journal_vars, JournalFree, InvJournal
<1>9. FloorsExcludeHoles'
  BY DEF submit, file_vars, journal_vars, JournalFree, FloorsExcludeHoles
<1> QED
  BY <1>1, <1>2, <1>3, <1>4, <1>5, <1>6, <1>7, <1>8, <1>9 DEF IInv, InvUp, InvDown,
       InvClean

\* A refused publication changes nothing.
LEMMA PublishReturnKeeps ==
    ASSUME Up, publish_return
    PROVE  IInv'
<1> USE UpFacts, UpTypes, UpPages, PosFacts
<1>1. mode' = "up" /\ clean' = clean
  BY DEF publish_return, file_vars, journal_vars, Up
<1>2. TypeOK'
  BY DEF publish_return, file_vars, journal_vars, TypeOK, Pos, End
<1>3. InvSlots'
  BY DEF publish_return, file_vars, journal_vars, InvSlots, Follows, Syncing, MySlot,
       OtherSlot, slot_of
<1>4. InvTrusted'
  <2>1. ASSUME NEW m, Believed(m)' PROVE Trusted(m)
    <3>1. Believed(m)
      BY <2>1 DEF publish_return, file_vars, journal_vars, Believed, Writing
    <3> QED
      BY <3>1, BelievedFacts
  <2>2. UNCHANGED <<wal, disk, records, shown, mode>>
    BY DEF publish_return, file_vars, journal_vars
  <2> QED
    BY <2>1, <2>2, KeepTrusted
<1>5. InvRecords'
  BY DEF publish_return, file_vars, journal_vars, InvRecords
<1>6. InvSettled'
  BY DEF publish_return, file_vars, journal_vars, InvSettled
<1>7. InvPublisher'
  BY DEF publish_return, file_vars, journal_vars, InvPublisher, Follows
<1>8. InvJournal'
  BY DEF publish_return, file_vars, journal_vars, InvJournal
<1>9. FloorsExcludeHoles'
  BY DEF publish_return, file_vars, journal_vars, FloorsExcludeHoles
<1> QED
  BY <1>1, <1>2, <1>3, <1>4, <1>5, <1>6, <1>7, <1>8, <1>9 DEF IInv, InvUp, InvDown,
       InvClean

\* The new marker is one generation ahead and within the appended records.
LEMMA PublishBeginKeeps ==
    ASSUME Up, publish_begin
    PROVE  IInv'
<1> USE UpFacts, UpTypes, UpPages, PosFacts
<1>1. mode' = "up" /\ clean' = clean
  BY DEF publish_begin, file_vars, journal_vars, StaleBoundary, BoundaryRecorded, Up
<1>2. TypeOK'
  <2>1. submitted \in JournalBoundary
    BY DEF publish_begin, TypeOK
  <2>2. next' \in PublicationMarker
    BY <2>1 DEF publish_begin, PublicationMarker, JournalBoundary
  <2> QED
    BY <2>2 DEF publish_begin, file_vars, journal_vars, StaleBoundary,
         BoundaryRecorded, TypeOK
<1>3. InvSlots'
  BY DEF publish_begin, file_vars, journal_vars, StaleBoundary, BoundaryRecorded,
       InvSlots, Follows, Syncing, MySlot, OtherSlot, slot_of
<1>4. InvTrusted'
  <2>1. ASSUME NEW m, Believed(m)' PROVE Trusted(m)
    <3>1. Believed(m)
      BY <2>1 DEF publish_begin, file_vars, journal_vars, StaleBoundary,
           BoundaryRecorded, Believed, Writing
    <3> QED
      BY <3>1, BelievedFacts
  <2>2. UNCHANGED <<wal, disk, records, shown, mode>>
    BY DEF publish_begin, file_vars, journal_vars, StaleBoundary, BoundaryRecorded
  <2> QED
    BY <2>1, <2>2, KeepTrusted
<1>5. InvRecords'
  BY DEF publish_begin, file_vars, journal_vars, StaleBoundary, BoundaryRecorded,
       InvRecords
<1>6. InvSettled'
  BY DEF publish_begin, file_vars, journal_vars, StaleBoundary, BoundaryRecorded,
       InvSettled
<1>7. InvPublisher'
  <2>1. submitted \in JournalBoundary
    BY DEF publish_begin, TypeOK
  <2>2. /\ next' \in PublicationMarker
        /\ next'.generation = marker.generation + 1
        /\ next'.replay_start = marker.replay_start
        /\ next'.end = submitted.end /\ next'.block = submitted.block
    BY <2>1 DEF publish_begin, PublicationMarker, JournalBoundary
  <2>3. /\ submitted.end \in End /\ submitted.end \in Nat
        /\ marker.end < submitted.end /\ submitted.end <= appended_end
    BY <2>1 DEF publish_begin, StaleBoundary, JournalBoundary, End, PageSize
  <2>4. /\ offset(submitted) \in Pos /\ marker.end <= offset(submitted)
        /\ offset(submitted) < appended_end
        /\ wal[offset(submitted)].block = submitted.block
    BY <2>3, OffsetFacts DEF publish_begin, BoundaryRecorded
  <2>5. records[offset(submitted)].block = submitted.block
    BY <2>4 DEF InvRecords
  <2>6. offset(next') = offset(submitted)
    BY <2>2 DEF offset
  <2>7. Follows(next)'
    BY <2>2, <2>3 DEF publish_begin, Follows, WellFormed, MonotonicSlots, PageSize,
         journal_vars
  <2>8. UNCHANGED <<marker, records, pruning>> /\ mpc' = "publish_flush"
    BY DEF publish_begin, file_vars, journal_vars, StaleBoundary, BoundaryRecorded
  <2> QED
    BY <2>2, <2>3, <2>5, <2>6, <2>7, <2>8 DEF InvPublisher
<1>8. InvJournal'
  BY DEF publish_begin, file_vars, journal_vars, StaleBoundary, BoundaryRecorded,
       InvJournal
<1>9. FloorsExcludeHoles'
  BY DEF publish_begin, file_vars, journal_vars, StaleBoundary, BoundaryRecorded,
       FloorsExcludeHoles
<1> QED
  BY <1>1, <1>2, <1>3, <1>4, <1>5, <1>6, <1>7, <1>8, <1>9 DEF IInv, InvUp, InvDown,
       InvClean

\* The flush makes the new range solid, so its marker may be believed.
LEMMA PublishFlushKeeps ==
    ASSUME Up, publish_flush
    PROVE  IInv'
<1> USE UpFacts, UpTypes, UpPages, PosFacts
<1>1. mode' = "up" /\ clean' = clean
  BY DEF publish_flush, journal_vars, FlushedData, Up
<1>2. TypeOK'
  BY DEF publish_flush, journal_vars, FlushedData, TypeOK, Pos, End
<1>3. InvSlots'
  BY DEF publish_flush, journal_vars, FlushedData, InvSlots, Follows, Syncing, MySlot,
       OtherSlot, slot_of
<1>4. InvTrusted'
  <2> SUFFICES ASSUME NEW m, Believed(m)' PROVE Trusted(m)'
    BY DEF InvTrusted
  <2>1. Believed(m) \/ m = next
    BY DEF publish_flush, journal_vars, FlushedData, Believed, Writing
  <2>2. /\ wal' = wal /\ disk' = wal /\ shown' = shown /\ records' = records
        /\ mode' = mode
    BY <1>1 DEF publish_flush, journal_vars, FlushedData, Up
  <2>3. /\ WellFormed(next) /\ next.replay_start = marker.replay_start
        /\ marker.end < next.end /\ next.end <= appended_end
        /\ next.end \in Nat /\ offset(next) \in Pos
        /\ marker.end <= offset(next) /\ offset(next) < next.end
        /\ records[offset(next)].block = next.block
    <3>1. /\ WellFormed(next) /\ next.replay_start = marker.replay_start
          /\ marker.end < next.end /\ next.end <= appended_end
          /\ records[offset(next)].block = next.block
      BY DEF publish_flush, InvPublisher, Follows
    <3>2. next.end \in Nat
      BY <3>1 DEF WellFormed, PublicationMarker, End, PageSize
    <3>3. next.end \in End
      BY <3>1 DEF WellFormed, PublicationMarker
    <3> QED
      BY <3>1, <3>2, <3>3, OffsetFacts
  <2>4. Believed(marker)
    BY DEF Believed
  <2>5. CASE Believed(m)
    <3>1. ASSUME NEW p \in Pos, m.replay_start <= p, p < m.end
          PROVE  Solid(p)'
      BY <2>2, <2>5, <3>1, BelievedFacts, SolidFrame DEF Trusted
    <3> QED
      BY <2>2, <2>5, <3>1, BelievedFacts, TrustedFrame
  <2>6. CASE m = next
    <3>1. ASSUME NEW p \in Pos, marker.end <= p, p < next.end
          PROVE  /\ Solid(p)' /\ wal[p].block = records[p].block
      <4>1. /\ shown[p] = Absent /\ records[p] # Absent /\ wal[p] = records[p]
            /\ IsRecord(wal[p])
        BY <2>3, <2>4, <3>1, BelievedFacts DEF InvRecords, Trusted, Pos, PageSize
      <4> QED
        BY <2>2, <4>1 DEF Solid
    <3>2. ASSUME NEW p \in Pos, marker.replay_start <= p, p < marker.end
          PROVE  Solid(p)'
      BY <2>2, <2>4, <3>2, BelievedFacts, SolidFrame DEF Trusted
    <3>3. \A p \in Pos : p >= next.end => shown[p] = Absent
      BY <2>3, <2>4, BelievedFacts DEF Trusted, Pos, PageSize
    <3>4. \A p \in Pos : next.replay_start <= p /\ p < next.end => Solid(p)'
      BY <2>3, <3>1, <3>2 DEF Pos, PageSize
    <3>5. wal[offset(next)].block = next.block
      BY <2>3, <3>1
    <3> QED
      BY <2>2, <2>6, <3>3, <3>4, <3>5 DEF Trusted
  <2> QED
    BY <2>1, <2>5, <2>6
<1>5. InvRecords'
  BY DEF publish_flush, journal_vars, FlushedData, InvRecords
<1>6. InvSettled'
  BY DEF publish_flush, journal_vars, FlushedData, InvSettled
<1>7. InvPublisher'
  BY DEF publish_flush, journal_vars, FlushedData, InvPublisher, Follows
<1>8. InvJournal'
  BY DEF publish_flush, journal_vars, FlushedData, InvJournal
<1>9. FloorsExcludeHoles'
  BY DEF publish_flush, journal_vars, FlushedData, FloorsExcludeHoles
<1> QED
  BY <1>1, <1>2, <1>3, <1>4, <1>5, <1>6, <1>7, <1>8, <1>9 DEF IInv, InvUp, InvDown,
       InvClean

\* The write goes to the slot that the current marker does not use.
LEMMA PublishWriteKeeps ==
    ASSUME Up, publish_write
    PROVE  IInv'
<1> USE UpFacts, UpTypes, UpPages, PosFacts
<1>1. mode' = "up" /\ clean' = clean
  BY DEF publish_write, journal_vars, write_publication_marker, Up
<1>2. TypeOK'
  BY DEF publish_write, journal_vars, write_publication_marker, TypeOK, Pos, End
<1>3. InvSlots'
  <2>1. /\ slots' = [slots EXCEPT ![OtherSlot] = next]
        /\ ~Syncing /\ Syncing'
        /\ UNCHANGED <<disk_slots, marker, next, published_end, appended_end>>
    BY NextFacts DEF publish_write, journal_vars, write_publication_marker, Syncing
  <2>2. slots'[OtherSlot] = next /\ slots'[MySlot] = slots[MySlot]
    BY <2>1 DEF TypeOK
  <2>3. MySlot' = MySlot /\ OtherSlot' = OtherSlot
    BY <2>1 DEF MySlot, OtherSlot
  <2> QED
    BY <2>1, <2>2, <2>3 DEF InvSlots
<1>4. InvTrusted'
  <2>1. ASSUME NEW m, Believed(m)' PROVE Trusted(m)
    <3>1. Believed(m)
      BY <2>1 DEF publish_write, journal_vars, write_publication_marker, Believed,
           Writing
    <3> QED
      BY <3>1, BelievedFacts
  <2>2. UNCHANGED <<wal, disk, records, shown, mode>>
    BY DEF publish_write, journal_vars, write_publication_marker
  <2> QED
    BY <2>1, <2>2, KeepTrusted
<1>5. InvRecords'
  BY DEF publish_write, journal_vars, write_publication_marker, InvRecords
<1>6. InvSettled'
  BY DEF publish_write, journal_vars, write_publication_marker, InvSettled
<1>7. InvPublisher'
  BY DEF publish_write, journal_vars, write_publication_marker, InvPublisher, Follows
<1>8. InvJournal'
  BY DEF publish_write, journal_vars, write_publication_marker, InvJournal
<1>9. FloorsExcludeHoles'
  <2>1. /\ slots' = [slots EXCEPT ![OtherSlot] = next]
        /\ UNCHANGED <<disk_slots, wal, disk>>
    BY NextFacts DEF publish_write, journal_vars, write_publication_marker
  <2>2. marker.replay_start <= next.replay_start /\ next.replay_start \in Nat
    BY NextFacts DEF publish_write, journal_vars, write_publication_marker
  <2>3. \A p \in Pos : wal[p] = Hole \/ disk[p] = Hole => p < marker.replay_start
    BY DEF FloorsExcludeHoles, InvSlots
  <2> QED
    BY <2>1, <2>2, <2>3 DEF FloorsExcludeHoles, TypeOK
<1> QED
  BY <1>1, <1>2, <1>3, <1>4, <1>5, <1>6, <1>7, <1>8, <1>9 DEF IInv, InvUp, InvDown,
       InvClean

\* The new marker takes over; what it adds is shown as appended.
LEMMA PublishSyncKeeps ==
    ASSUME Up, publish_sync
    PROVE  IInv'
<1> USE UpFacts, UpTypes, UpPages, PosFacts
<1>1. mode' = "up" /\ clean' = clean
  BY DEF publish_sync, journal_vars, Up
<1>2. TypeOK'
  <2>1. published_end' \in End /\ marker' \in PublicationMarker
    BY NextFacts DEF publish_sync
  <2>2. shown' \in [Pos -> JournalRecord \cup {Absent}]
    BY DEF publish_sync
  <2> QED
    BY <2>1, <2>2 DEF publish_sync, journal_vars, TypeOK
<1>3. InvSlots'
  <2>1. published_end' = next.end
    BY DEF publish_sync, journal_vars, InvPublisher
  <2> QED
    BY <2>1, SyncedSlots DEF publish_sync, journal_vars, Syncing
<1>4. InvTrusted'
  <2> SUFFICES ASSUME NEW m, Believed(m)' PROVE Trusted(m)'
    BY DEF InvTrusted
  <2>1. Believed(next) /\ marker.end < next.end /\ next.replay_start = marker.replay_start
    BY DEF publish_sync, InvPublisher, InvSlots, Syncing, Believed, Follows, WellFormed,
           PublicationMarker, TornSlot, End, PageSize, Slot
  <2>2. m = next
    <3>1. /\ marker' = next /\ slots' = slots /\ ~Writing'
          /\ next.generation = marker.generation + 1
      BY DEF publish_sync, Writing, InvPublisher, Follows
    <3>2. m \in {slots[0], slots[1]} /\ m # TornSlot => ~(m.generation > next.generation)
      BY <3>1, NoNewerSlot
    <3> QED
      BY <3>1, <3>2 DEF Believed
  <2>3. /\ wal' = wal /\ disk' = disk /\ records' = records /\ mode' = mode
        /\ shown' = [p \in Pos |-> IF marker.end <= p /\ p < next.end
                                   THEN records[p] ELSE shown[p]]
    BY <1>1 DEF publish_sync, journal_vars, Up
  <2>4. ASSUME NEW p \in Pos, m.replay_start <= p, p < m.end
        PROVE  Solid(p)'
    <3>1. Solid(p)
      BY <2>1, <2>2, <2>4, BelievedFacts DEF Trusted
    <3>2. CASE p < marker.end
      BY <2>3, <3>1, <3>2, SolidFrame DEF Pos, PageSize
    <3>3. CASE marker.end <= p
      <4>1. shown[p] = Absent
        BY <3>3, BelievedFacts DEF Believed, Trusted
      <4>2. records[p].status # RolledBack
        BY <2>1, <2>2, <2>4, <3>3, BelievedFacts DEF InvRecords, Forward, RolledBack
      <4>3. shown'[p] = records[p]
        BY <2>2, <2>3, <2>4, <3>3
      <4>4. wal[p] = records[p] /\ disk[p] = records[p]
        BY <3>1, <4>1 DEF Solid, Up
      <4> QED
        BY <2>3, <3>1, <4>2, <4>3, <4>4 DEF Solid
    <3> QED
      BY <3>2, <3>3
  <2>5. \A p \in Pos : p >= m.end => shown'[p] = shown[p]
    BY <2>1, <2>2, <2>3, BelievedFacts DEF Pos, PageSize
  <2> QED
    BY <2>1, <2>2, <2>3, <2>4, <2>5, BelievedFacts, TrustedFrame
<1>5. InvRecords'
  <2>1. /\ marker.end < next.end /\ next.end <= appended_end /\ next.end \in Nat
        /\ next.replay_start = marker.replay_start
    BY NextFacts DEF publish_sync, InvPublisher
  <2>2. /\ marker' = next /\ UNCHANGED <<wal, records, pruning, appended_end>>
        /\ shown' = [p \in Pos |-> IF marker.end <= p /\ p < next.end
                                   THEN records[p] ELSE shown[p]]
    BY DEF publish_sync, journal_vars
  <2> QED
    BY <2>1, <2>2 DEF InvRecords
<1>6. InvSettled'
  <2>1. /\ marker.end < next.end /\ next.end \in Nat
        /\ next.replay_start = marker.replay_start
    BY NextFacts DEF publish_sync, InvPublisher
  <2>2. /\ marker' = next /\ UNCHANGED <<wal, disk, jpc, jarg, poisoned>>
        /\ shown' = [p \in Pos |-> IF marker.end <= p /\ p < next.end
                                   THEN records[p] ELSE shown[p]]
    BY DEF publish_sync, journal_vars
  <2>3. Believed(next)
    BY NextFacts DEF publish_sync, InvSlots, Syncing, Believed, Slot
  <2>4. ASSUME NEW p \in Pos, marker.end <= p, p < next.end
        PROVE  disk[p] = records[p] /\ wal[p] = records[p]
    BY <2>1, <2>3, <2>4, BelievedFacts DEF Trusted, Believed, Solid, Up
  <2> QED
    BY <2>1, <2>2, <2>4 DEF InvSettled
<1>7. InvPublisher'
  <2>1. marker.end < next.end /\ next.end \in Nat
    BY NextFacts DEF publish_sync, InvPublisher
  <2> QED
    BY <2>1 DEF publish_sync, InvPublisher
<1>8. InvJournal'
  <2>1. marker.end < next.end /\ next.end \in Nat
    BY NextFacts DEF publish_sync, InvPublisher
  <2> QED
    BY <2>1 DEF publish_sync, journal_vars, InvJournal, TypeOK
<1>9. FloorsExcludeHoles'
  BY DEF publish_sync, journal_vars, FloorsExcludeHoles
<1> QED
  BY <1>1, <1>2, <1>3, <1>4, <1>5, <1>6, <1>7, <1>8, <1>9 DEF IInv, InvUp, InvDown,
       InvClean

\* A refused prune changes nothing.
LEMMA PruneReturnKeeps ==
    ASSUME Up, prune_return
    PROVE  IInv'
<1> USE UpFacts, UpTypes, UpPages, PosFacts
<1>1. mode' = "up" /\ clean' = clean
  BY DEF prune_return, file_vars, journal_vars, Up
<1>2. TypeOK'
  BY DEF prune_return, file_vars, journal_vars, TypeOK, NoPrune
<1>3. InvSlots'
  BY DEF prune_return, file_vars, journal_vars, InvSlots, Follows, Syncing, MySlot,
       OtherSlot, slot_of
<1>4. InvTrusted'
  <2>1. ASSUME NEW m, Believed(m)' PROVE Trusted(m)
    <3>1. Believed(m)
      BY <2>1 DEF prune_return, file_vars, journal_vars, Believed, Writing
    <3> QED
      BY <3>1, BelievedFacts
  <2>2. UNCHANGED <<wal, disk, records, shown, mode>>
    BY DEF prune_return, file_vars, journal_vars
  <2> QED
    BY <2>1, <2>2, KeepTrusted
<1>5. InvRecords'
  BY DEF prune_return, file_vars, journal_vars, InvRecords, NoPrune
<1>6. InvSettled'
  BY DEF prune_return, file_vars, journal_vars, InvSettled
<1>7. InvPublisher'
  BY DEF prune_return, file_vars, journal_vars, InvPublisher, NoPrune
<1>8. InvJournal'
  BY DEF prune_return, file_vars, journal_vars, InvJournal
<1>9. FloorsExcludeHoles'
  BY DEF prune_return, file_vars, journal_vars, FloorsExcludeHoles
<1> QED
  BY <1>1, <1>2, <1>3, <1>4, <1>5, <1>6, <1>7, <1>8, <1>9 DEF IInv, InvUp, InvDown,
       InvClean

\* A raised floor believes a subset of the pages that are trusted already.
LEMMA PruneBeginKeeps ==
    ASSUME Up, prune_begin
    PROVE  IInv'
<1> USE UpFacts, UpTypes, UpPages, PosFacts
<1>1. mode' = "up" /\ clean' = clean
  BY DEF prune_begin, file_vars, journal_vars, Up
<1>2. TypeOK'
  <2>1. next' \in PublicationMarker
    <3>1. pruning.replay_start \in End
      BY DEF prune_begin, TypeOK, End, PageSize
    <3>2. [marker EXCEPT !.generation = @ + 1] \in PublicationMarker
      BY DEF PublicationMarker
    <3> QED
      BY <3>1, <3>2 DEF prune_begin, PublicationMarker
  <2>2. pruning' \in [old_start : 0 .. MaxRecords + 1, replay_start : 0 .. MaxRecords + 1]
    BY DEF prune_begin, TypeOK
  <2> QED
    BY <2>1, <2>2 DEF prune_begin, file_vars, journal_vars, TypeOK
<1>3. InvSlots'
  BY DEF prune_begin, file_vars, journal_vars, InvSlots, Follows, Syncing, MySlot,
       OtherSlot, slot_of
<1>4. InvTrusted'
  <2>0. Trusted(marker)
    BY BelievedFacts DEF Believed
  <2>1. ASSUME NEW m, Believed(m)' PROVE Trusted(m)
    <3>1. Believed(m) \/ m = next'
      BY <2>1 DEF prune_begin, file_vars, journal_vars, Believed, Writing
    <3>2. CASE m = next'
      <4>1. /\ m.end = marker.end /\ m.block = marker.block
            /\ m.replay_start > marker.replay_start /\ m.replay_start \in Nat
        BY <3>2 DEF prune_begin, PublicationMarker
      <4> QED
        BY <2>0, <4>1 DEF Trusted, offset, Pos, PageSize
    <3> QED
      BY <3>1, <3>2, BelievedFacts
  <2>2. UNCHANGED <<wal, disk, records, shown, mode>>
    BY DEF prune_begin, file_vars, journal_vars
  <2> QED
    BY <2>1, <2>2, KeepTrusted
<1>5. InvRecords'
  BY DEF prune_begin, file_vars, journal_vars, InvRecords
<1>6. InvSettled'
  BY DEF prune_begin, file_vars, journal_vars, InvSettled
<1>7. InvPublisher'
  <2>1. /\ next' \in PublicationMarker
        /\ next'.generation = marker.generation + 1
        /\ next'.replay_start = pruning.replay_start
        /\ next'.end = marker.end /\ next'.block = marker.block
    <3>1. pruning.replay_start \in End
      BY DEF prune_begin, TypeOK, End, PageSize
    <3>2. [marker EXCEPT !.generation = @ + 1] \in PublicationMarker
      BY DEF PublicationMarker
    <3> QED
      BY <3>1, <3>2 DEF prune_begin, PublicationMarker
  <2>2. /\ pruning'.replay_start = pruning.replay_start
        /\ pruning.replay_start > marker.replay_start
        /\ pruning.replay_start < marker.end
    BY DEF prune_begin, InvPublisher, TypeOK
  <2>3. Follows(next)'
    BY <2>1, <2>2 DEF prune_begin, Follows, WellFormed, MonotonicSlots, PageSize,
         journal_vars
  <2> QED
    BY <2>1, <2>2, <2>3 DEF prune_begin, file_vars, journal_vars, InvPublisher
<1>8. InvJournal'
  BY DEF prune_begin, file_vars, journal_vars, InvJournal
<1>9. FloorsExcludeHoles'
  BY DEF prune_begin, file_vars, journal_vars, FloorsExcludeHoles
<1> QED
  BY <1>1, <1>2, <1>3, <1>4, <1>5, <1>6, <1>7, <1>8, <1>9 DEF IInv, InvUp, InvDown,
       InvClean

\* The raised floor goes to the slot that the current marker does not use.
LEMMA FloorWriteKeeps ==
    ASSUME Up, floor_write
    PROVE  IInv'
<1> USE UpFacts, UpTypes, UpPages, PosFacts
<1>1. mode' = "up" /\ clean' = clean
  BY DEF floor_write, journal_vars, write_publication_marker, Up
<1>2. TypeOK'
  BY DEF floor_write, journal_vars, write_publication_marker, TypeOK, Pos, End
<1>3. InvSlots'
  <2>1. /\ slots' = [slots EXCEPT ![OtherSlot] = next]
        /\ ~Syncing /\ Syncing'
        /\ UNCHANGED <<disk_slots, marker, next, published_end, appended_end>>
    BY NextFacts DEF floor_write, journal_vars, write_publication_marker, Syncing
  <2>2. slots'[OtherSlot] = next /\ slots'[MySlot] = slots[MySlot]
    BY <2>1 DEF TypeOK
  <2>3. MySlot' = MySlot /\ OtherSlot' = OtherSlot
    BY <2>1 DEF MySlot, OtherSlot
  <2> QED
    BY <2>1, <2>2, <2>3 DEF InvSlots
<1>4. InvTrusted'
  <2>1. ASSUME NEW m, Believed(m)' PROVE Trusted(m)
    <3>1. Believed(m)
      BY <2>1 DEF floor_write, journal_vars, write_publication_marker, Believed, Writing
    <3> QED
      BY <3>1, BelievedFacts
  <2>2. UNCHANGED <<wal, disk, records, shown, mode>>
    BY DEF floor_write, journal_vars, write_publication_marker
  <2> QED
    BY <2>1, <2>2, KeepTrusted
<1>5. InvRecords'
  BY DEF floor_write, journal_vars, write_publication_marker, InvRecords
<1>6. InvSettled'
  BY DEF floor_write, journal_vars, write_publication_marker, InvSettled
<1>7. InvPublisher'
  BY DEF floor_write, journal_vars, write_publication_marker, InvPublisher, Follows
<1>8. InvJournal'
  BY DEF floor_write, journal_vars, write_publication_marker, InvJournal
<1>9. FloorsExcludeHoles'
  <2>1. /\ slots' = [slots EXCEPT ![OtherSlot] = next]
        /\ UNCHANGED <<disk_slots, wal, disk>>
    BY NextFacts DEF floor_write, journal_vars, write_publication_marker
  <2>2. marker.replay_start <= next.replay_start /\ next.replay_start \in Nat
    BY NextFacts DEF floor_write, journal_vars, write_publication_marker
  <2>3. \A p \in Pos : wal[p] = Hole \/ disk[p] = Hole => p < marker.replay_start
    BY DEF FloorsExcludeHoles, InvSlots
  <2> QED
    BY <2>1, <2>2, <2>3 DEF FloorsExcludeHoles, TypeOK
<1> QED
  BY <1>1, <1>2, <1>3, <1>4, <1>5, <1>6, <1>7, <1>8, <1>9 DEF IInv, InvUp, InvDown,
       InvClean

\* The raised floor takes over; the same marker, one generation on, comes
\* next.
LEMMA FloorSyncKeeps ==
    ASSUME Up, floor_sync
    PROVE  IInv'
<1> USE UpFacts, UpTypes, UpPages, PosFacts
<1>1. mode' = "up" /\ clean' = clean
  BY DEF floor_sync, journal_vars, Up
<1>2. TypeOK'
  <2>1. next' \in PublicationMarker /\ marker' \in PublicationMarker
    BY NextFacts DEF floor_sync, PublicationMarker
  <2> QED
    BY <2>1 DEF floor_sync, journal_vars, TypeOK
<1>3. InvSlots'
  <2>1. published_end' = next.end
    BY DEF floor_sync, journal_vars, InvPublisher
  <2> QED
    BY <2>1, SyncedSlots DEF floor_sync, journal_vars, Syncing
<1>4. InvTrusted'
  <2>1. Believed(next) /\ Follows(next)
    BY DEF floor_sync, journal_vars, InvPublisher, InvSlots, Syncing, Believed,
         Follows, WellFormed,
           PublicationMarker, TornSlot, End, PageSize, Slot
  <2>2. ASSUME NEW m, Believed(m)' PROVE Trusted(m)
    <3>1. m = next \/ m = next'
      <4>1. marker' = next /\ slots' = slots /\ next.generation = marker.generation + 1
        BY <2>1 DEF floor_sync, journal_vars, Follows
      <4>2. m \in {slots[0], slots[1]} /\ m # TornSlot => ~(m.generation > next.generation)
        BY <4>1, NoNewerSlot
      <4> QED
        BY <2>2, <4>1, <4>2 DEF Believed
    <3>2. Trusted(next)
      BY <2>1, BelievedFacts
    <3> QED
      BY <2>1, <2>2, <3>1, <3>2 DEF floor_sync, journal_vars, Believed, Writing,
           Trusted, offset, Follows, WellFormed, PublicationMarker
  <2>3. UNCHANGED <<wal, disk, records, shown, mode>>
    BY DEF floor_sync, journal_vars
  <2> QED
    BY <2>2, <2>3, KeepTrusted
<1>5. InvRecords'
  <2>1. /\ next.end = marker.end /\ marker.replay_start <= next.replay_start
        /\ next.replay_start \in Nat /\ pruning.replay_start = next.replay_start
    BY NextFacts DEF floor_sync, InvPublisher
  <2> QED
    BY <2>1 DEF floor_sync, file_vars, journal_vars, InvRecords
<1>6. InvSettled'
  <2>1. /\ next.end = marker.end /\ marker.replay_start <= next.replay_start
        /\ next.replay_start \in Nat /\ pruning.replay_start = next.replay_start
    BY NextFacts DEF floor_sync, InvPublisher
  <2> QED
    BY <2>1 DEF floor_sync, file_vars, journal_vars, InvSettled
<1>7. InvPublisher'
  <2>1. /\ next.end = marker.end /\ pruning.replay_start = next.replay_start
        /\ pruning.replay_start < marker.end
    BY DEF floor_sync, InvPublisher
  <2>2. /\ next' \in PublicationMarker /\ next'.generation = next.generation + 1
        /\ next'.end = next.end /\ next'.replay_start = next.replay_start
        /\ next'.block = next.block
    BY NextFacts DEF floor_sync, PublicationMarker
  <2>3. Follows(next)'
    <3>1. WellFormed(next')
      BY <2>2, NextFacts DEF floor_sync, WellFormed
    <3> QED
      BY <2>2, <3>1, NextFacts DEF floor_sync, Follows, MonotonicSlots, journal_vars
  <2> QED
    BY <2>1, <2>2, <2>3 DEF floor_sync, journal_vars, InvPublisher
<1>8. InvJournal'
  <2>1. /\ next.end = marker.end /\ marker.replay_start <= next.replay_start
        /\ next.replay_start \in Nat /\ pruning.replay_start = next.replay_start
    BY NextFacts DEF floor_sync, InvPublisher
  <2> QED
    BY <2>1 DEF floor_sync, file_vars, journal_vars, InvJournal
<1>9. FloorsExcludeHoles'
  BY DEF floor_sync, journal_vars, FloorsExcludeHoles
<1> QED
  BY <1>1, <1>2, <1>3, <1>4, <1>5, <1>6, <1>7, <1>8, <1>9 DEF IInv, InvUp, InvDown,
       InvClean

\* The repeated marker goes to the other slot.
LEMMA FallbackWriteKeeps ==
    ASSUME Up, fallback_write
    PROVE  IInv'
<1> USE UpFacts, UpTypes, UpPages, PosFacts
<1>1. mode' = "up" /\ clean' = clean
  BY DEF fallback_write, journal_vars, write_publication_marker, Up
<1>2. TypeOK'
  BY DEF fallback_write, journal_vars, write_publication_marker, TypeOK, Pos, End
<1>3. InvSlots'
  <2>1. /\ slots' = [slots EXCEPT ![OtherSlot] = next]
        /\ ~Syncing /\ Syncing'
        /\ UNCHANGED <<disk_slots, marker, next, published_end, appended_end>>
    BY NextFacts DEF fallback_write, journal_vars, write_publication_marker, Syncing
  <2>2. slots'[OtherSlot] = next /\ slots'[MySlot] = slots[MySlot]
    BY <2>1 DEF TypeOK
  <2>3. MySlot' = MySlot /\ OtherSlot' = OtherSlot
    BY <2>1 DEF MySlot, OtherSlot
  <2> QED
    BY <2>1, <2>2, <2>3 DEF InvSlots
<1>4. InvTrusted'
  <2>1. ASSUME NEW m, Believed(m)' PROVE Trusted(m)
    <3>1. Believed(m)
      BY <2>1 DEF fallback_write, journal_vars, write_publication_marker, Believed,
           Writing
    <3> QED
      BY <3>1, BelievedFacts
  <2>2. UNCHANGED <<wal, disk, records, shown, mode>>
    BY DEF fallback_write, journal_vars, write_publication_marker
  <2> QED
    BY <2>1, <2>2, KeepTrusted
<1>5. InvRecords'
  BY DEF fallback_write, journal_vars, write_publication_marker, InvRecords
<1>6. InvSettled'
  BY DEF fallback_write, journal_vars, write_publication_marker, InvSettled
<1>7. InvPublisher'
  BY DEF fallback_write, journal_vars, write_publication_marker, InvPublisher, Follows
<1>8. InvJournal'
  BY DEF fallback_write, journal_vars, write_publication_marker, InvJournal
<1>9. FloorsExcludeHoles'
  <2>1. /\ slots' = [slots EXCEPT ![OtherSlot] = next]
        /\ UNCHANGED <<disk_slots, wal, disk>>
    BY NextFacts DEF fallback_write, journal_vars, write_publication_marker
  <2>2. marker.replay_start <= next.replay_start /\ next.replay_start \in Nat
    BY NextFacts DEF fallback_write, journal_vars, write_publication_marker
  <2>3. \A p \in Pos : wal[p] = Hole \/ disk[p] = Hole => p < marker.replay_start
    BY DEF FloorsExcludeHoles, InvSlots
  <2> QED
    BY <2>1, <2>2, <2>3 DEF FloorsExcludeHoles, TypeOK
<1> QED
  BY <1>1, <1>2, <1>3, <1>4, <1>5, <1>6, <1>7, <1>8, <1>9 DEF IInv, InvUp, InvDown,
       InvClean

\* Now both slots have the raised floor.
LEMMA FallbackSyncKeeps ==
    ASSUME Up, fallback_sync
    PROVE  IInv'
<1> USE UpFacts, UpTypes, UpPages, PosFacts
<1>1. mode' = "up" /\ clean' = clean
  BY DEF fallback_sync, journal_vars, Up
<1>2. TypeOK'
  BY DEF fallback_sync, journal_vars, TypeOK, Pos, End
<1>3. InvSlots'
  <2>1. published_end' = next.end
    BY DEF fallback_sync, journal_vars, InvPublisher
  <2> QED
    BY <2>1, SyncedSlots DEF fallback_sync, journal_vars, Syncing
<1>4. InvTrusted'
  <2>1. Believed(next) /\ Follows(next)
    BY DEF fallback_sync, journal_vars, InvPublisher, InvSlots, Syncing, Believed,
         Follows, WellFormed,
           PublicationMarker, TornSlot, End, PageSize, Slot
  <2>2. ASSUME NEW m, Believed(m)' PROVE Trusted(m)
    <3>1. m = next \/ m = next'
      <4>1. marker' = next /\ slots' = slots /\ next.generation = marker.generation + 1
        BY <2>1 DEF fallback_sync, journal_vars, Follows
      <4>2. m \in {slots[0], slots[1]} /\ m # TornSlot => ~(m.generation > next.generation)
        BY <4>1, NoNewerSlot
      <4> QED
        BY <2>2, <4>1, <4>2 DEF Believed
    <3>2. Trusted(next)
      BY <2>1, BelievedFacts
    <3> QED
      BY <2>1, <2>2, <3>1, <3>2 DEF fallback_sync, journal_vars, Believed, Writing,
           Trusted, offset, Follows, WellFormed, PublicationMarker
  <2>3. UNCHANGED <<wal, disk, records, shown, mode>>
    BY DEF fallback_sync, journal_vars
  <2> QED
    BY <2>2, <2>3, KeepTrusted
<1>5. InvRecords'
  <2>1. /\ next.end = marker.end /\ marker.replay_start <= next.replay_start
        /\ next.replay_start \in Nat /\ pruning.replay_start = next.replay_start
    BY NextFacts DEF fallback_sync, InvPublisher
  <2> QED
    BY <2>1 DEF fallback_sync, file_vars, journal_vars, InvRecords
<1>6. InvSettled'
  <2>1. /\ next.end = marker.end /\ marker.replay_start <= next.replay_start
        /\ next.replay_start \in Nat /\ pruning.replay_start = next.replay_start
    BY NextFacts DEF fallback_sync, InvPublisher
  <2> QED
    BY <2>1 DEF fallback_sync, file_vars, journal_vars, InvSettled
<1>7. InvPublisher'
  <2>1. /\ next.end = marker.end /\ pruning.replay_start = next.replay_start
        /\ pruning.replay_start = marker.replay_start
        /\ pruning.replay_start < marker.end
    BY DEF fallback_sync, InvPublisher
  <2>2. slots[OtherSlot] = next /\ slots[MySlot] = marker /\ \A i \in Slot : i = MySlot \/ i = OtherSlot
    BY DEF fallback_sync, InvSlots, Syncing, Slot
  <2> QED
    BY <2>1, <2>2 DEF fallback_sync, InvPublisher
<1>8. InvJournal'
  <2>1. /\ next.end = marker.end /\ marker.replay_start <= next.replay_start
        /\ next.replay_start \in Nat /\ pruning.replay_start = next.replay_start
    BY NextFacts DEF fallback_sync, InvPublisher
  <2> QED
    BY <2>1 DEF fallback_sync, file_vars, journal_vars, InvJournal
<1>9. FloorsExcludeHoles'
  BY DEF fallback_sync, journal_vars, FloorsExcludeHoles
<1> QED
  BY <1>1, <1>2, <1>3, <1>4, <1>5, <1>6, <1>7, <1>8, <1>9 DEF IInv, InvUp, InvDown,
       InvClean

\* Every page that is deallocated is below the floor of both slots.
LEMMA PunchKeeps ==
    ASSUME Up, punch
    PROVE  IInv'
<1> USE UpFacts, UpTypes, UpPages, PosFacts
<1>1. mode' = "up" /\ clean' = clean
  BY DEF punch, journal_vars, Up
<1>2. TypeOK'
  <2>1. wal' \in [Pos -> Page]
    BY DEF punch, Page
  <2>2. pruning' \in [old_start : 0 .. MaxRecords + 1, replay_start : 0 .. MaxRecords + 1]
    BY DEF punch, NoPrune
  <2> QED
    BY <2>1, <2>2 DEF punch, journal_vars, TypeOK
<1>3. InvSlots'
  BY DEF punch, journal_vars, InvSlots, Follows, Syncing, MySlot, OtherSlot, slot_of
<1>4. InvTrusted'
  <2>0. \A p \in Pos : marker.replay_start <= p => wal'[p] = wal[p]
    <3>1. pruning.replay_start = marker.replay_start
      BY DEF punch, InvPublisher
    <3> QED
      BY <3>1 DEF punch, Pos, PageSize
  <2> SUFFICES ASSUME NEW m, Believed(m)' PROVE Trusted(m)'
    BY DEF InvTrusted
  <2>1. Believed(m)
    BY DEF punch, journal_vars, Believed, Writing
  <2>2. ASSUME NEW p \in Pos, m.replay_start <= p, p < m.end
        PROVE  Solid(p)'
    <3>1. Solid(p)
      BY <2>1, <2>2, BelievedFacts DEF Trusted
    <3> QED
      BY <1>1, <2>0, <2>1, <2>2, <3>1, BelievedFacts, SolidFrame DEF punch,
           journal_vars, Up, Pos
  <2>3. m.end > PageSize => wal'[offset(m)] = wal[offset(m)]
    BY <2>0, <2>1, BelievedFacts DEF PageSize
  <2>4. mode' = mode /\ shown' = shown
    BY <1>1 DEF punch, journal_vars, Up
  <2> QED
    BY <2>1, <2>2, <2>3, <2>4, BelievedFacts, TrustedFrame
<1>5. InvRecords'
  <2>1. /\ pruning.replay_start = marker.replay_start
        /\ \A p \in Pos : marker.replay_start <= p => wal'[p] = wal[p]
    <3>1. pruning.replay_start = marker.replay_start
      BY DEF punch, InvPublisher
    <3> QED
      BY <3>1 DEF punch
  <2>2. pruning'.replay_start = 0
    BY DEF punch, NoPrune
  <2> QED
    BY <2>1, <2>2 DEF punch, journal_vars, InvRecords
<1>6. InvSettled'
  <2>1. /\ pruning.replay_start = marker.replay_start
        /\ \A p \in Pos : marker.replay_start <= p => wal'[p] = wal[p]
    <3>1. pruning.replay_start = marker.replay_start
      BY DEF punch, InvPublisher
    <3> QED
      BY <3>1 DEF punch
  <2>2. pruning'.replay_start = 0
    BY DEF punch, NoPrune
  <2> QED
    BY <2>1, <2>2 DEF punch, journal_vars, InvSettled
<1>7. InvPublisher'
  <2>1. /\ pruning.replay_start = marker.replay_start
        /\ \A p \in Pos : marker.replay_start <= p => wal'[p] = wal[p]
    <3>1. pruning.replay_start = marker.replay_start
      BY DEF punch, InvPublisher
    <3> QED
      BY <3>1 DEF punch
  <2>2. pruning'.replay_start = 0
    BY DEF punch, NoPrune
  <2> QED
    BY <2>1, <2>2 DEF punch, journal_vars, InvPublisher
<1>8. InvJournal'
  <2>1. /\ pruning.replay_start = marker.replay_start
        /\ \A p \in Pos : marker.replay_start <= p => wal'[p] = wal[p]
    <3>1. pruning.replay_start = marker.replay_start
      BY DEF punch, InvPublisher
    <3> QED
      BY <3>1 DEF punch
  <2>2. pruning'.replay_start = 0
    BY DEF punch, NoPrune
  <2> QED
    BY <2>1, <2>2 DEF punch, journal_vars, InvJournal, InvRecords, TypeOK
<1>9. FloorsExcludeHoles'
  <2>1. /\ pruning.replay_start = marker.replay_start
        /\ \A i \in Slot : slots[i].replay_start = marker.replay_start
        /\ \A i \in Slot : disk_slots[i] = slots[i]
    BY DEF punch, InvPublisher, InvSlots, Syncing, Slot
  <2>2. \A p \in Pos : wal'[p] = Hole => wal[p] = Hole \/ p < marker.replay_start
    BY <2>1 DEF punch
  <2> QED
    BY <2>1, <2>2 DEF punch, FloorsExcludeHoles
<1> QED
  BY <1>1, <1>2, <1>3, <1>4, <1>5, <1>6, <1>7, <1>8, <1>9 DEF IInv, InvUp, InvDown,
       InvClean

\* A failed write leaves the slot as it was, torn, or a believed marker.
LEMMA PublicationFailKeeps ==
    ASSUME Up, publication_fail
    PROVE  IInv'
<1> USE UpFacts, UpTypes, UpPages, PosFacts
<1>1. mode' = "up" /\ clean' = clean
  BY DEF publication_fail, journal_vars, Up
<1>2. TypeOK'
  <2>1. slots' \in [Slot -> PublicationMarker \cup {TornSlot}]
    BY DEF publication_fail, TypeOK
  <2>2. pruning' \in [old_start : 0 .. MaxRecords + 1, replay_start : 0 .. MaxRecords + 1]
    BY DEF publication_fail, NoPrune
  <2>3. poisoned' \in BOOLEAN
    BY DEF publication_fail
  <2> QED
    BY <2>1, <2>2, <2>3 DEF publication_fail, journal_vars, TypeOK
<1>3. InvSlots'
  <2>1. /\ slots'[MySlot] = slots[MySlot]
        /\ slots'[OtherSlot] = slots[OtherSlot] \/ slots'[OtherSlot] = TornSlot
    BY NextFacts DEF publication_fail, TypeOK
  <2>2. slots[OtherSlot] = disk_slots[OtherSlot] \/ Follows(slots[OtherSlot])
    BY NextFacts DEF publication_fail, InvSlots
  <2>3. /\ UNCHANGED <<disk_slots, marker, published_end, appended_end>>
        /\ mpc' = "idle" /\ poisoned'
    BY DEF publication_fail, journal_vars
  <2>4. MySlot' = MySlot /\ OtherSlot' = OtherSlot /\ ~Syncing'
    BY <2>3 DEF MySlot, OtherSlot, Syncing
  <2>5. Follows(slots[OtherSlot]) /\ slots'[OtherSlot] = slots[OtherSlot] => Follows(slots[OtherSlot])'
    BY <2>3, <2>4 DEF Follows
  <2> QED
    BY <2>1, <2>2, <2>3, <2>4, <2>5 DEF InvSlots, Follows
<1>4. InvTrusted'
  <2>1. ASSUME NEW m, Believed(m)' PROVE Trusted(m)
    <3>1. \A i \in Slot : slots'[i] = slots[i] \/ slots'[i] = TornSlot
      BY DEF publication_fail, TypeOK
    <3>2. Believed(m)
      BY <2>1, <3>1 DEF publication_fail, Believed, Writing, Slot
    <3> QED
      BY <3>2, BelievedFacts
  <2>2. UNCHANGED <<wal, disk, records, shown, mode>>
    BY DEF publication_fail, journal_vars
  <2> QED
    BY <2>1, <2>2, KeepTrusted
<1>5. InvRecords'
  BY DEF publication_fail, journal_vars, InvRecords, NoPrune
<1>6. InvSettled'
  BY DEF publication_fail, journal_vars, InvSettled
<1>7. InvPublisher'
  BY DEF publication_fail, InvPublisher, NoPrune
<1>8. InvJournal'
  BY DEF publication_fail, journal_vars, InvJournal
<1>9. FloorsExcludeHoles'
  <2>1. \A i \in Slot : slots'[i] = slots[i] \/ slots'[i] = TornSlot
    BY DEF publication_fail, TypeOK
  <2> QED
    BY <2>1 DEF publication_fail, FloorsExcludeHoles
<1> QED
  BY <1>1, <1>2, <1>3, <1>4, <1>5, <1>6, <1>7, <1>8, <1>9 DEF IInv, InvUp, InvDown,
       InvClean

\* A page written back early is a page that could have survived anyway.
LEMMA WriteBackKeeps ==
    ASSUME Up, NEW q \in Pos, write_back(q)
    PROVE  IInv'
<1> USE UpFacts, UpTypes, UpPages, PosFacts
<1>1. mode' = "up" /\ clean' = clean
  BY DEF write_back, journal_vars, publication_vars, DirtyPages, Up
<1>2. TypeOK'
  BY DEF write_back, journal_vars, publication_vars, DirtyPages, TypeOK, Pos, End
<1>3. InvSlots'
  BY DEF write_back, journal_vars, publication_vars, DirtyPages, InvSlots, Follows,
       Syncing, MySlot, OtherSlot, slot_of
<1>4. InvTrusted'
  <2> SUFFICES ASSUME NEW m, Believed(m)' PROVE Trusted(m)'
    BY DEF InvTrusted
  <2>1. Believed(m)
    BY DEF write_back, journal_vars, publication_vars, DirtyPages, Believed, Writing
  <2>2. ASSUME NEW p \in Pos, m.replay_start <= p, p < m.end
        PROVE  Solid(p)'
    <3>1. Solid(p)
      BY <2>1, <2>2, BelievedFacts DEF Trusted
    <3>2. /\ wal'[p] = wal[p] /\ disk'[p] \in {disk[p], wal[p]}
          /\ shown'[p] = shown[p] /\ records'[p] = records[p]
      BY <2>1, <2>2, BelievedFacts DEF write_back, journal_vars, publication_vars,
           DirtyPages
    <3> QED
      BY <1>1, <3>1, <3>2, SolidFrame DEF Up
  <2>3. m.end > PageSize => wal'[offset(m)] = wal[offset(m)]
    BY <2>1, BelievedFacts DEF write_back, journal_vars, publication_vars, DirtyPages,
         PageSize
  <2>4. mode' = mode /\ shown' = shown
    BY <1>1 DEF write_back, journal_vars, publication_vars, DirtyPages, Up
  <2> QED
    BY <2>1, <2>2, <2>3, <2>4, BelievedFacts, TrustedFrame
<1>5. InvRecords'
  BY DEF write_back, journal_vars, publication_vars, DirtyPages, InvRecords
<1>6. InvSettled'
  BY DEF write_back, journal_vars, publication_vars, DirtyPages, InvSettled
<1>7. InvPublisher'
  BY DEF write_back, journal_vars, publication_vars, DirtyPages, InvPublisher, Follows
<1>8. InvJournal'
  BY DEF write_back, journal_vars, publication_vars, DirtyPages, InvJournal
<1>9. FloorsExcludeHoles'
  BY DEF write_back, journal_vars, publication_vars, DirtyPages, FloorsExcludeHoles
<1> QED
  BY <1>1, <1>2, <1>3, <1>4, <1>5, <1>6, <1>7, <1>8, <1>9 DEF IInv, InvUp, InvDown,
       InvClean

-----------------------------------------------------------------------------
(* Crashes: what a reader selects *)

\* Whichever of the two versions of each slot survives, or neither where they
\* differ, the reader selects a believed marker.
LEMMA SurvivingSlots ==
    ASSUME Up, NEW s, s \in [Slot -> PublicationMarker \cup {TornSlot}],
           s[MySlot] = marker,
           s[OtherSlot] \in {disk_slots[OtherSlot], slots[OtherSlot], TornSlot}
    PROVE  /\ SlotsReadable(s)
           /\ Believed(read_publication_marker(s))
           /\ \A i \in Slot : s[i] # TornSlot => WellFormed(s[i])
<1> USE UpTypes, UpFacts
<1> DEFINE o == s[OtherSlot]
<1>1. \/ o = TornSlot
      \/ OlderThan(o, marker)
      \/ o \in {slots[0], slots[1]} /\ Follows(o)
  <2>1. slots[OtherSlot] \in {slots[0], slots[1]}
    BY DEF Slot
  <2>2. Syncing => Follows(next)
    BY NextFacts DEF Syncing
  <2> QED
    BY <2>1, <2>2 DEF InvSlots
<1>2. WellFormed(marker) /\ (o # TornSlot => WellFormed(o))
  BY <1>1 DEF InvSlots, OlderThan, Follows
<1>3. o # TornSlot => /\ o \in PublicationMarker /\ o.generation \in Nat
                      /\ o.generation % 2 = OtherSlot
  <2>1. Follows(o) => o.generation % 2 = OtherSlot
    BY SlotFacts DEF Follows, OtherSlot, slot_of
  <2> QED
    BY <1>1, <1>2, <2>1 DEF WellFormed, PublicationMarker, OlderThan, OtherSlot, slot_of
<1>4. marker.generation % 2 = MySlot
  BY DEF MySlot, slot_of
<1>5. ValidBoundary(marker, MySlot) /\ (o # TornSlot => ValidBoundary(o, OtherSlot))
  <2>1. ASSUME NEW m, NEW i, WellFormed(m), m.generation % 2 = i PROVE ValidBoundary(m, i)
    <3>1. /\ m.end \in Nat /\ m.replay_start \in Nat /\ m.replay_start >= 1
          /\ m.replay_start <= m.end
          /\ m.end > 1 => m.replay_start < m.end
      BY <2>1 DEF WellFormed, PublicationMarker, End, PageSize
    <3> QED
      BY <2>1, <3>1 DEF ValidBoundary, offset, PageSize
  <2> QED
    BY <1>2, <1>3, <1>4, <2>1
<1>6. \A i \in Slot : i = MySlot \/ i = OtherSlot
  BY DEF Slot
<1>7. Checksummed(s) = IF o = TornSlot THEN {MySlot} ELSE Slot
  BY <1>6 DEF Checksummed
<1>8. CASE o = TornSlot
  <2>1. NewerSlot(s) = MySlot
    BY <1>6, <1>8 DEF NewerSlot, Slot
  <2>2. SlotsReadable(s)
    BY <1>5, <1>7, <1>8, <1>6, <2>1 DEF SlotsReadable
  <2> QED
    BY <1>2, <1>6, <1>8, <2>1, <2>2 DEF read_publication_marker, Believed
<1>9. CASE o # TornSlot /\ OlderThan(o, marker)
  <2>1. NewerSlot(s) = MySlot
    BY <1>3, <1>9 DEF NewerSlot, Slot, OlderThan
  <2>2. 1 - MySlot = OtherSlot
    BY DEF MySlot, OtherSlot, Other
  <2>3. SlotsReadable(s)
    BY <1>5, <1>6, <1>7, <1>9, <2>1, <2>2 DEF SlotsReadable, OlderThan
  <2> QED
    BY <1>2, <1>6, <2>1, <2>3 DEF read_publication_marker, Believed
<1>10. CASE o # TornSlot /\ o \in {slots[0], slots[1]} /\ Follows(o)
  <2>1. o.generation > marker.generation
    BY <1>10 DEF Follows
  <2>2. NewerSlot(s) = OtherSlot
    BY <1>3, <1>10, <2>1 DEF NewerSlot, Slot
  <2>3. 1 - OtherSlot = MySlot
    BY DEF MySlot, OtherSlot, Other, Slot
  <2>4. SlotsReadable(s)
    BY <1>5, <1>6, <1>7, <1>10, <2>2, <2>3 DEF SlotsReadable, Follows
  <2> QED
    BY <1>2, <1>6, <1>10, <2>1, <2>2, <2>4 DEF read_publication_marker, Believed
<1> QED
  BY <1>1, <1>8, <1>9, <1>10

\* A page that is solid survives as one of its two versions.
LEMMA SolidPages ==
    ASSUME NEW p \in Pos, Solid(p), NEW o \in Outcomes
    PROVE  PageAfter(disk[p], wal[p], o) \in {disk[p], wal[p]}
  BY DEF Solid, PageAfter

\* The marker that the next open will select, while no process runs.
LEMMA DownFacts ==
    ASSUME IInv, mode \in {"down", "opening"}
    PROVE  LET m == read_publication_marker(slots) IN
           /\ TypeOK /\ InvDown /\ InvClean /\ FloorsExcludeHoles
           /\ slots = disk_slots /\ SlotsReadable(slots)
           /\ NewerSlot(slots) \in Slot /\ m = slots[NewerSlot(slots)]
           /\ m # TornSlot /\ WellFormed(m) /\ m \in PublicationMarker
           /\ m.generation \in Nat /\ m.generation % 2 = NewerSlot(slots)
           /\ m.end \in Nat /\ m.end \in End /\ m.replay_start \in Nat
           /\ 1 <= m.replay_start /\ m.replay_start <= m.end
           /\ m.end > 1 => /\ m.replay_start < m.end
                           /\ offset(m) \in Pos /\ offset(m) < m.end
                           /\ m.replay_start <= offset(m)
           /\ Trusted(m)
<1> DEFINE m == read_publication_marker(slots)
<1>1. /\ TypeOK /\ InvDown /\ InvClean /\ FloorsExcludeHoles
      /\ slots = disk_slots /\ SlotsReadable(slots) /\ Trusted(m)
      /\ \A i \in Slot : slots[i] # TornSlot => WellFormed(slots[i])
  BY DEF IInv, InvDown
<1>2. NewerSlot(slots) \in Slot /\ m = slots[NewerSlot(slots)]
  BY DEF NewerSlot, Slot, read_publication_marker
<1>3. m # TornSlot
  BY <1>1, <1>2 DEF SlotsReadable, Checksummed, NewerSlot, Slot, read_publication_marker
<1>4. ValidBoundary(m, NewerSlot(slots)) /\ WellFormed(m)
  BY <1>1, <1>2, <1>3 DEF SlotsReadable, Checksummed
<1>5. m.generation % 2 = NewerSlot(slots) /\ m \in PublicationMarker
  BY <1>4 DEF ValidBoundary, WellFormed
<1>6. m.end \in End /\ m.replay_start \in End /\ m.generation \in Nat
  BY <1>5 DEF PublicationMarker
<1>7. m.end \in Nat /\ m.replay_start \in Nat /\ 1 <= m.replay_start
  BY <1>6, BoundsAssumption DEF End, PageSize
<1>8. m.replay_start <= m.end /\ (m.end > 1 => m.replay_start < m.end)
  BY <1>4 DEF WellFormed, PageSize
<1>9. m.end > 1 => /\ offset(m) \in Pos /\ offset(m) < m.end
                   /\ m.replay_start <= offset(m)
  BY <1>6, <1>7, <1>8, OffsetFacts
<1> HIDE DEF m
<1> QED
  BY <1>1, <1>2, <1>3, <1>4, <1>5, <1>6, <1>7, <1>8, <1>9 DEF m

\* The state of a process that has ended is well typed.
LEMMA ProcessEndsTypes ==
    ASSUME TypeOK, process_ends, clean' \in BOOLEAN, UNCHANGED shown,
           wal' \in [Pos -> Page], disk' \in [Pos -> Page],
           slots' \in [Slot -> PublicationMarker \cup {TornSlot}],
           disk_slots' \in [Slot -> PublicationMarker \cup {TornSlot}]
    PROVE  TypeOK'
<1> USE BoundsAssumption
<1>1. /\ records' \in [Pos -> JournalRecord \cup {Absent}]
      /\ shown' \in [Pos -> JournalRecord \cup {Absent}]
  BY DEF TypeOK, process_ends, NoRecords
<1>2. appended_end' \in End /\ published_end' \in End /\ jarg' \in Pos /\ epoch' \in 0 .. MaxEpoch
  BY DEF process_ends, End, Pos, PageSize
<1>3. poisoned' \in BOOLEAN /\ needs_replay' \in BOOLEAN
  BY DEF process_ends
<1>4. pruning' \in [old_start : 0 .. MaxRecords + 1, replay_start : 0 .. MaxRecords + 1]
  BY DEF process_ends, NoPrune
<1>5. /\ mode' = "down" /\ marker' = TornSlot /\ next' = TornSlot
      /\ submitted' = NoBoundary /\ jpc' = "idle" /\ mpc' = "idle"
  BY DEF process_ends
<1> QED
  BY <1>1, <1>2, <1>3, <1>4, <1>5 DEF TypeOK

-----------------------------------------------------------------------------
(* Opening, closing, crashing *)

\* Removing the clean-shutdown file changes nothing else.
LEMMA OpenTakeCleanKeeps ==
    ASSUME IInv, open_take_clean
    PROVE  IInv'
<1>1. /\ mode = "down" /\ mode' = "opening" /\ ~clean'
      /\ UNCHANGED <<wal, disk, slots, disk_slots, records, marker, shown, jpc, mpc,
                     pruning, poisoned>>
  BY DEF open_take_clean, publication_vars
<1>2. TypeOK'
  <2>1. needs_replay' \in BOOLEAN /\ clean' \in BOOLEAN
    BY DEF open_take_clean
  <2> QED
    BY <2>1 DEF IInv, TypeOK, open_take_clean, publication_vars
<1>3. InvDown'
  <2>1. ASSUME NEW m, Trusted(m) PROVE Trusted(m)'
    BY <1>1, <2>1 DEF Trusted, Solid
  <2> QED
    BY <1>1, <2>1 DEF IInv, InvDown
<1>4. FloorsExcludeHoles'
  BY <1>1 DEF IInv, FloorsExcludeHoles
<1> QED
  BY <1>1, <1>2, <1>3, <1>4 DEF IInv, InvUp, InvClean

\* Opening succeeds, and what it believes is solid.
LEMMA OpenScanKeeps ==
    ASSUME IInv, open_scan
    PROVE  IInv'
<1> DEFINE m == read_publication_marker(slots)
<1> USE DownFacts, PosFacts
<1>0. mode = "opening" /\ ~clean
  BY DEF open_scan, IInv, InvClean
<1>1. PrefixValid(wal, m)
  <2>1. \A p \in Pos : m.replay_start <= p /\ p < m.end => IsRecord(wal[p])
    BY <1>0 DEF Trusted, Solid
  <2>2. m.replay_start < m.end => wal[offset(m)].block = m.block
    BY <1>0 DEF Trusted, PageSize
  <2>3. ~(m.replay_start < m.end) => m.end = PageSize /\ m.block = NoBlock
    BY <1>0 DEF WellFormed, PageSize
  <2> QED
    BY <2>1, <2>2, <2>3 DEF PrefixValid
<1>2. /\ mode' = "up" /\ marker' = m /\ appended_end' = m.end /\ published_end' = m.end
      /\ wal' = set_len(wal, m.end)
      /\ records' = [p \in Pos |-> IF m.replay_start <= p /\ p < m.end THEN wal[p] ELSE Absent]
      /\ shown' = [p \in Pos |-> IF p < m.replay_start THEN shown[p] ELSE records'[p]]
      /\ UNCHANGED <<disk, slots, disk_slots, clean, epoch, poisoned, needs_replay,
                     jpc, jarg, mpc, next, submitted, pruning>>
  BY <1>0, <1>1 DEF open_scan
<1>3. /\ jpc = "idle" /\ mpc = "idle" /\ pruning.replay_start = 0 /\ ~poisoned
      /\ \A p \in Pos : m.replay_start <= p /\ p < m.end => wal[p] = disk[p]
      /\ \A p \in Pos : p < m.replay_start => shown[p] # Absent
  BY <1>0 DEF InvDown, NoPrune
<1>4. wal \in [Pos -> Page] /\ shown \in [Pos -> JournalRecord \cup {Absent}]
  BY <1>0 DEF TypeOK
<1>5. \A p \in Pos : m.replay_start <= p /\ p < m.end =>
        /\ wal[p] \in JournalRecord /\ wal[p] # Absent /\ IsRecord(wal[p])
        /\ wal'[p] = wal[p] /\ records'[p] = wal[p] /\ shown'[p] = wal[p]
  <2>1. \A p \in Pos : m.replay_start <= p /\ p < m.end => IsRecord(wal[p])
    BY <1>1 DEF PrefixValid
  <2> QED
    BY <1>0, <1>2, <1>4, <2>1, RecordPages DEF set_len
<1>6. \A p \in Pos : p >= m.end => records'[p] = Absent /\ shown'[p] = Absent
  BY <1>0, <1>2
<1>7. \A p \in Pos : p < m.replay_start => records'[p] = Absent /\ shown'[p] = shown[p]
  BY <1>0, <1>2
<1>8. m.end \in Nat /\ m.end \in End /\ m.replay_start \in Nat /\ m.replay_start <= m.end /\ 1 <= m.replay_start
  BY <1>0
<1>9. /\ m \in PublicationMarker /\ WellFormed(m) /\ m # TornSlot
  BY <1>0
<1>10. TypeOK'
  <2>1. wal' \in [Pos -> Page]
    BY <1>2, <1>4 DEF set_len, Page
  <2>2. /\ records' \in [Pos -> JournalRecord \cup {Absent}]
        /\ shown' \in [Pos -> JournalRecord \cup {Absent}]
    BY <1>2, <1>4, <1>5, <1>8
  <2>3. TypeOK
    BY <1>0
  <2> HIDE DEF m
  <2> QED
    BY <1>2, <1>8, <1>9, <2>1, <2>2, <2>3 DEF TypeOK
<1>11. InvSlots' /\ MySlot' = NewerSlot(slots)
  <2>1. MySlot' = NewerSlot(slots)
    BY <1>0, <1>2 DEF MySlot, slot_of
  <2>2. OtherSlot' = 1 - NewerSlot(slots) /\ NewerSlot(slots) \in Slot /\ 1 - NewerSlot(slots) \in Slot
    BY <1>0, <1>2, <2>1 DEF MySlot, OtherSlot, slot_of, Other, Slot
  <2>3. slots[NewerSlot(slots)] = m /\ disk_slots = slots
    BY <1>0
  <2>4. OlderThan(slots[1 - NewerSlot(slots)], m)
    <3> DEFINE x == slots[1 - NewerSlot(slots)]
    <3> SUFFICES ASSUME x # TornSlot PROVE OlderThan(x, m)
      BY DEF OlderThan
    <3>1. WellFormed(x) /\ x.generation \in Nat
      BY <1>0, <2>2 DEF InvDown, WellFormed, PublicationMarker
    <3>2. Checksummed(slots) = Slot
      BY <1>9, <2>2, <2>3 DEF Checksummed, Slot
    <3>3. x.generation % 2 = 1 - NewerSlot(slots) /\ MonotonicSlots(x, m)
      BY <1>0, <2>2, <2>3, <3>2 DEF SlotsReadable, ValidBoundary
    <3>4. m.generation % 2 = NewerSlot(slots) /\ m.generation \in Nat
      BY <1>0
    <3>5. x.generation <= m.generation
      BY <1>9, <2>2, <2>3, <3>1, <3>4 DEF NewerSlot, Slot
    <3>6. x.generation # m.generation
      BY <2>2, <3>3, <3>4 DEF Slot
    <3> HIDE DEF x, m
    <3> QED
      BY <3>1, <3>3, <3>4, <3>5, <3>6 DEF OlderThan, Other
  <2>5. ~Syncing'
    BY <1>2, <1>3 DEF Syncing
  <2> HIDE DEF m
  <2> QED
    BY <1>2, <1>8, <1>9, <2>1, <2>2, <2>3, <2>4, <2>5 DEF InvSlots
<1>12. InvTrusted'
  <2> SUFFICES ASSUME NEW x, Believed(x)' PROVE Trusted(x)'
    BY DEF InvTrusted
  <2>1. x = m
    <3>1. ~Writing' /\ marker' = m /\ slots' = slots
      BY <1>2, <1>3 DEF Writing
    <3>2. \A i \in Slot : slots[i] # TornSlot => slots[i].generation <= m.generation
      <4>1. \A i \in Slot : slots[i] # TornSlot => slots[i].generation \in Nat
        BY <1>0 DEF TypeOK, PublicationMarker
      <4> QED
        BY <1>0, <4>1 DEF NewerSlot, Slot
    <3>3. \A i \in Slot : slots[i] # TornSlot => slots[i].generation \in Nat
      BY <1>0 DEF TypeOK, PublicationMarker
    <3>4. m.generation \in Nat
      BY <1>0
    <3> QED
      BY <3>1, <3>2, <3>3, <3>4 DEF Believed, Slot
  <2>2. ASSUME NEW p \in Pos, m.replay_start <= p, p < m.end PROVE Solid(p)'
    <3>1. disk'[p] = wal[p]
      BY <1>2, <1>3, <2>2
    <3> QED
      BY <1>5, <2>2, <3>1 DEF Solid
  <2>3. m.end > PageSize => wal'[offset(m)].block = m.block
    <3>1. m.end > PageSize => wal[offset(m)].block = m.block
      BY <1>0 DEF Trusted
    <3>2. m.end > PageSize => wal'[offset(m)] = wal[offset(m)]
      BY <1>0, <1>5 DEF PageSize
    <3> QED
      BY <3>1, <3>2
  <2> HIDE DEF m
  <2> QED
    BY <1>6, <2>1, <2>2, <2>3 DEF Trusted
<1> HIDE DEF m
<1>13. InvRecords'
  BY <1>2, <1>3, <1>5, <1>6, <1>7, <1>8 DEF InvRecords
<1>14. InvSettled'
  BY <1>2, <1>3, <1>5, <1>8 DEF InvSettled
<1>15. InvPublisher'
  BY <1>2, <1>3, <1>8 DEF InvPublisher
<1>16. InvJournal'
  BY <1>2, <1>3 DEF InvJournal
<1>17. FloorsExcludeHoles'
  <2>1. \A p \in Pos : wal'[p] = Hole => wal[p] = Hole
    BY <1>2 DEF set_len, Absent, Hole
  <2> QED
    BY <1>0, <1>2, <2>1 DEF FloorsExcludeHoles
<1> QED
  BY <1>0, <1>2, <1>10, <1>11, <1>12, <1>13, <1>14, <1>15, <1>16, <1>17
     DEF IInv, InvUp, InvDown, InvClean

\* A clean shutdown leaves files that read as they were shown.
LEMMA MarkCleanShutdownKeeps ==
    ASSUME Up, mark_clean_shutdown
    PROVE  IInv'
<1> USE UpFacts, UpTypes, UpPages, PosFacts
<1>1. /\ mode' = "down" /\ clean' = TRUE
      /\ UNCHANGED <<wal, disk, slots, disk_slots, shown>>
      /\ jpc' = "idle" /\ mpc' = "idle" /\ pruning' = NoPrune /\ ~poisoned'
      /\ jpc = "idle" /\ mpc = "idle" /\ ~poisoned
  BY DEF mark_clean_shutdown, process_ends, JournalFree
<1>2. TypeOK'
  BY <1>1, ProcessEndsTypes DEF mark_clean_shutdown, TypeOK
<1>3. slots = disk_slots
  BY <1>1 DEF TypeOK, InvSlots, Syncing, Slot
<1>4. /\ SlotsReadable(slots) /\ Believed(read_publication_marker(slots))
      /\ \A i \in Slot : slots[i] # TornSlot => WellFormed(slots[i])
  BY SurvivingSlots DEF TypeOK, InvSlots
<1>5. read_publication_marker(slots) = marker
  BY <1>1, <1>4, BelievedFacts DEF Syncing, Writing
<1>6. \A p \in Pos : marker.replay_start <= p /\ p < marker.end =>
        wal[p] = shown[p] /\ disk[p] = shown[p]
  BY <1>1 DEF InvSettled
<1>7. \A p \in Pos : p < marker.replay_start => shown[p] # Absent
  BY DEF InvRecords
<1>8. ASSUME NEW m, Trusted(m) PROVE Trusted(m)'
  BY <1>1, <1>8 DEF Trusted, Solid
<1>9. Trusted(marker)
  BY BelievedFacts DEF Believed
<1>10. InvDown'
  <2>1. \E m : /\ m = read_publication_marker(slots)' /\ m = marker
               /\ Trusted(m)'
    BY <1>1, <1>5, <1>8, <1>9 DEF read_publication_marker
  <2> QED
    BY <1>1, <1>3, <1>4, <1>5, <1>6, <1>7, <2>1 DEF InvDown
<1>11. InvClean'
  BY <1>1, <1>5, <1>6 DEF InvClean
<1>12. FloorsExcludeHoles'
  BY <1>1 DEF FloorsExcludeHoles
<1> QED
  BY <1>1, <1>2, <1>10, <1>11, <1>12 DEF IInv, InvUp

\* What the medium holds after a power loss, page by page and slot by slot.
LEMMA PowerLossFiles ==
    ASSUME TypeOK, power_loss
    PROVE  /\ \A p \in Pos : \E o \in Outcomes : wal'[p] = PageAfter(disk[p], wal[p], o)
           /\ \A i \in Slot : slots'[i] \in {disk_slots[i], slots[i], TornSlot}
           /\ \A i \in Slot : disk_slots[i] = slots[i] => slots'[i] = slots[i]
           /\ disk' = wal' /\ disk_slots' = slots'
           /\ wal' \in [Pos -> Page]
           /\ slots' \in [Slot -> PublicationMarker \cup {TornSlot}]
<1>1. PICK kept \in [DirtyPages -> Outcomes] :
        wal' = [p \in Pos |-> IF p \in DirtyPages
                              THEN PageAfter(disk[p], wal[p], kept[p]) ELSE wal[p]]
  BY DEF power_loss
<1>2. PICK lost \in [DirtySlots -> Outcomes] :
        slots' = [i \in Slot |-> IF i \in DirtySlots
                                 THEN SlotAfter(disk_slots[i], slots[i], lost[i])
                                 ELSE slots[i]]
  BY DEF power_loss
<1>3. ASSUME NEW p \in Pos
      PROVE  \E o \in Outcomes : wal'[p] = PageAfter(disk[p], wal[p], o)
  <2>1. CASE p \in DirtyPages
    BY <1>1, <2>1
  <2>2. CASE p \notin DirtyPages
    BY <1>1, <2>2 DEF DirtyPages, PageAfter, Outcomes
  <2> QED
    BY <2>1, <2>2
<1>4. ASSUME NEW p \in Pos, NEW o \in Outcomes
      PROVE  PageAfter(disk[p], wal[p], o) \in Page
  BY DEF TypeOK, PageAfter, Page
<1>5. wal' \in [Pos -> Page]
  BY <1>1, <1>4 DEF TypeOK
<1>6. ASSUME NEW i \in Slot
      PROVE  /\ slots'[i] \in {disk_slots[i], slots[i], TornSlot}
             /\ disk_slots[i] = slots[i] => slots'[i] = slots[i]
  BY <1>2 DEF DirtySlots, SlotAfter
<1>7. slots' \in [Slot -> PublicationMarker \cup {TornSlot}]
  BY <1>2, <1>6 DEF TypeOK
<1> QED
  BY <1>3, <1>5, <1>6, <1>7 DEF power_loss

\* After a power loss the selected marker's pages have survived.
LEMMA PowerLossKeeps ==
    ASSUME IInv, power_loss
    PROVE  IInv'
<1> DEFINE m == read_publication_marker(slots)'
<1> USE PosFacts
<1>1. /\ mode' = "down" /\ jpc' = "idle" /\ mpc' = "idle" /\ pruning' = NoPrune
      /\ ~poisoned' /\ UNCHANGED <<clean, shown>>
      /\ mode \in {"down", "opening", "up"}
  BY DEF power_loss, process_ends, IInv, TypeOK
<1>2. TypeOK /\ FloorsExcludeHoles
  BY DEF IInv
<1> USE PowerLossFiles
<1>3. TypeOK'
  BY <1>1, <1>2, ProcessEndsTypes DEF power_loss, TypeOK
<1>4. /\ SlotsReadable(slots')
      /\ \A i \in Slot : slots'[i] # TornSlot => WellFormed(slots'[i])
      /\ Trusted(m)
      /\ \A p \in Pos : p < m.replay_start => shown[p] # Absent
  <2>1. CASE mode = "up"
    <3> USE <2>1, UpFacts, UpTypes DEF Up
    <3>1. slots'[MySlot] = marker
      BY <1>2 DEF InvSlots
    <3>2. /\ SlotsReadable(slots') /\ Believed(read_publication_marker(slots'))
          /\ \A i \in Slot : slots'[i] # TornSlot => WellFormed(slots'[i])
      BY <1>2, <3>1, SurvivingSlots
    <3>3. m = read_publication_marker(slots')
      BY DEF read_publication_marker, NewerSlot
    <3>4. \A p \in Pos : p < m.replay_start => shown[p] # Absent
      BY <3>2, <3>3, BelievedFacts DEF InvRecords
    <3> QED
      BY <3>2, <3>3, <3>4, BelievedFacts
  <2>2. CASE mode \in {"down", "opening"}
    <3>1. slots' = slots
      BY <1>2, <2>2, DownFacts DEF TypeOK
    <3> QED
      BY <2>2, <3>1, DownFacts DEF InvDown, read_publication_marker, NewerSlot
  <2> QED
    BY <1>1, <2>1, <2>2
<1>5. ASSUME NEW p \in Pos, m.replay_start <= p, p < m.end
      PROVE  Solid(p)' /\ wal'[p] \in {disk[p], wal[p]}
  <2>1. Solid(p)
    BY <1>4, <1>5 DEF Trusted
  <2>2. wal'[p] \in {disk[p], wal[p]} /\ disk'[p] = wal'[p]
    BY <1>2, <2>1, SolidPages
  <2> QED
    BY <1>1, <2>1, <2>2 DEF Solid
<1>6. m.end > PageSize => wal'[offset(m)].block = m.block
  <2>1. SUFFICES ASSUME m.end > PageSize PROVE wal'[offset(m)].block = m.block
    OBVIOUS
  <2>2. /\ m \in PublicationMarker /\ m.replay_start < m.end /\ m.end \in End
        /\ m.replay_start \in Nat
    <3>1. \E i \in Slot : m = slots'[i] /\ slots'[i] # TornSlot
      BY <1>4 DEF SlotsReadable, Checksummed, NewerSlot, Slot, read_publication_marker
    <3>2. WellFormed(m)
      BY <1>4, <3>1
    <3> HIDE DEF m
    <3> QED
      BY <2>1, <3>2 DEF WellFormed, PublicationMarker, End, PageSize
  <2> HIDE DEF m
  <2>3. offset(m) \in Pos /\ m.replay_start <= offset(m) /\ offset(m) < m.end
    BY <2>1, <2>2, OffsetFacts DEF PageSize
  <2>4. wal[offset(m)].block = m.block /\ Solid(offset(m))
    BY <1>4, <2>1, <2>3 DEF Trusted
  <2> QED
    BY <1>5, <2>3, <2>4 DEF Solid
<1>7. InvDown'
  <2>1. slots' = disk_slots' /\ wal' = disk'
    BY <1>2
  <2>2. SlotsReadable(slots)'
    BY <1>4 DEF SlotsReadable, Checksummed, NewerSlot
  <2>3. Trusted(read_publication_marker(slots))'
    BY <1>1, <1>4, <1>5, <1>6 DEF Trusted
  <2>4. \A p \in Pos : p < read_publication_marker(slots)'.replay_start => shown'[p] # Absent
    BY <1>1, <1>4
  <2> QED
    BY <1>1, <1>4, <2>1, <2>2, <2>3, <2>4 DEF InvDown
<1>8. InvClean'
  <2> SUFFICES ASSUME clean PROVE InvClean'
    BY <1>1 DEF InvClean
  <2>1. mode = "down" /\ slots' = slots
    BY <1>2, DownFacts DEF IInv, InvClean, TypeOK
  <2>2. m = read_publication_marker(slots)
    BY <2>1 DEF read_publication_marker, NewerSlot
  <2>3. \A p \in Pos : m.replay_start <= p /\ p < m.end => wal[p] = disk[p] /\ wal[p] = shown[p]
    BY <2>1, <2>2 DEF IInv, InvDown, InvClean
  <2> QED
    BY <1>1, <1>5, <2>3 DEF InvClean
<1>9. FloorsExcludeHoles'
  <2>1. \A p \in Pos : wal'[p] = Hole => wal[p] = Hole \/ disk[p] = Hole
    BY <1>2 DEF PageAfter, Torn, Hole
  <2> QED
    BY <1>2, <2>1 DEF FloorsExcludeHoles
<1> QED
  BY <1>1, <1>3, <1>7, <1>8, <1>9 DEF IInv, InvUp

\* Write-back while no process runs.
LEMMA WriteBackDownKeeps ==
    ASSUME IInv, mode # "up", NEW q \in Pos, write_back(q)
    PROVE  IInv'
<1>1. mode \in {"down", "opening"}
  BY DEF IInv, TypeOK
<1>2. /\ disk' = [disk EXCEPT ![q] = wal[q]]
      /\ UNCHANGED <<wal, slots, disk_slots, clean, mode, records, appended_end, epoch,
                     needs_replay, jpc, jarg, marker, published_end, mpc, next,
                     submitted, pruning, poisoned, shown>>
  BY DEF write_back, journal_vars, publication_vars
<1>3. TypeOK'
  BY <1>2 DEF IInv, TypeOK
<1>4. \A p \in Pos : disk'[p] = disk[p] \/ disk'[p] = wal[p]
  BY <1>2, <1>3 DEF IInv, TypeOK
<1>5. ASSUME NEW m, Trusted(m) PROVE Trusted(m)'
  <2>1. ASSUME NEW p \in Pos, m.replay_start <= p, p < m.end PROVE Solid(p)'
    <3>1. Solid(p)
      BY <1>5, <2>1 DEF Trusted
    <3> QED
      BY <1>2, <1>4, <3>1, SolidFrame
  <2> QED
    BY <1>2, <1>5, <2>1, TrustedFrame
<1>6. InvDown'
  BY <1>1, <1>2, <1>4, <1>5 DEF IInv, InvDown
<1>7. FloorsExcludeHoles'
  BY <1>2, <1>4 DEF IInv, FloorsExcludeHoles
<1> QED
  BY <1>1, <1>2, <1>3, <1>6, <1>7 DEF IInv, InvUp, InvClean

\* Stuttering.
LEMMA StutterKeeps ==
    ASSUME IInv, UNCHANGED vars
    PROVE  IInv'
<1>1. TypeOK' /\ FloorsExcludeHoles' /\ mode' # "refused"
  BY DEF IInv, vars, TypeOK, FloorsExcludeHoles
<1>2. ASSUME NEW m, Trusted(m) PROVE Trusted(m)'
  BY <1>2 DEF vars, Trusted, Solid
<1>3. InvDown' /\ InvClean'
  BY <1>2 DEF IInv, vars, InvDown, InvClean
<1>4. InvSlots => InvSlots'
  BY DEF vars, InvSlots, Syncing, MySlot, OtherSlot, Follows
<1>5. InvTrusted => InvTrusted'
  BY <1>2 DEF vars, InvTrusted, Believed, Writing
<1>6. /\ InvRecords => InvRecords'
      /\ InvSettled => InvSettled'
      /\ InvJournal => InvJournal'
  BY DEF vars, InvRecords, InvSettled, InvJournal
<1>7. InvPublisher => InvPublisher'
  BY DEF vars, InvPublisher, Follows
<1>8. InvUp'
  BY <1>4, <1>5, <1>6, <1>7 DEF IInv, vars, InvUp
<1> QED
  BY <1>1, <1>3, <1>8 DEF IInv

-----------------------------------------------------------------------------
(* The theorems *)

\* Every step keeps the invariant.
LEMMA NextKeeps ==
    ASSUME IInv, "kill" \notin CrashKinds, [Next]_vars
    PROVE  IInv'
<1>1. CASE Opening
  BY <1>1, OpenTakeCleanKeeps, OpenScanKeeps DEF Opening
<1>2. CASE JournalStep
  <2>1. mode = "up"
    BY <1>2 DEF JournalStep, append_begin, append_end, append_fail, flush,
       discard_unpublished, mark_rolled_back_begin, mark_rolled_back_end,
       mark_rolled_back_fail, prepare_prune, mark_clean_shutdown, submit, JournalFree
  <2>2. Up
    BY <2>1 DEF Up
  <2> QED
    BY <1>2, <2>2, AppendBeginKeeps, AppendEndKeeps, AppendFailKeeps, FlushKeeps,
       DiscardUnpublishedKeeps, MarkRolledBackBeginKeeps, MarkRolledBackEndKeeps,
       MarkRolledBackFailKeeps, PreparePruneKeeps, MarkCleanShutdownKeeps, SubmitKeeps
       DEF JournalStep
<1>3. CASE PublisherStep
  <2>1. mode = "up"
    BY <1>3 DEF PublisherStep, publish_return, publish_begin, publish_flush,
         publish_write,
       publish_sync, prune_return, prune_begin, floor_write, floor_sync, fallback_write,
       fallback_sync, punch, publication_fail, write_publication_marker
  <2>2. Up
    BY <2>1 DEF Up
  <2> QED
    BY <1>3, <2>2, PublishReturnKeeps, PublishBeginKeeps, PublishFlushKeeps,
       PublishWriteKeeps, PublishSyncKeeps, PruneReturnKeeps, PruneBeginKeeps,
       FloorWriteKeeps, FloorSyncKeeps, FallbackWriteKeeps, FallbackSyncKeeps,
       PunchKeeps, PublicationFailKeeps
       DEF PublisherStep
<1>4. CASE Environment
  <2>1. CASE \E p \in Pos : write_back(p)
    <3>1. CASE mode = "up"
      BY <2>1, <3>1, WriteBackKeeps DEF Up
    <3>2. CASE mode # "up"
      BY <2>1, <3>2, WriteBackDownKeeps
    <3> QED
      BY <3>1, <3>2
  <2>2. CASE power_loss
    BY <2>2, PowerLossKeeps
  <2>3. ~kill
    BY DEF kill
  <2> QED
    BY <1>4, <2>1, <2>2, <2>3 DEF Environment
<1>5. CASE UNCHANGED vars
  BY <1>5, StutterKeeps
<1> QED
  BY <1>1, <1>2, <1>3, <1>4, <1>5 DEF Next

\* In a running process every combination of slot outcomes selects a believed
\* marker, so the crash properties follow from what is trusted.
LEMMA OutcomesUp ==
    ASSUME Up, NEW outcome \in [Slot -> Outcomes], NEW s,
           s = [i \in Slot |-> SlotAfter(disk_slots[i], slots[i], outcome[i])]
    PROVE  SlotsReadable(s) /\ Believed(read_publication_marker(s))
<1> USE UpFacts, UpTypes
<1>1. \A i \in Slot : s[i] \in {disk_slots[i], slots[i], TornSlot}
  BY DEF SlotAfter
<1>2. s \in [Slot -> PublicationMarker \cup {TornSlot}]
  BY <1>1 DEF TypeOK
<1>3. s[MySlot] = marker
  BY DEF SlotAfter, InvSlots
<1> QED
  BY <1>1, <1>2, <1>3, SurvivingSlots

\* With no process running the slots have only one outcome.
LEMMA OutcomesDown ==
    ASSUME IInv, mode \in {"down", "opening"}, NEW outcome \in [Slot -> Outcomes], NEW s,
           s = [i \in Slot |-> SlotAfter(disk_slots[i], slots[i], outcome[i])]
    PROVE  s = slots
  BY DownFacts DEF TypeOK, SlotAfter

\* CrashSafe from the invariant.
LEMMA CrashSafeFollows ==
    ASSUME IInv
    PROVE  CrashSafe
<1> SUFFICES ASSUME NEW outcome \in [Slot -> Outcomes], NEW s, NEW m,
                    s = [i \in Slot |-> SlotAfter(disk_slots[i], slots[i], outcome[i])],
                    m = read_publication_marker(s)
             PROVE  /\ SlotsReadable(s)
                    /\ \A p \in Pos : p >= m.end => shown[p] = Absent
                    /\ \A p \in Pos, o \in Outcomes :
                         LET page == PageAfter(disk[p], wal[p], o) IN
                         m.replay_start <= p /\ p < m.end =>
                             /\ IsRecord(page)
                             /\ shown[p] # Absent => /\ page.block = shown[p].block
                                                     /\ shown[p].status = RolledBack =>
                                                           page.status = RolledBack
                             /\ shown[p] = Absent /\ mode = "up" => page = records[p]
                             /\ p = offset(m) => page.block = m.block
  BY DEF CrashSafe
<1>1. SlotsReadable(s) /\ Trusted(m) /\ m.end \in Nat
  <2>1. CASE mode = "up"
    BY <2>1, OutcomesUp, BelievedFacts DEF Up
  <2>2. CASE mode \in {"down", "opening"}
    BY <2>2, OutcomesDown, DownFacts
  <2> QED
    BY <2>1, <2>2 DEF IInv, TypeOK
<1>2. ASSUME NEW p \in Pos, NEW o \in Outcomes, m.replay_start <= p, p < m.end
      PROVE  /\ Solid(p) /\ PageAfter(disk[p], wal[p], o) \in {disk[p], wal[p]}
             /\ p = offset(m) => wal[p].block = m.block
  <2>1. Solid(p)
    BY <1>1, <1>2 DEF Trusted
  <2>2. m.end > PageSize
    BY <1>1, <1>2, PosFacts DEF PageSize
  <2> QED
    BY <1>1, <2>1, <2>2, SolidPages DEF Trusted
<1>3. \A p \in Pos : p >= m.end => shown[p] = Absent
  BY <1>1 DEF Trusted
<1>4. ASSUME NEW p \in Pos, NEW o \in Outcomes, m.replay_start <= p, p < m.end, NEW page,
             page = PageAfter(disk[p], wal[p], o)
      PROVE  /\ IsRecord(page)
             /\ shown[p] # Absent => /\ page.block = shown[p].block
                                     /\ shown[p].status = RolledBack =>
                                           page.status = RolledBack
             /\ shown[p] = Absent /\ mode = "up" => page = records[p]
             /\ p = offset(m) => page.block = m.block
  <2>1. page = disk[p] \/ page = wal[p]
    BY <1>2, <1>4
  <2> QED
    BY <1>2, <1>4, <2>1 DEF Solid
<1> QED
  BY <1>1, <1>3, <1>4

\* VisibleIsDurable from the invariant.
LEMMA VisibleFollows ==
    ASSUME IInv
    PROVE  VisibleIsDurable
<1> SUFFICES ASSUME NEW outcome \in [Slot -> Outcomes], NEW s, mode = "up",
                    s = [i \in Slot |-> SlotAfter(disk_slots[i], slots[i], outcome[i])]
             PROVE  /\ SlotsReadable(s)
                    /\ read_publication_marker(s).end >= published_end
  BY DEF VisibleIsDurable
<1>1. Up
  BY DEF Up
<1>2. SlotsReadable(s) /\ Believed(read_publication_marker(s))
  BY <1>1, OutcomesUp
<1> QED
  BY <1>1, <1>2, UpTypes, BelievedFacts

\* CleanMeansApplied from the invariant.
LEMMA CleanFollows ==
    ASSUME IInv
    PROVE  CleanMeansApplied
<1> SUFFICES ASSUME clean, NEW outcome \in [Slot -> Outcomes], NEW s, NEW m,
                    s = [i \in Slot |-> SlotAfter(disk_slots[i], slots[i], outcome[i])],
                    m = read_publication_marker(s),
                    NEW p \in Pos, NEW o \in Outcomes, m.replay_start <= p, p < m.end
             PROVE  PageAfter(disk[p], wal[p], o) = shown[p]
  BY DEF CleanMeansApplied
<1>1. mode = "down"
  BY DEF IInv, InvClean
<1>2. s = slots
  BY <1>1, OutcomesDown
<1>3. wal[p] = shown[p] /\ disk[p] = wal[p]
  BY <1>1, <1>2 DEF IInv, InvClean, InvDown
<1> QED
  BY <1>3 DEF PageAfter

\* The inductive invariant holds of every behaviour without killed processes.
THEOREM Inductive ==
    ASSUME "kill" \notin CrashKinds
    PROVE  Spec => []IInv
<1>1. Init => IInv
  BY InitIInv
<1>2. IInv /\ [Next]_vars => IInv'
  BY NextKeeps
<1> QED
  BY <1>1, <1>2, PTL DEF Spec

\* The journal's state keeps its shape in every reachable state: offsets and
\* ends stay in the file, pages are records or one of the three non-records,
\* and no step builds a malformed record or marker (write_record,
\* mark_rolled_back, publish, finish, open).
THEOREM TypeCorrect ==
    ASSUME "kill" \notin CrashKinds
    PROVE  Spec => []TypeOK
<1>1. IInv => TypeOK
  BY DEF IInv
<1> QED
  BY <1>1, Inductive, PTL

\* ForestJournal::open never refuses the files that a power loss leaves, at
\* whatever step of append, publish, roll back, discard or prune it comes.
THEOREM ReopenSafe ==
    ASSUME "kill" \notin CrashKinds
    PROVE  Spec => []ReopenNeverRefused
<1>1. IInv => ReopenNeverRefused
  BY DEF IInv, ReopenNeverRefused
<1> QED
  BY <1>1, Inductive, PTL

\* JournalPrune::finish never leaves a deallocated page above the floor of a
\* slot that a later open could select.
THEOREM HolesExcluded ==
    ASSUME "kill" \notin CrashKinds
    PROVE  Spec => []FloorsExcludeHoles
<1>1. IInv => FloorsExcludeHoles
  BY DEF IInv
<1> QED
  BY <1>1, Inductive, PTL

\* In every reachable state, whatever a power loss keeps of the unsynced
\* writes, open recovers the published prefix: publish's order of data flush,
\* marker write and marker flush is enough, for any number of records.
THEOREM PublishedSurvives ==
    ASSUME "kill" \notin CrashKinds
    PROVE  Spec => []CrashSafe
<1>1. IInv => CrashSafe
  BY CrashSafeFollows
<1> QED
  BY <1>1, Inductive, PTL

\* Every record that records() shows is recovered after a power loss.
THEOREM VisibleSurvives ==
    ASSUME "kill" \notin CrashKinds
    PROVE  Spec => []VisibleIsDurable
<1>1. IInv => VisibleIsDurable
  BY VisibleFollows
<1> QED
  BY <1>1, Inductive, PTL

\* mark_clean_shutdown certifies only files whose every possible reading is
\* what records() last showed, so skipping replay after it is sound.
THEOREM CleanIsApplied ==
    ASSUME "kill" \notin CrashKinds
    PROVE  Spec => []CleanMeansApplied
<1>1. IInv => CleanMeansApplied
  BY CleanFollows
<1> QED
  BY <1>1, Inductive, PTL

-----------------------------------------------------------------------------
(***************************************************************************)
(* ForestJournal implements PublishedLog when the only crash is a power    *)
(* loss.                                                                   *)
(*                                                                         *)
(* A running process changes what it shows by one publication or one roll  *)
(* back at a time.  The hard step is the recovery, which may find the end  *)
(* of a publication or of a roll back that the crash interrupted: it must  *)
(* never find both.  It cannot, because a roll back starts only when       *)
(* nothing is waiting to be published, nothing is appended or published    *)
(* while it runs, and a roll back that fails poisons the journal.          *)
(***************************************************************************)

InRange(m, p) == m.replay_start <= p /\ p < m.end

\* Page p is cached, stored and shown alike.
Settled(p) == wal[p] = shown[p] /\ disk[p] = shown[p]

\* At most one published page is unsettled, and then nothing is unpublished.
InvUnsettled ==
    mode = "up" =>
        /\ jpc = "roll_back" => appended_end = marker.end
        /\ \A p \in Pos : InRange(marker, p) /\ ~Settled(p) =>
              /\ appended_end = marker.end /\ jpc # "append"
              /\ \A q \in Pos : InRange(marker, q) /\ q # p => Settled(q)

\* A recovery that finds a roll back finds nothing else, and the records that it
\* adds are forward ones.
InvRecovered ==
    mode \in {"down", "opening"} =>
        LET m == read_publication_marker(slots) IN
        \A p \in Pos : InRange(m, p) =>
            /\ shown[p] = Absent => wal[p].status = Forward
            /\ shown[p] # Absent /\ wal[p] # shown[p] =>
                  \A q \in Pos : InRange(m, q) /\ q # p => wal[q] = shown[q]

\* What was shown has no gaps.
InvShown == \E n \in End : \A p \in Pos : p < n <=> shown[p] # Absent

RInv == InvUnsettled /\ InvRecovered /\ InvShown

-----------------------------------------------------------------------------
(* The additional invariant *)

\* In a running process the published end is where the log ends.
LEMMA ShownUp ==
    ASSUME Up
    PROVE  /\ \A p \in Pos : p < marker.end <=> shown[p] # Absent
           /\ InvShown
<1>1. Trusted(marker)
  BY UpFacts DEF InvTrusted, Believed
<1>2. \A p \in Pos : p < marker.end <=> shown[p] # Absent
  BY <1>1, UpFacts, UpTypes, PosFacts DEF Trusted, InvRecords
<1>3. marker.end \in End
  BY UpFacts DEF InvSlots, WellFormed, PublicationMarker
<1> QED BY <1>2, <1>3 DEF InvShown

\* Steps that unsettle no published page.
LEMMA UnsettledFrame ==
    ASSUME Up, InvUnsettled, IInv', mode' = "up",
           marker'.end = marker.end, marker'.replay_start >= marker.replay_start,
           appended_end' = appended_end \/ appended_end' = marker.end,
           jpc' = jpc \/ jpc' = "idle",
           \A p \in Pos : InRange(marker, p) /\ Settled(p) /\ InRange(marker', p) => Settled(p)'
    PROVE  InvUnsettled'
<1>1. TypeOK'
  BY DEF IInv
<1>2. marker'.replay_start \in Nat /\ marker.replay_start \in Nat
  BY <1>1, UpTypes DEF TypeOK, PublicationMarker, End, PageSize, TornSlot
<1>3. \A p \in Pos : InRange(marker', p) => InRange(marker, p)
  BY <1>2, PosFacts DEF InRange
<1> QED BY <1>3 DEF Up, InvUnsettled, InRange

\* Steps of a running process that show nothing new.
LEMMA QuietUpKeeps ==
    ASSUME Up, InvUnsettled, IInv', mode' = "up", UNCHANGED <<marker, shown>>,
           jpc' = jpc \/ jpc' = "idle",
           appended_end' = appended_end \/ appended_end' = marker.end,
           \A p \in Pos : InRange(marker, p) => wal'[p] = wal[p],
           \A p \in Pos : InRange(marker, p) => disk'[p] = disk[p] \/ disk'[p] = wal[p]
    PROVE  InvUnsettled'
<1>1. marker'.replay_start >= marker.replay_start
  BY UpTypes
<1>2. \A p \in Pos : InRange(marker, p) /\ Settled(p) => Settled(p)'
  BY DEF Settled
<1> QED BY <1>1, <1>2, UnsettledFrame

\* No published page is unsettled while a journal works and nobody rolls back.
LEMMA AllSettled ==
    ASSUME Up, ~poisoned, jpc # "roll_back"
    PROVE  \A p \in Pos : InRange(marker, p) => Settled(p)
  BY UpFacts DEF InvSettled, InRange, Settled

\* A roll back starts with nothing unpublished, and appends wait for it.
LEMMA JournalKeepsRInv ==
    ASSUME Up, InvUnsettled, IInv', JournalStep, ~mark_clean_shutdown
    PROVE  InvUnsettled'
<1> USE UpTypes, PosFacts DEF journal_vars, publication_vars, file_vars
<1>0. /\ mode = "up" /\ mode' = "up"
      /\ wal \in [Pos -> Page] /\ wal' \in [Pos -> Page]
      /\ published_end = marker.end
  <2>1. mode = "up" /\ wal \in [Pos -> Page] /\ wal' \in [Pos -> Page]
    BY UpPages DEF Up, IInv, TypeOK
  <2>2. mode' = mode
    BY DEF JournalStep, append_begin, append_end, append_fail, flush,
       discard_unpublished, mark_rolled_back_begin, mark_rolled_back_end,
       mark_rolled_back_fail, prepare_prune, submit
  <2> QED BY <2>1, <2>2
<1>1. \A p \in Pos : InRange(marker, p) => p < appended_end /\ p # appended_end
  BY DEF InRange
<1>2. CASE append_begin
  <2>1. \A p \in Pos : InRange(marker, p) => Settled(p)
    BY <1>2, AllSettled DEF append_begin, JournalFree
  <2>2. \A p \in Pos : InRange(marker, p) => Settled(p)'
    BY <1>0, <1>1, <1>2, <2>1 DEF append_begin, Settled
  <2> QED BY <1>2, <2>2 DEF append_begin, InvUnsettled
<1>3. ASSUME NEW b \in Blocks, append_end(b) PROVE InvUnsettled'
  <2>1. \A p \in Pos : InRange(marker, p) => Settled(p)
    BY <1>0, <1>3 DEF append_end, InvUnsettled
  <2>2. \A p \in Pos : InRange(marker, p) => Settled(p)'
    BY <1>0, <1>1, <1>3, <2>1 DEF append_end, Settled
  <2> QED BY <1>3, <2>2 DEF append_end, InvUnsettled
<1>4. CASE append_fail
  BY <1>0, <1>1, <1>4, QuietUpKeeps DEF append_fail, set_len
<1>5. CASE flush
  BY <1>0, <1>5, QuietUpKeeps DEF flush
<1>6. CASE discard_unpublished
  BY <1>0, <1>6, QuietUpKeeps DEF discard_unpublished, set_len, InRange
<1>7. ASSUME NEW r \in Pos, mark_rolled_back_begin(r) PROVE InvUnsettled'
  <2>1. \A p \in Pos : InRange(marker, p) => Settled(p)
    BY <1>7, AllSettled DEF mark_rolled_back_begin, JournalFree
  <2>2. \A p \in Pos : InRange(marker, p) /\ p # r => Settled(p)'
    BY <1>0, <1>7, <2>1 DEF mark_rolled_back_begin, Settled
  <2> QED BY <1>0, <1>7, <2>2 DEF mark_rolled_back_begin, InvUnsettled
<1>8. CASE mark_rolled_back_end
  <2>1. wal[jarg].status = RolledBack /\ jarg \in Pos /\ shown \in [Pos -> JournalRecord \cup {Absent}]
    BY <1>8, UpFacts DEF mark_rolled_back_end, InvJournal, TypeOK
  <2>2. ASSUME NEW p \in Pos, Settled(p) PROVE Settled(p)'
    <3>1. CASE p # jarg
      BY <1>8, <2>1, <2>2, <3>1 DEF mark_rolled_back_end, Settled
    <3>2. CASE p = jarg
      <4>1. shown[p].status = RolledBack
        BY <2>1, <2>2, <3>2 DEF Settled
      <4>2. shown'[p] = shown[p]
        BY <1>8, <2>1, <3>2, <4>1 DEF mark_rolled_back_end, JournalRecord, Absent
      <4> QED BY <1>8, <2>2, <4>2 DEF mark_rolled_back_end, Settled
    <3> QED BY <3>1, <3>2
  <2> QED BY <1>0, <1>8, <2>2, UnsettledFrame DEF mark_rolled_back_end
<1>9. CASE mark_rolled_back_fail
  BY <1>0, <1>9, QuietUpKeeps DEF mark_rolled_back_fail
<1>10. CASE prepare_prune
  BY <1>0, <1>10, QuietUpKeeps DEF prepare_prune
<1>11. ASSUME NEW b, submit(b) PROVE InvUnsettled'
  BY <1>0, <1>11, QuietUpKeeps DEF submit
<1> QED BY <1>2, <1>3, <1>4, <1>5, <1>6, <1>7, <1>8, <1>9, <1>10, <1>11 DEF JournalStep

\* A publication settles its pages before it shows them.
LEMMA PublisherKeepsRInv ==
    ASSUME Up, InvUnsettled, IInv', PublisherStep
    PROVE  InvUnsettled'
<1> USE UpTypes, PosFacts DEF journal_vars, publication_vars, file_vars
<1>0. /\ mode = "up" /\ mode' = "up" /\ UNCHANGED <<jpc, appended_end>>
  <2>1. mode = "up"
    BY DEF Up
  <2>2. mode' = mode /\ UNCHANGED <<jpc, appended_end>>
    BY DEF PublisherStep, publish_return, publish_begin, publish_flush, publish_write,
       publish_sync, prune_return, prune_begin, floor_write, floor_sync, fallback_write,
       fallback_sync, punch, publication_fail, write_publication_marker
  <2> QED BY <2>1, <2>2
<1>1. CASE publish_return
  BY <1>0, <1>1, QuietUpKeeps DEF publish_return
<1>2. CASE publish_begin
  BY <1>0, <1>2, QuietUpKeeps DEF publish_begin
<1>3. CASE publish_flush
  BY <1>0, <1>3, QuietUpKeeps DEF publish_flush, FlushedData
<1>4. CASE publish_write \/ floor_write \/ fallback_write
  BY <1>0, <1>4, QuietUpKeeps DEF publish_write, floor_write, fallback_write,
     write_publication_marker
<1>5. CASE prune_return
  BY <1>0, <1>5, QuietUpKeeps DEF prune_return
<1>6. CASE prune_begin
  BY <1>0, <1>6, QuietUpKeeps DEF prune_begin
<1>7. CASE publication_fail
  BY <1>0, <1>7, QuietUpKeeps DEF publication_fail
<1>8. CASE floor_sync \/ fallback_sync
  <2>1. /\ marker' = next /\ UNCHANGED <<wal, disk, shown>>
        /\ next.end = marker.end /\ next.replay_start >= marker.replay_start
    <3>1. mpc \in {"floor_sync", "fallback_sync"} /\ marker' = next
          /\ UNCHANGED <<wal, disk, shown>>
      BY <1>8 DEF floor_sync, fallback_sync
    <3> QED BY <3>1, UpFacts, NextFacts DEF InvPublisher
  <2>2. \A p \in Pos : Settled(p) => Settled(p)'
    BY <2>1 DEF Settled
  <2> QED BY <1>0, <2>1, <2>2, UnsettledFrame
<1>9. CASE punch
  <2>1. pruning.replay_start = marker.replay_start
    BY <1>9, UpFacts DEF punch, InvPublisher
  <2>2. \A p \in Pos : InRange(marker, p) => wal'[p] = wal[p]
    BY <1>9, <2>1 DEF punch, InRange
  <2> QED BY <1>0, <1>9, <2>2, QuietUpKeeps DEF punch
<1>10. CASE publish_sync
  <2>1. /\ marker.end < next.end /\ next.end <= appended_end
        /\ next.replay_start = marker.replay_start /\ next.end \in Nat
        /\ Believed(next)
    <3>1. mpc = "publish_sync" /\ Syncing
      BY <1>10 DEF publish_sync, Syncing
    <3>2. slots[OtherSlot] = next /\ next # TornSlot /\ next.generation > marker.generation
      BY <3>1, UpFacts, NextFacts DEF InvSlots
    <3> QED BY <3>1, <3>2, UpFacts, NextFacts DEF InvPublisher, Believed, Slot
  <2>2. \A p \in Pos : InRange(marker, p) => Settled(p)
    BY <1>0, <2>1 DEF InvUnsettled
  <2>3. jpc # "roll_back"
    BY <1>0, <2>1 DEF InvUnsettled
  <2>4. ASSUME NEW p \in Pos, InRange(next, p) PROVE Settled(p)'
    <3>1. CASE p < marker.end
      BY <1>10, <2>1, <2>2, <2>4, <3>1 DEF publish_sync, Settled, InRange
    <3>2. CASE ~(p < marker.end)
      <4>1. shown[p] = Absent
        BY <3>2, ShownUp
      <4>2. wal[p] = records[p] /\ disk[p] = records[p]
        BY <1>0, <2>1, <2>4, <4>1, BelievedFacts DEF Trusted, Solid, InRange
      <4> QED BY <1>10, <2>4, <3>2, <4>2 DEF publish_sync, Settled, InRange
    <3> QED BY <3>1, <3>2
  <2>5. marker' = next
    BY <1>10 DEF publish_sync
  <2> QED BY <1>0, <2>3, <2>4, <2>5 DEF InvUnsettled
<1> QED BY <1>1, <1>2, <1>3, <1>4, <1>5, <1>6, <1>7, <1>8, <1>9, <1>10 DEF PublisherStep

\* A power loss settles one page at a time, or publishes, but not both.
LEMMA PowerLossKeepsRInv ==
    ASSUME IInv, RInv, power_loss
    PROVE  InvRecovered'
<1> USE PosFacts
<1> DEFINE m == read_publication_marker(slots)'
<1>1. /\ TypeOK /\ UNCHANGED shown /\ mode \in {"down", "opening", "up"}
  BY DEF power_loss, IInv, TypeOK
<1>2. \A p \in Pos : disk[p] = wal[p] => wal'[p] = wal[p]
  BY <1>1, PowerLossFiles DEF PageAfter
<1>3. ASSUME NEW p \in Pos, InRange(m, p), shown[p] = Absent
      PROVE  wal'[p].status = Forward
  <2>1. CASE mode = "up"
    <3> USE UpFacts, UpTypes
    <3>1. Up
      BY <2>1 DEF Up
    <3>2. slots'[MySlot] = marker
      BY <1>1, <3>1, PowerLossFiles DEF InvSlots
    <3>3. Believed(read_publication_marker(slots'))
      BY <1>1, <3>1, <3>2, PowerLossFiles, SurvivingSlots
    <3>4. m = read_publication_marker(slots')
      BY DEF read_publication_marker, NewerSlot
    <3>5. Trusted(m) /\ m.end <= appended_end /\ m.end \in Nat
      BY <3>1, <3>3, <3>4, BelievedFacts
    <3>6. wal[p] = records[p] /\ disk[p] = records[p]
      BY <1>3, <2>1, <3>5 DEF Trusted, Solid, InRange
    <3>7. marker.end <= p /\ p < appended_end
      BY <1>3, <3>1, <3>5, ShownUp DEF InRange
    <3> QED BY <1>2, <3>1, <3>6, <3>7 DEF InvRecords
  <2>2. CASE mode \in {"down", "opening"}
    <3>1. slots' = slots
      BY <1>1, <2>2, DownFacts, PowerLossFiles DEF TypeOK
    <3>2. m = read_publication_marker(slots)
      BY <3>1 DEF read_publication_marker, NewerSlot
    <3>3. wal[p] = disk[p]
      BY <1>3, <2>2, <3>2 DEF IInv, InvDown, InRange
    <3> QED BY <1>2, <1>3, <2>2, <3>2, <3>3 DEF RInv, InvRecovered
  <2> QED BY <1>1, <2>1, <2>2
<1> SUFFICES ASSUME NEW p \in Pos, NEW q \in Pos,
                    InRange(m, p), shown[p] # Absent, wal'[p] # shown[p],
                    InRange(m, q), q # p
             PROVE  wal'[q] = shown[q]
  BY <1>1, <1>3 DEF InvRecovered, InRange
<1>4. CASE mode = "up"
  <2>1. Up
    BY <1>4 DEF Up
  <2> USE UpFacts, UpTypes
  <2>2. slots'[MySlot] = marker
    BY <1>1, <2>1, PowerLossFiles DEF InvSlots
  <2>3. Believed(read_publication_marker(slots'))
    BY <1>1, <2>1, <2>2, PowerLossFiles, SurvivingSlots
  <2>4. m = read_publication_marker(slots')
    BY DEF read_publication_marker, NewerSlot
  <2>5. /\ marker.replay_start <= m.replay_start /\ m.end <= appended_end
        /\ marker.end <= m.end /\ m.end \in Nat /\ m.replay_start \in Nat
    BY <2>1, <2>3, <2>4, BelievedFacts
  <2>6. InRange(marker, p)
    <3>1. p < marker.end
      BY <2>1, ShownUp
    <3> QED BY <2>1, <2>5, <3>1 DEF InRange
  <2>7. ~Settled(p)
    BY <1>2 DEF Settled
  <2>8. appended_end = marker.end
    BY <1>4, <2>6, <2>7 DEF RInv, InvUnsettled
  <2>9. InRange(marker, q)
    BY <2>1, <2>5, <2>8 DEF InRange
  <2>10. Settled(q)
    BY <1>4, <2>6, <2>7, <2>9 DEF RInv, InvUnsettled
  <2> QED BY <1>2, <2>10 DEF Settled
<1>5. CASE mode \in {"down", "opening"}
  <2>1. slots' = slots
    BY <1>1, <1>5, DownFacts, PowerLossFiles DEF TypeOK
  <2>2. m = read_publication_marker(slots)
    BY <2>1 DEF read_publication_marker, NewerSlot
  <2>3. wal[p] = disk[p] /\ wal[q] = disk[q]
    BY <1>5, <2>2 DEF IInv, InvDown, InRange
  <2> QED BY <1>2, <1>5, <2>2, <2>3 DEF RInv, InvRecovered
<1> QED BY <1>1, <1>4, <1>5

\* What a recovery shows.
LEMMA OpenScanFacts ==
    ASSUME IInv, open_scan
    PROVE  LET m == read_publication_marker(slots) IN
           /\ mode = "opening" /\ mode' = "up" /\ marker' = m
           /\ \A p \in Pos : shown'[p] = IF p < m.replay_start THEN shown[p]
                                         ELSE IF p < m.end THEN wal[p] ELSE Absent
           /\ \A p \in Pos : InRange(m, p) => wal'[p] = wal[p]
           /\ shown' \in [Pos -> JournalRecord \cup {Absent}]
           /\ UNCHANGED <<disk, jpc>> /\ jpc = "idle"
<1> DEFINE m == read_publication_marker(slots)
<1>1. mode = "opening" /\ mode' \in {"up", "refused"} /\ UNCHANGED <<disk, jpc>>
  BY DEF open_scan
<1>2. IInv'
  BY OpenScanKeeps
<1>3. mode' = "up"
  BY <1>1, <1>2 DEF IInv
<1>4. /\ marker' = m /\ wal' = set_len(wal, m.end)
      /\ records' = [p \in Pos |-> IF m.replay_start <= p /\ p < m.end THEN wal[p] ELSE Absent]
      /\ shown' = [p \in Pos |-> IF p < m.replay_start THEN shown[p] ELSE records'[p]]
  BY <1>3 DEF open_scan
<1>5. jpc = "idle" /\ m.replay_start \in Nat /\ m.end \in Nat
  BY <1>1, DownFacts DEF IInv, InvDown
<1>6. \A p \in Pos : shown'[p] = IF p < m.replay_start THEN shown[p]
                                 ELSE IF p < m.end THEN wal[p] ELSE Absent
  BY <1>4, <1>5, PosFacts
<1>7. \A p \in Pos : InRange(m, p) => wal'[p] = wal[p]
  BY <1>4 DEF set_len, InRange
<1>8. shown' \in [Pos -> JournalRecord \cup {Absent}]
  BY <1>2 DEF IInv, TypeOK
<1> QED BY <1>1, <1>3, <1>4, <1>5, <1>6, <1>7, <1>8

\* What a recovery shows is settled.
LEMMA OpenScanKeepsRInv ==
    ASSUME IInv, open_scan
    PROVE  InvUnsettled'
<1> DEFINE m == read_publication_marker(slots)
<1>1. \A p \in Pos : InRange(m, p) => wal[p] = disk[p] /\ ~(p < m.replay_start)
  BY OpenScanFacts, DownFacts, PosFacts DEF IInv, InvDown, InRange
<1>2. \A p \in Pos : InRange(m, p) => Settled(p)'
  BY <1>1, OpenScanFacts DEF Settled, InRange
<1> QED BY <1>2, OpenScanFacts DEF InvUnsettled

\* An empty journal is settled.
LEMMA InitRInv == Init => RInv
<1> SUFFICES ASSUME Init PROVE RInv
  OBVIOUS
<1>1. InvUnsettled
  BY DEF Init, InvUnsettled
<1>2. InvRecovered
  <2>1. read_publication_marker(slots).end = 1
    BY DEF Init, read_publication_marker, NewerSlot, Slot, FirstMarker, PageSize
  <2> QED BY <2>1, PosFacts DEF InvRecovered, InRange
<1>3. 1 \in End /\ \A p \in Pos : ~(p < 1)
  BY BoundsAssumption, PosFacts DEF End, PageSize
<1>4. InvShown
  BY <1>3 DEF Init, InvShown, NoRecords
<1> QED BY <1>1, <1>2, <1>4 DEF RInv

\* Every step keeps the additional invariant.
LEMMA NextKeepsRInv ==
    ASSUME IInv, RInv, "kill" \notin CrashKinds, [Next]_vars
    PROVE  RInv'
<1>1. IInv' /\ InvUnsettled /\ InvRecovered /\ InvShown
  BY NextKeeps DEF RInv
<1>2. ASSUME mode' = "up", InvUnsettled' PROVE RInv'
  <2>1. InvShown'
    <3>1. Up'
      BY <1>1, <1>2 DEF Up
    <3>2. marker'.end \in End /\ \A p \in Pos : p < marker'.end <=> shown'[p] # Absent
      BY <3>1, PosFacts
      DEF Up, IInv, InvUp, InvSlots, InvTrusted, InvRecords, Believed, Trusted, WellFormed,
          PublicationMarker, End, PageSize
    <3> QED BY <3>2 DEF InvShown
  <2> QED BY <1>2, <2>1 DEF RInv, InvRecovered
<1>3. ASSUME mode' \in {"down", "opening"}, InvRecovered', UNCHANGED shown PROVE RInv'
  BY <1>1, <1>3 DEF RInv, InvUnsettled, InvShown
<1>4. CASE open_take_clean
  <2>1. mode = "down" /\ mode' = "opening" /\ UNCHANGED <<wal, slots, shown>>
    BY <1>4 DEF open_take_clean
  <2> QED BY <1>1, <1>3, <2>1 DEF InvRecovered
<1>5. CASE open_scan
  BY <1>2, <1>5, OpenScanFacts, OpenScanKeepsRInv
<1>6. CASE JournalStep
  <2>1. mode = "up"
    BY <1>6 DEF JournalStep, append_begin, append_end, append_fail, flush,
       discard_unpublished, mark_rolled_back_begin, mark_rolled_back_end,
       mark_rolled_back_fail, prepare_prune, mark_clean_shutdown, submit, JournalFree
  <2>2. CASE mark_clean_shutdown
    <3>1. mode' = "down" /\ clean' /\ UNCHANGED shown
      BY <2>2 DEF mark_clean_shutdown, process_ends
    <3>2. InvRecovered'
      BY <1>1, <3>1 DEF IInv, InvClean, InvDown, InvRecovered, InRange, Trusted, Solid, IsRecord,
                        Absent, Forward, RolledBack
    <3> QED BY <1>3, <3>1, <3>2
  <2>3. CASE ~mark_clean_shutdown
    <3>1. mode' = mode
      BY <1>6, <2>3 DEF JournalStep, append_begin, append_end, append_fail, flush,
         discard_unpublished, mark_rolled_back_begin, mark_rolled_back_end,
         mark_rolled_back_fail, prepare_prune, submit
    <3> QED BY <1>1, <1>2, <1>6, <2>1, <2>3, <3>1, JournalKeepsRInv DEF Up
  <2> QED BY <2>2, <2>3
<1>7. CASE PublisherStep
  <2>1. mode = "up" /\ mode' = "up"
    BY <1>7 DEF PublisherStep, publish_return, publish_begin, publish_flush, publish_write,
       publish_sync, prune_return, prune_begin, floor_write, floor_sync, fallback_write,
       fallback_sync, punch, publication_fail, write_publication_marker
  <2> QED BY <1>1, <1>2, <1>7, <2>1, PublisherKeepsRInv DEF Up
<1>8. CASE power_loss
  <2>1. mode' = "down" /\ UNCHANGED shown
    BY <1>8 DEF power_loss, process_ends
  <2> QED BY <1>3, <1>8, <2>1, PowerLossKeepsRInv
<1>9. CASE (\E p \in Pos : write_back(p)) \/ UNCHANGED vars
  <2>1. /\ UNCHANGED <<wal, slots, mode, marker, appended_end, jpc, shown>>
        /\ \A p \in Pos : disk'[p] = disk[p] \/ disk'[p] = wal[p]
    <3>1. disk \in [Pos -> Page]
      BY DEF IInv, TypeOK
    <3> QED BY <1>9, <3>1 DEF write_back, journal_vars, publication_vars, vars
  <2>2. CASE mode = "up"
    BY <1>1, <1>2, <2>1, <2>2, QuietUpKeeps DEF Up
  <2>3. CASE mode \in {"down", "opening"}
    <3>1. InvRecovered'
      BY <1>1, <2>1, <2>3 DEF InvRecovered, InRange, read_publication_marker, NewerSlot
    <3> QED BY <1>3, <2>1, <2>3, <3>1
  <2> QED BY <2>2, <2>3 DEF IInv, TypeOK
<1>10. ~kill
  BY DEF kill
<1> QED BY <1>4, <1>5, <1>6, <1>7, <1>8, <1>9, <1>10 DEF Next, Opening, Environment

-----------------------------------------------------------------------------
(* The refinement *)

\* The two modules speak of the same offsets and records.
LEMMA SameLog ==
    /\ Log!Offsets = Pos /\ Log!Empty = Absent
    /\ \A r \in JournalRecord : r.status = Forward => r \in Log!Entry("forward")
  BY DEF Log!Offsets, Log!Empty, Log!Entry, Pos, PageSize, Absent, JournalRecord, Forward

\* A publication extends the log.
LEMMA PublishExtends ==
    ASSUME Up, publish_sync
    PROVE  Log!Extend
<1> USE UpTypes, UpFacts, PosFacts
<1>1. marker.end < next.end /\ next.end <= appended_end /\ next.end \in Nat
  BY NextFacts DEF publish_sync, InvPublisher
<1>2. marker.end \in Pos /\ next.end - 1 \in Pos /\ marker.end <= next.end - 1
  BY <1>1 DEF Pos, PageSize
<1>3. \A p \in Pos : p < marker.end <=> shown[p] # Absent
  BY ShownUp
<1>4. ASSUME NEW p \in Pos, marker.end <= p, p <= next.end - 1
      PROVE  shown'[p] \in Log!Entry("forward")
  <2>1. p < next.end /\ p < appended_end
    BY <1>1, <1>4
  <2>2. records[p] \in JournalRecord /\ records[p].status = Forward
    BY <1>4, <2>1, UpPages DEF InvRecords
  <2> QED BY <1>4, <2>1, <2>2, SameLog DEF publish_sync
<1>5. ASSUME NEW p \in Pos, ~(marker.end <= p /\ p <= next.end - 1)
      PROVE  shown'[p] = shown[p]
  BY <1>1, <1>5 DEF publish_sync
<1>6. DOMAIN shown' = Pos
  BY DEF publish_sync
<1> QED BY <1>2, <1>3, <1>4, <1>5, <1>6, SameLog DEF Log!Extend

\* A roll back is one, unless it repeats one.
LEMMA RollsBack ==
    ASSUME Up, mark_rolled_back_end
    PROVE  shown' = shown \/ Log!RollBack(jarg)
<1>1. jarg \in Pos /\ records[jarg] = shown[jarg] /\ records[jarg] \in JournalRecord
  BY UpFacts, UpPages DEF mark_rolled_back_end, InvJournal, InvRecords, TypeOK
<1>2. /\ shown \in [Pos -> JournalRecord \cup {Absent}]
      /\ shown' = [shown EXCEPT ![jarg].status = RolledBack]
  BY UpPages DEF mark_rolled_back_end
<1>3. CASE shown[jarg].status = RolledBack
  BY <1>1, <1>2, <1>3 DEF JournalRecord
<1>4. CASE shown[jarg].status = Forward
  BY <1>1, <1>2, <1>4, SameLog DEF Log!RollBack, RolledBack
<1> QED BY <1>1, <1>3, <1>4 DEF JournalRecord

\* A recovery finds a publication, a roll back or nothing new.
LEMMA RecoveryRefines ==
    ASSUME IInv, RInv, open_scan
    PROVE  \/ shown' = shown
           \/ Log!Extend
           \/ \E p \in Pos : Log!RollBack(p)
<1> USE PosFacts
<1> DEFINE m == read_publication_marker(slots)
<1>1. mode = "opening"
  BY OpenScanFacts
<1>2. /\ m.replay_start \in Nat /\ m.end \in End /\ m.end \in Nat
      /\ m.replay_start <= m.end /\ Trusted(m)
      /\ \A p \in Pos : p < m.replay_start => shown[p] # Absent
      /\ wal \in [Pos -> Page] /\ shown \in [Pos -> JournalRecord \cup {Absent}]
  BY <1>1, DownFacts DEF InvDown, TypeOK
<1>3. /\ \A p \in Pos : shown'[p] = IF p < m.replay_start THEN shown[p]
                                    ELSE IF p < m.end THEN wal[p] ELSE Absent
      /\ shown' \in [Pos -> JournalRecord \cup {Absent}]
  BY OpenScanFacts
<1>4. \A p \in Pos : p >= m.end => shown[p] = Absent
  BY <1>2 DEF Trusted
<1>5. \A p \in Pos : InRange(m, p) =>
         /\ IsRecord(wal[p])
         /\ shown[p] # Absent => /\ wal[p].block = shown[p].block
                                 /\ shown[p].status = RolledBack => wal[p].status = RolledBack
  BY <1>2 DEF Trusted, Solid, InRange
<1>6. /\ \A p, q \in Pos : /\ InRange(m, p) /\ shown[p] # Absent /\ wal[p] # shown[p]
                           /\ InRange(m, q) /\ q # p
                           => wal[q] = shown[q]
      /\ \A p \in Pos : InRange(m, p) /\ shown[p] = Absent => wal[p].status = Forward
  BY <1>1 DEF RInv, InvRecovered
<1> HIDE DEF m
<1>7. \A p \in Pos : shown'[p] = IF InRange(m, p) THEN wal[p] ELSE shown[p]
  BY <1>2, <1>3, <1>4 DEF InRange
<1>8. CASE \E p \in Pos : InRange(m, p) /\ shown[p] # Absent /\ wal[p] # shown[p]
  <2>1. PICK p \in Pos : InRange(m, p) /\ shown[p] # Absent /\ wal[p] # shown[p]
    BY <1>8
  <2>2. \A q \in Pos : q # p => shown'[q] = shown[q]
    BY <1>6, <1>7, <2>1
  <2>3. /\ shown[p] \in JournalRecord /\ wal[p] \in JournalRecord
        /\ shown'[p] = wal[p] /\ wal[p].block = shown[p].block
    BY <1>2, <1>5, <1>7, <2>1, RecordPages
  <2>4. shown[p].status = Forward /\ wal[p].status = RolledBack
    BY <1>5, <2>1, <2>3 DEF JournalRecord
  <2>5. wal[p] = [shown[p] EXCEPT !.status = RolledBack]
    BY <2>3, <2>4 DEF JournalRecord
  <2>6. shown' = [shown EXCEPT ![p].status = RolledBack]
    BY <1>2, <1>3, <2>2, <2>3, <2>5
  <2> QED BY <2>3, <2>4, <2>6, SameLog DEF Log!RollBack, RolledBack
<1>9. CASE ~\E p \in Pos : InRange(m, p) /\ shown[p] # Absent /\ wal[p] # shown[p]
  <2>1. PICK n \in End : \A p \in Pos : p < n <=> shown[p] # Absent
    BY DEF RInv, InvShown
  <2>2. n \in Nat /\ n >= 1 /\ n <= MaxRecords + 1 /\ MaxRecords \in Nat
    BY BoundsAssumption DEF End, PageSize
  <2>3. CASE m.end <= n
    <3>1. \A p \in Pos : InRange(m, p) => shown[p] # Absent
      BY <1>2, <2>1, <2>2, <2>3 DEF InRange
    <3>2. \A p \in Pos : shown'[p] = shown[p]
      BY <1>7, <1>9, <3>1
    <3> QED BY <1>2, <1>3, <3>2
  <2>4. CASE ~(m.end <= n)
    <3>1. n \in Pos /\ m.end - 1 \in Pos /\ n <= m.end - 1
      BY <1>2, <2>2, <2>4 DEF Pos, End, PageSize
    <3>2. m.replay_start <= n
      <4>1. shown[n] = Absent
        BY <2>1, <2>2, <3>1
      <4> QED BY <1>2, <2>2, <3>1, <4>1
    <3>3. ASSUME NEW p \in Pos, ~(n <= p /\ p <= m.end - 1)
          PROVE  shown'[p] = shown[p]
      <4>1. CASE p < n
        BY <1>7, <1>9, <2>1, <4>1
      <4>2. CASE ~(p < n)
        BY <1>2, <1>7, <2>2, <3>3, <4>2 DEF InRange
      <4> QED BY <4>1, <4>2
    <3>4. ASSUME NEW p \in Pos, n <= p, p <= m.end - 1
          PROVE  shown'[p] \in Log!Entry("forward")
      <4>1. InRange(m, p) /\ shown[p] = Absent
        BY <1>2, <2>1, <2>2, <3>2, <3>4 DEF InRange
      <4>2. wal[p] \in JournalRecord /\ wal[p].status = Forward
        BY <1>2, <1>5, <1>6, <4>1, RecordPages
      <4> QED BY <1>7, <4>1, <4>2, SameLog
    <3> QED BY <1>3, <2>1, <3>1, <3>3, <3>4, SameLog DEF Log!Extend
  <2> QED BY <2>3, <2>4
<1> QED BY <1>8, <1>9

\* Every step of the journal is a step of the log, or shows nothing new.
LEMMA StepRefines ==
    ASSUME IInv, RInv, "kill" \notin CrashKinds, [Next]_vars
    PROVE  [Log!Next]_shown
<1>1. CASE open_scan
  BY <1>1, RecoveryRefines, SameLog DEF Log!Next
<1>2. CASE mark_rolled_back_end
  <2>1. Up /\ jarg \in Pos
    BY <1>2 DEF Up, mark_rolled_back_end, IInv, TypeOK
  <2> QED BY <1>2, <2>1, RollsBack, SameLog DEF Log!Next
<1>3. CASE publish_sync
  <2>1. Up
    BY <1>3 DEF Up, publish_sync
  <2> QED BY <1>3, <2>1, PublishExtends DEF Log!Next
<1>4. CASE open_take_clean \/ (JournalStep /\ ~mark_rolled_back_end)
  BY <1>4 DEF open_take_clean, JournalStep, append_begin, append_end, append_fail, flush,
     discard_unpublished, mark_rolled_back_begin, mark_rolled_back_fail, prepare_prune,
     mark_clean_shutdown, submit
<1>5. CASE PublisherStep /\ ~publish_sync
  BY <1>5 DEF PublisherStep, publish_return, publish_begin, publish_flush, publish_write,
     prune_return, prune_begin, floor_write, floor_sync, fallback_write, fallback_sync, punch,
     publication_fail, write_publication_marker
<1>6. CASE Environment \/ UNCHANGED vars
  BY <1>6 DEF Environment, write_back, power_loss, kill, vars
<1> QED BY <1>1, <1>2, <1>3, <1>4, <1>5, <1>6 DEF Next, Opening

\* What records() shows is an append-only log: across discards, failed syncs,
\* power losses and recoveries, for any number of records, it only ever gains
\* whole forward records at its end or has one of them rolled back for good.
THEOREM LogImplemented ==
    ASSUME "kill" \notin CrashKinds
    PROVE  Spec => ImplementsPublishedLog
<1>1. Init => RInv
  BY InitRInv
<1>2. IInv /\ RInv /\ [Next]_vars => RInv'
  BY NextKeepsRInv
<1>3. Spec => [](IInv /\ RInv)
  BY <1>1, <1>2, Inductive, PTL DEF Spec
<1>4. Init => Log!Init
  BY SameLog DEF Init, Log!Init, NoRecords
<1>5. IInv /\ RInv /\ [Next]_vars => [Log!Next]_shown
  BY StepRefines
<1> QED BY <1>3, <1>4, <1>5, PTL DEF Spec, ImplementsPublishedLog, Log!Spec

=============================================================================
