---------------------------- MODULE PublishedLog ----------------------------
(***************************************************************************)
(* What the journal promises to the rest of the bridge, without files,     *)
(* slots or crashes: a log that only grows at its end, by whole forward    *)
(* records, and whose records may be rolled back once and for all.         *)
(***************************************************************************)
EXTENDS Naturals

CONSTANTS Blocks, NoBlock, MaxRecords

VARIABLE log   \* offset -> record, or Empty past the end

Offsets == 1 .. MaxRecords
Empty == [block |-> NoBlock, status |-> "absent"]
Entry(status) == [block : Blocks, status : {status}]

Init == log = [p \in Offsets |-> Empty]

\* A publication, or a recovery that finds a publication finished, adds one or
\* more records right after the last one.
Extend ==
    \E first \in Offsets, last \in Offsets :
        /\ first <= last
        /\ \A p \in Offsets : p < first <=> log[p] # Empty
        /\ \A p \in Offsets :
             IF first <= p /\ p <= last THEN log'[p] \in Entry("forward")
                                       ELSE log'[p] = log[p]
        /\ DOMAIN log' = Offsets

RollBack(p) ==
    /\ log[p] \in Entry("forward")
    /\ log' = [log EXCEPT ![p].status = "rolled_back"]

Next == Extend \/ \E p \in Offsets : RollBack(p)

Spec == Init /\ [][Next]_log
=============================================================================
