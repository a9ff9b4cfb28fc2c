----------------------------- MODULE PeerServer -----------------------------
(***************************************************************************)
(* The threads of the P2P server (node.rs): one acceptor admits sockets    *)
(* into a shared registry and hands them to worker threads over bounded    *)
(* channels; the workers own the sockets and take them out of the registry *)
(* again.  At capacity a connection from a new network prefix replaces the *)
(* oldest peer of the most common prefix.  The registry has a lock, but no *)
(* operation spans it: the acceptor sends after it has released it, and a  *)
(* worker closes a socket before it takes it.                              *)
(*                                                                         *)
(* A peer is its identifier; identifiers are given out in the order of     *)
(* admission, so the oldest peer is the one with the smallest.  Time       *)
(* passes in ticks, as the age of a connection and the rest of a ban.      *)
(* What a peer says matters only by its outcome: its handshake completes,  *)
(* it fails, or it sends too much.                                         *)
(***************************************************************************)
EXTENDS Naturals, Sequences, FiniteSets, FiniteSetsExt

CONSTANTS Addresses,        \* normalized addresses of peers
          Prefix,           \* address -> network prefix
          WorkerCount,      \* WORKERS_PER_CLUSTER
          MaxPeers,         \* MAX_PEERS
          QueueCapacity,    \* WORKER_QUEUE_CAPACITY
          MessagesPerTick,  \* MAX_WORKER_MESSAGES_PER_TICK
          MaxAccepts,       \* MAX_ACCEPTS_PER_EVENT
          MaxBanned,        \* MAX_BANNED_PEERS
          BanTicks,         \* BAN_DURATION
          HandshakeTicks,   \* HANDSHAKE_TIMEOUT
          MaxConnections,   \* bound: connections admitted
          MaxFailures       \* bound: workers whose poll fails

ASSUME PrefixAssumption == DOMAIN Prefix = Addresses
ASSUME LimitsAssumption ==
    /\ {WorkerCount, MaxPeers, QueueCapacity, MessagesPerTick, MaxAccepts, MaxBanned,
        BanTicks, HandshakeTicks, MaxConnections} \subseteq Nat \ {0}
    /\ MaxFailures \in Nat

VARIABLES
    peers,        \* PeerRegistry.peers: identifier -> address and worker
    banned,       \* PeerRegistry.banned: address -> ticks left
    next_peer,
    apc,          \* step of the acceptor
    accepted,     \* connections accepted in this event
    next_worker,
    incoming,     \* the peer being handed to a worker
    evicted,      \* the peer it replaces, and that peer's worker
    block,        \* a block notification is waiting
    target,       \* worker that the block is sent to next
    queue,        \* worker -> channel from the acceptor
    alive,        \* worker -> its thread runs
    wpc,          \* worker -> step
    handled,      \* worker -> messages handled in this tick
    sockets,      \* worker -> Worker.peers: identifier -> age and phase
    ready,        \* worker -> peers with an event that is not handled yet
    doomed,       \* worker -> peers that the step under way removes
    closing       \* worker -> socket closed, registry not told yet

registry_vars == <<peers, banned, next_peer>>
acceptor_vars == <<apc, accepted, next_worker, incoming, evicted, block, target>>
worker_vars == <<alive, wpc, handled, sockets, ready, doomed, closing>>
vars == <<registry_vars, acceptor_vars, worker_vars, queue>>

Workers == 0 .. WorkerCount - 1
Ids == 0 .. MaxConnections - 1
Nobody == MaxConnections
NoClosing == [id |-> Nobody, reason |-> "none"]
NoEviction == [id |-> Nobody, worker |-> 0]

Without(f, S) == [x \in DOMAIN f \ S |-> f[x]]
With(f, x, v) == [y \in DOMAIN f \cup {x} |-> IF y = x THEN v ELSE f[y]]

NewConnection(id) == [type |-> "new", id |-> id]
Disconnect(id) == [type |-> "disconnect", id |-> id]
NewBlock == [type |-> "block", id |-> Nobody]

-----------------------------------------------------------------------------
(* PeerRegistry *)

prefix_of(id) == Prefix[peers[id].address]
PrefixPeers(x) == {id \in DOMAIN peers : prefix_of(id) = x}
Prefixes == {prefix_of(id) : id \in DOMAIN peers}

is_banned(a) == a \in DOMAIN banned /\ banned[a] > 0

\* is_banned also drops an entry that has expired.
drop_expired(a) == IF a \in DOMAIN banned /\ banned[a] = 0 THEN Without(banned, {a}) ELSE banned

\* Mutant: the oldest peer of all is replaced.
Evictable_oldest == IF peers = << >> THEN {} ELSE {Min(DOMAIN peers)}

\* The peers that a connection from a new prefix may replace: the oldest of a
\* prefix that has the most peers, if it has more than one.
Evictable ==
    {Min(PrefixPeers(x)) :
       x \in {y \in Prefixes : /\ Cardinality(PrefixPeers(y)) > 1
                               /\ \A z \in Prefixes : Cardinality(PrefixPeers(z)) <=
                                                      Cardinality(PrefixPeers(y))}}

remove_worker(w) == Without(peers, {id \in DOMAIN peers : peers[id].worker = w})

\* ban: expired entries are dropped, and when the table is full also one of
\* those that expire next.
BannedAfter(a) ==
    LET current == Without(banned, {b \in DOMAIN banned : banned[b] = 0})
        first == {b \in DOMAIN current : \A c \in DOMAIN current : current[b] <= current[c]}
    IN  IF Cardinality(DOMAIN current) < MaxBanned
        THEN {With(current, a, BanTicks)}
        ELSE {With(Without(current, {b}), a, BanTicks) : b \in first}

-----------------------------------------------------------------------------

Init ==
    /\ peers = << >> /\ banned = << >> /\ next_peer = 0
    /\ apc = "accept" /\ accepted = 0 /\ next_worker = 0
    /\ incoming = [id |-> Nobody, worker |-> 0] /\ evicted = NoEviction
    /\ block = FALSE /\ target = 0
    /\ queue = [w \in Workers |-> << >>]
    /\ alive = [w \in Workers |-> TRUE]
    /\ wpc = [w \in Workers |-> "messages"]
    /\ handled = [w \in Workers |-> 0]
    /\ sockets = [w \in Workers |-> << >>]
    /\ ready = [w \in Workers |-> {}]
    /\ doomed = [w \in Workers |-> {}]
    /\ closing = [w \in Workers |-> NoClosing]

-----------------------------------------------------------------------------
(* Acceptor *)

\* accept_ready_connections picks the worker before it asks for admission.
accept_next ==
    /\ apc = "accept" /\ accepted < MaxAccepts
    /\ accepted' = accepted + 1
    /\ next_worker' = (next_worker + 1) % WorkerCount

insert(kept, a) ==
    /\ next_peer < MaxConnections
    /\ peers' = With(kept, next_peer, [address |-> a, worker |-> next_worker])
    /\ next_peer' = next_peer + 1
    /\ incoming' = [id |-> next_peer, worker |-> next_worker]

reject(a) ==
    /\ accept_next
    /\ \/ is_banned(a)
       \/ /\ Cardinality(DOMAIN peers) >= MaxPeers
          /\ Prefix[a] \in Prefixes \/ Evictable = {}
    /\ banned' = drop_expired(a)
    /\ UNCHANGED <<peers, next_peer, apc, incoming, evicted, block, target, queue, worker_vars>>

admit(a) ==
    /\ accept_next
    /\ ~is_banned(a)
    /\ banned' = drop_expired(a)
    /\ \/ /\ Cardinality(DOMAIN peers) < MaxPeers
          /\ insert(peers, a)
          /\ apc' = "send"
          /\ UNCHANGED evicted
       \/ /\ Cardinality(DOMAIN peers) >= MaxPeers
          /\ Prefix[a] \notin Prefixes
          /\ \E id \in Evictable :
               /\ insert(Without(peers, {id}), a)
               /\ evicted' = [id |-> id, worker |-> peers[id].worker]
          /\ apc' = "evict"
    /\ UNCHANGED <<block, target, queue, worker_vars>>

\* Mutant: the channel has no bound.
CanSend_unbounded(w) == TRUE

\* A send blocks while the channel is full, and fails if the worker stopped.
CanSend(w) == Len(queue[w]) < QueueCapacity \/ ~alive[w]

\* Mutant: a send that fails is ignored.
send_ignored(w, message) ==
    /\ CanSend(w)
    /\ IF alive[w] THEN queue' = [queue EXCEPT ![w] = Append(@, message)] ELSE UNCHANGED queue
    /\ UNCHANGED peers

send(w, message) ==
    /\ CanSend(w)
    /\ IF alive[w]
       THEN queue' = [queue EXCEPT ![w] = Append(@, message)] /\ UNCHANGED peers
       ELSE peers' = remove_worker(w) /\ UNCHANGED queue

\* Mutant: the eviction is sent to the worker of the new peer.
send_disconnect_misrouted ==
    /\ apc = "evict"
    /\ send(incoming.worker, Disconnect(evicted.id))
    /\ evicted' = NoEviction
    /\ apc' = "send"
    /\ UNCHANGED <<banned, next_peer, accepted, next_worker, incoming, block, target, worker_vars>>

send_disconnect ==
    /\ apc = "evict"
    /\ send(evicted.worker, Disconnect(evicted.id))
    /\ evicted' = NoEviction
    /\ apc' = "send"
    /\ UNCHANGED <<banned, next_peer, accepted, next_worker, incoming, block, target, worker_vars>>

send_connection ==
    /\ apc = "send"
    /\ send(incoming.worker, NewConnection(incoming.id))
    /\ incoming' = [id |-> Nobody, worker |-> 0]
    /\ apc' = "accept"
    /\ UNCHANGED <<banned, next_peer, accepted, next_worker, evicted, block, target, worker_vars>>

\* No more connections, or the budget of this event is used up.
accept_done ==
    /\ apc = "accept"
    /\ apc' = "broadcast"
    /\ accepted' = 0
    /\ UNCHANGED <<registry_vars, next_worker, incoming, evicted, block, target, queue,
                   worker_vars>>

\* broadcast_blocks: every worker, in order.
broadcast_block ==
    /\ apc = "broadcast" /\ block
    /\ send(target, NewBlock)
    /\ target' = (target + 1) % WorkerCount
    /\ block' = (target' # 0)
    /\ UNCHANGED <<banned, next_peer, apc, accepted, next_worker, incoming, evicted, worker_vars>>

broadcast_done ==
    /\ apc = "broadcast" /\ ~block
    /\ apc' = "accept"
    /\ UNCHANGED <<registry_vars, accepted, next_worker, incoming, evicted, block, target, queue,
                   worker_vars>>

\* The acceptor's poll fails: its thread ends and drops the channels.
acceptor_stop ==
    /\ apc = "accept" /\ accepted = 0
    /\ apc' = "stopped"
    /\ UNCHANGED <<registry_vars, accepted, next_worker, incoming, evicted, block, target, queue,
                   worker_vars>>

-----------------------------------------------------------------------------
(* Workers *)

Free(w) == alive[w] /\ closing[w] = NoClosing /\ doomed[w] = {}

step(w, at) == wpc' = [wpc EXCEPT ![w] = at]

close_socket(w, id, reason) ==
    /\ sockets' = [sockets EXCEPT ![w] = Without(@, {id})]
    /\ closing' = [closing EXCEPT ![w] = [id |-> id, reason |-> reason]]

Receiving(w) == Free(w) /\ wpc[w] = "messages" /\ handled[w] < MessagesPerTick

receive(w, type) ==
    /\ Receiving(w)
    /\ queue[w] # << >> /\ Head(queue[w]).type = type
    /\ queue' = [queue EXCEPT ![w] = Tail(@)]
    /\ handled' = [handled EXCEPT ![w] = @ + 1]

\* NewConnection: add_peer, which may fail to register the socket.
add_peer(w) ==
    LET id == Head(queue[w]).id IN
    /\ receive(w, "new")
    /\ \/ /\ sockets' = [sockets EXCEPT ![w] = With(@, id, [age |-> 0, established |-> FALSE])]
          /\ UNCHANGED closing
       \/ /\ closing' = [closing EXCEPT ![w] = [id |-> id, reason |-> "failed"]]
          /\ UNCHANGED sockets
    /\ UNCHANGED <<registry_vars, acceptor_vars, alive, wpc, ready, doomed>>

\* Mutant: a disconnection is taken from the channel and forgotten.
disconnect_peer_ignored(w) ==
    /\ receive(w, "disconnect")
    /\ UNCHANGED <<registry_vars, acceptor_vars, alive, wpc, sockets, ready, doomed, closing>>

disconnect_peer(w) ==
    LET id == Head(queue[w]).id IN
    /\ receive(w, "disconnect")
    /\ IF id \in DOMAIN sockets[w] THEN close_socket(w, id, "evicted")
       ELSE UNCHANGED <<sockets, closing>>
    /\ UNCHANGED <<registry_vars, acceptor_vars, alive, wpc, ready, doomed>>

\* NewBlock: an announcement to every established peer; those that it cannot
\* be queued for are removed.
announce_block(w) ==
    /\ receive(w, "block")
    /\ \E failed \in SUBSET {id \in DOMAIN sockets[w] : sockets[w][id].established} :
         doomed' = [doomed EXCEPT ![w] = failed]
    /\ UNCHANGED <<registry_vars, acceptor_vars, alive, wpc, sockets, ready, closing>>

\* handle_messages returns: the channel is empty, or the budget of this tick is
\* used up.
Polling(w) ==
    /\ Free(w) /\ wpc[w] = "messages"
    /\ handled[w] = MessagesPerTick \/ (queue[w] = << >> /\ apc # "stopped")

poll(w) ==
    /\ Polling(w)
    /\ \E found \in SUBSET DOMAIN sockets[w] : ready' = [ready EXCEPT ![w] = found]
    /\ handled' = [handled EXCEPT ![w] = 0]
    /\ step(w, "events")
    /\ UNCHANGED <<registry_vars, acceptor_vars, queue, alive, sockets, doomed, closing>>

\* handle_events: the peer makes progress, or is removed.  One event can carry
\* the end of the handshake and more messages than are allowed.
handle_event(w, id) ==
    /\ Free(w) /\ wpc[w] = "events" /\ id \in ready[w]
    /\ ready' = [ready EXCEPT ![w] = @ \ {id}]
    /\ \/ /\ \E done \in {sockets[w][id].established, TRUE} :
               sockets' = [sockets EXCEPT ![w][id].established = done]
          /\ UNCHANGED closing
       \/ \E reason \in {"failed", "rate_limit"} : close_socket(w, id, reason)
    /\ UNCHANGED <<registry_vars, acceptor_vars, queue, alive, wpc, handled, doomed>>

Expired(w) ==
    {id \in DOMAIN sockets[w] : /\ ~sockets[w][id].established
                                /\ sockets[w][id].age >= HandshakeTicks}

\* Mutant: handshakes have no timeout.
expire_handshakes_never(w) ==
    /\ Free(w) /\ wpc[w] = "events" /\ ready[w] = {}
    /\ step(w, "messages")
    /\ UNCHANGED <<registry_vars, acceptor_vars, queue, alive, handled, sockets, ready, doomed,
                   closing>>

expire_handshakes(w) ==
    /\ Free(w) /\ wpc[w] = "events" /\ ready[w] = {}
    /\ doomed' = [doomed EXCEPT ![w] = Expired(w)]
    /\ step(w, "messages")
    /\ UNCHANGED <<registry_vars, acceptor_vars, queue, alive, handled, sockets, ready, closing>>

\* remove_peer: the socket first, then the registry.
remove_peer(w, id) ==
    /\ alive[w] /\ closing[w] = NoClosing /\ id \in doomed[w]
    /\ close_socket(w, id, "failed")
    /\ doomed' = [doomed EXCEPT ![w] = @ \ {id}]
    /\ UNCHANGED <<registry_vars, acceptor_vars, queue, alive, wpc, handled, ready>>

\* Mutant: a peer that is banned keeps its place in the registry.
record_disconnect_kept(w) ==
    LET id == closing[w].id IN
    /\ closing[w] # NoClosing
    /\ closing' = [closing EXCEPT ![w] = NoClosing]
    /\ IF closing[w].reason = "rate_limit" /\ id \in DOMAIN peers
       THEN banned' \in BannedAfter(peers[id].address) /\ UNCHANGED peers
       ELSE peers' = Without(peers, {id}) /\ UNCHANGED banned
    /\ UNCHANGED <<next_peer, acceptor_vars, queue, alive, wpc, handled, sockets, ready, doomed>>

\* A peer that was evicted in the meantime is not in the registry any more,
\* and is not banned.
record_disconnect(w) ==
    LET id == closing[w].id IN
    /\ closing[w] # NoClosing
    /\ closing' = [closing EXCEPT ![w] = NoClosing]
    /\ peers' = Without(peers, {id})
    /\ IF closing[w].reason = "rate_limit" /\ id \in DOMAIN peers
       THEN banned' \in BannedAfter(peers[id].address)
       ELSE UNCHANGED banned
    /\ UNCHANGED <<next_peer, acceptor_vars, queue, alive, wpc, handled, sockets, ready, doomed>>

\* The thread ends: its sockets are closed, its channel fails, and nobody
\* tells the registry.
stop(w) ==
    /\ alive' = [alive EXCEPT ![w] = FALSE]
    /\ sockets' = [sockets EXCEPT ![w] = << >>]
    /\ queue' = [queue EXCEPT ![w] = << >>]
    /\ handled' = [handled EXCEPT ![w] = 0]
    /\ UNCHANGED <<registry_vars, acceptor_vars, wpc, ready, doomed, closing>>

poll_error(w) ==
    /\ Polling(w)
    /\ Cardinality({v \in Workers : ~alive[v]}) < MaxFailures
    /\ stop(w)

channel_closed(w) ==
    /\ Receiving(w) /\ queue[w] = << >> /\ apc = "stopped"
    /\ stop(w)

-----------------------------------------------------------------------------
(* Time and blocks *)

tick ==
    /\ banned' = [a \in DOMAIN banned |-> IF banned[a] > 0 THEN banned[a] - 1 ELSE 0]
    /\ sockets' = [w \in Workers |->
                     [id \in DOMAIN sockets[w] |->
                        [sockets[w][id] EXCEPT !.age = IF @ < HandshakeTicks THEN @ + 1 ELSE @]]]
    /\ UNCHANGED <<peers, next_peer, acceptor_vars, queue, alive, wpc, handled, ready, doomed,
                   closing>>

notify_block ==
    /\ apc # "stopped" /\ ~block
    /\ block' = TRUE
    /\ UNCHANGED <<registry_vars, apc, accepted, next_worker, incoming, evicted, target, queue,
                   worker_vars>>

-----------------------------------------------------------------------------

Acceptor ==
    \/ \E a \in Addresses : reject(a) \/ admit(a)
    \/ send_disconnect \/ send_connection \/ accept_done
    \/ broadcast_block \/ broadcast_done

Worker(w) ==
    \/ add_peer(w) \/ disconnect_peer(w) \/ announce_block(w) \/ poll(w)
    \/ \E id \in Ids : handle_event(w, id)
    \/ expire_handshakes(w) \/ \E id \in Ids : remove_peer(w, id)
    \/ record_disconnect(w) \/ channel_closed(w)

Next ==
    \/ Acceptor \/ acceptor_stop
    \/ \E w \in Workers : Worker(w) \/ poll_error(w)
    \/ tick \/ notify_block

Spec == Init /\ [][Next]_vars

\* The threads are scheduled, time passes and blocks keep coming.
FairSpec ==
    /\ Spec
    /\ WF_vars(Acceptor) /\ \A w \in Workers : WF_vars(Worker(w))
    /\ WF_vars(tick) /\ WF_vars(notify_block)

-----------------------------------------------------------------------------
(* Properties *)

Queued(w, message) == \E i \in 1 .. Len(queue[w]) : queue[w][i] = message

\* Type invariant of the registry, the acceptor and the workers; the registry
\* never has more than MAX_PEERS entries.
TypeOK ==
    /\ DOMAIN peers \subseteq Ids /\ Cardinality(DOMAIN peers) <= MaxPeers
    /\ \A id \in DOMAIN peers : peers[id] \in [address : Addresses, worker : Workers]
    /\ DOMAIN banned \subseteq Addresses /\ Cardinality(DOMAIN banned) <= MaxBanned
    /\ apc \in {"accept", "evict", "send", "broadcast", "stopped"}
    /\ \A w \in Workers : Len(queue[w]) <= QueueCapacity /\ DOMAIN sockets[w] \subseteq Ids
    /\ \A w \in Workers : ready[w] \cup doomed[w] \subseteq DOMAIN sockets[w] \/ ~alive[w]

\* Every entry of the registry stands for a socket: one that its worker has,
\* is about to be given or is just closing.  Only a stopped worker leaves
\* entries behind.  Without this, capacity leaks away peer by peer.
EntriesAreBacked ==
    \A id \in DOMAIN peers :
        LET w == peers[id].worker IN
        \/ ~alive[w]
        \/ id \in DOMAIN sockets[w]
        \/ Queued(w, NewConnection(id))
        \/ apc \in {"evict", "send"} /\ incoming.id = id
        \/ closing[w].id = id

\* Every socket, open or on its way to a worker, has an entry in the registry
\* or a disconnection behind it in the same channel: the sockets that the
\* server holds beyond MAX_PEERS are only those it is already closing.
SocketsAreCounted ==
    \A w \in Workers : \A id \in Ids :
        id \in DOMAIN sockets[w] \/ Queued(w, NewConnection(id)) =>
            \/ id \in DOMAIN peers
            \/ Queued(w, Disconnect(id))
            \/ apc = "evict" /\ evicted = [id |-> id, worker |-> w]

\* Making room for a new peer never takes the last peer of another prefix.
PrefixesKept ==
    [][apc = "accept" /\ apc' \in {"evict", "send"} =>
         \A id \in DOMAIN peers : \E new \in DOMAIN peers' :
            Prefix[peers'[new].address] = prefix_of(id)]_vars

\* A peer that was evicted is disconnected.
EvictedAreClosed ==
    \A w \in Workers : \A id \in Ids :
        id \in DOMAIN sockets[w] /\ id \notin DOMAIN peers ~> id \notin DOMAIN sockets[w]

\* A handshake is over after its timeout, however the peer spreads it out.
HandshakesEnd ==
    \A w \in Workers : \A id \in Ids :
        id \in DOMAIN sockets[w] ~>
            id \notin DOMAIN sockets[w] \/ sockets[w][id].established

\* The places of a worker that stopped are given back, by the next block at
\* the latest: a registry that is full of them rejects every connection, so no
\* connection would ever find out.
StoppedAreReclaimed ==
    \A w \in Workers :
        ~alive[w] ~> apc = "stopped" \/ \A id \in DOMAIN peers : peers[id].worker # w
=============================================================================
