-------------------------- MODULE PeerServerProofs --------------------------
(***************************************************************************)
(* Proofs about PeerServer, for any number of addresses, workers, places   *)
(* and channel slots.                                                      *)
(*                                                                         *)
(* The argument: an identifier is in at most one place (on its way to a    *)
(* worker, in the worker's channel, in its table or just being closed),    *)
(* and that worker is the one the registry names.  The acceptor releases   *)
(* the registry before it sends, so both halves of the correspondence      *)
(* between registry and sockets hold only up to what is under way: the     *)
(* connection being handed over, the eviction being sent, the socket being *)
(* closed.  A disconnection always follows its connection in the channel.  *)
(***************************************************************************)
EXTENDS PeerServer, FiniteSetTheorems, SequenceTheorems, WellFoundedInduction,
        TLAPS

-----------------------------------------------------------------------------
(* The inductive invariant *)

Messages == [type : {"new", "disconnect"}, id : Ids] \cup {NewBlock}

\* The worker has the socket, will receive it, or is closing it.
Has(w, id) ==
    \/ id \in DOMAIN sockets[w]
    \/ Queued(w, NewConnection(id))
    \/ closing[w].id = id

HandingOver == apc \in {"evict", "send"}

InvTypes ==
    /\ DOMAIN peers \subseteq Ids /\ Cardinality(DOMAIN peers) <= MaxPeers
    /\ \A id \in DOMAIN peers : peers[id] \in [address : Addresses, worker : Workers]
    /\ DOMAIN banned \subseteq Addresses /\ Cardinality(DOMAIN banned) <= MaxBanned
    /\ IsFiniteSet(DOMAIN banned)
    /\ next_peer \in 0 .. MaxConnections
    /\ apc \in {"accept", "evict", "send", "broadcast", "stopped"}
    /\ next_worker \in Workers /\ target \in Workers
    /\ block \in BOOLEAN
    /\ queue \in [Workers -> Seq(Messages)]
    /\ alive \in [Workers -> BOOLEAN]
    /\ wpc \in [Workers -> {"messages", "events"}]
    /\ DOMAIN sockets = Workers
    /\ ready \in [Workers -> SUBSET Ids] /\ doomed \in [Workers -> SUBSET Ids]
    /\ closing \in [Workers -> [id : 0 .. MaxConnections,
                                reason : {"none", "failed", "rate_limit", "evicted"}]]
    /\ \A w \in Workers : /\ Len(queue[w]) <= QueueCapacity
                          /\ DOMAIN sockets[w] \subseteq Ids
                          /\ closing[w].id = Nobody => closing[w] = NoClosing

\* Events and removals that a worker still has to handle are about its sockets.
InvPhases ==
    \A w \in Workers :
        /\ ready[w] \cup doomed[w] \subseteq DOMAIN sockets[w] \/ ~alive[w]
        /\ wpc[w] = "messages" => ready[w] = {}
        /\ doomed[w] # {} => wpc[w] = "messages"

\* A worker that stopped has dropped its sockets and its channel.
InvStopped ==
    \A w \in Workers : ~alive[w] => DOMAIN sockets[w] = {} /\ queue[w] = << >>

\* Every identifier in use was given out.
InvIssued ==
    /\ \A id \in DOMAIN peers : id < next_peer
    /\ \A w \in Workers, id \in Ids :
          Has(w, id) \/ Queued(w, Disconnect(id)) => id < next_peer

\* An identifier is in one place, with the worker that the registry names.
InvOwners ==
    \A w \in Workers, id \in Ids :
        /\ Has(w, id) /\ id \in DOMAIN peers => peers[id].worker = w
        /\ \A v \in Workers : Has(w, id) /\ Has(v, id) => v = w
        /\ ~(id \in DOMAIN sockets[w] /\ Queued(w, NewConnection(id)))
        /\ ~(id \in DOMAIN sockets[w] /\ closing[w].id = id)
        /\ ~(Queued(w, NewConnection(id)) /\ closing[w].id = id)

\* A connection is sent once, and before its disconnection.
InvOrder ==
    \A w \in Workers, id \in Ids : \A i, j \in 1 .. Len(queue[w]) :
        queue[w][i] = NewConnection(id) =>
            /\ queue[w][j] = NewConnection(id) => i = j
            /\ queue[w][j] = Disconnect(id) => i < j

\* The connection being handed over is nowhere yet, and registered unless its
\* worker stopped.
InvIncoming ==
    HandingOver =>
        /\ incoming.id \in Ids /\ incoming.id < next_peer
        /\ incoming.worker \in Workers
        /\ \A w \in Workers : /\ ~Has(w, incoming.id)
                              /\ ~Queued(w, Disconnect(incoming.id))
        /\ IF incoming.id \in DOMAIN peers THEN peers[incoming.id].worker = incoming.worker
           ELSE ~alive[incoming.worker]

\* The peer being evicted has left the registry.
InvEvicted ==
    apc = "evict" =>
        /\ evicted \in [id : Ids, worker : Workers]
        /\ evicted.id < next_peer
        /\ evicted.id \notin DOMAIN peers
        /\ evicted.id # incoming.id

\* The part of the invariant about where identifiers are.
InvPlaces ==
    /\ InvStopped /\ InvIssued /\ InvOwners /\ InvOrder /\ InvIncoming /\ InvEvicted
    /\ EntriesAreBacked /\ SocketsAreCounted

IInv == InvTypes /\ InvPhases /\ InvPlaces

-----------------------------------------------------------------------------
(* Numbers, tables and channels *)

Below == {p \in Nat \X Nat : p[1] < p[2]}

\* A nonempty set of naturals has a least element.
LEMMA LeastNatural ==
    ASSUME NEW T \in SUBSET Nat, T # {}
    PROVE  \E x \in T : \A y \in T : x <= y
<1>1. IsWellFoundedOn(OpToRel(<, Nat), Nat)
  BY NatLessThanWellFounded, Zenon
<1>2. OpToRel(<, Nat) = Below
  BY DEF OpToRel, Below
<1>3. IsWellFoundedOn(Below, Nat)
  BY <1>1, <1>2, Zenon
<1>4. \E x \in T : \A y \in T : ~(<<y, x>> \in Below)
  BY <1>3, WFMin, Zenon
<1>5. PICK x \in T : \A y \in T : ~(<<y, x>> \in Below)
  BY <1>4
<1>6. ASSUME NEW y \in T PROVE x <= y
  <2>1. x \in Nat /\ y \in Nat
    OBVIOUS
  <2>2. ~(y < x)
    BY <1>5, <2>1 DEF Below
  <2> QED BY <2>1, <2>2
<1> QED BY <1>6

\* The worker that is next in turn.
LEMMA NextWorker ==
    ASSUME NEW w \in Workers
    PROVE  (w + 1) % WorkerCount \in Workers
  BY LimitsAssumption DEF Workers

\* There are finitely many identifiers.
LEMMA FiniteIds ==
    ASSUME NEW S, S \subseteq Ids
    PROVE  IsFiniteSet(S)
<1>1. MaxConnections \in Nat
  BY LimitsAssumption
<1>2. IsFiniteSet(Ids)
  BY <1>1, FS_Interval DEF Ids
<1> QED BY <1>2, FS_Subset

\* Taking entries out of a table, and putting one in.
LEMMA Tables ==
    ASSUME NEW f, NEW S, NEW x, NEW v
    PROVE  /\ DOMAIN Without(f, S) = DOMAIN f \ S
           /\ \A y \in DOMAIN f \ S : Without(f, S)[y] = f[y]
           /\ DOMAIN With(f, x, v) = DOMAIN f \cup {x}
           /\ With(f, x, v)[x] = v
           /\ \A y \in DOMAIN f \ {x} : With(f, x, v)[y] = f[y]
  BY DEF Without, With

\* The sizes of a table after that.
LEMMA Sizes ==
    ASSUME NEW S, IsFiniteSet(S), NEW T, NEW x
    PROVE  /\ IsFiniteSet(S \ T) /\ Cardinality(S \ T) <= Cardinality(S)
           /\ IsFiniteSet(S \cup {x}) /\ Cardinality(S \cup {x}) <= Cardinality(S) + 1
           /\ x \in S => Cardinality(S \ {x}) = Cardinality(S) - 1
           /\ Cardinality(S) \in Nat
<1>1. IsFiniteSet(S \ T) /\ Cardinality(S \ T) <= Cardinality(S)
  BY FS_Subset
<1>2. IsFiniteSet(S \cup {x}) /\ Cardinality(S \cup {x}) <= Cardinality(S) + 1
  <2>1. Cardinality(S \cup {x}) = IF x \in S THEN Cardinality(S) ELSE Cardinality(S) + 1
    BY FS_AddElement
  <2>2. Cardinality(S) \in Nat
    BY FS_CardinalityType
  <2> QED BY <2>1, <2>2, FS_AddElement
<1>3. Cardinality(S) \in Nat
  BY FS_CardinalityType
<1>4. x \in S => Cardinality(S \ {x}) = Cardinality(S) - 1
  BY FS_RemoveElement
<1> QED BY <1>1, <1>2, <1>3, <1>4

\* A channel after a message was sent.
LEMMA Sent ==
    ASSUME InvTypes, NEW w \in Workers, NEW m \in Messages,
           queue' = [queue EXCEPT ![w] = Append(@, m)]
    PROVE  /\ queue' \in [Workers -> Seq(Messages)]
           /\ \A v \in Workers : \A x : Queued(v, x)' <=> Queued(v, x) \/ (v = w /\ x = m)
<1>1. queue \in [Workers -> Seq(Messages)]
  BY DEF InvTypes
<1>2. queue' \in [Workers -> Seq(Messages)]
  BY <1>1
<1>3. ASSUME NEW v \in Workers, NEW x
      PROVE  Queued(v, x)' <=> Queued(v, x) \/ (v = w /\ x = m)
  <2>1. CASE v # w
    BY <1>1, <2>1 DEF Queued
  <2>2. CASE v = w
    <3>1. queue'[v] = Append(queue[v], m) /\ queue[v] \in Seq(Messages)
      BY <1>1, <2>2
    <3>2. /\ Len(queue'[v]) = Len(queue[v]) + 1
          /\ \A i \in 1 .. Len(queue[v]) : queue'[v][i] = queue[v][i]
          /\ queue'[v][Len(queue[v]) + 1] = m
          /\ Len(queue[v]) \in Nat
      BY <3>1
    <3> QED BY <3>2, <2>2 DEF Queued
  <2> QED BY <2>1, <2>2
<1> QED BY <1>2, <1>3

\* A channel after its first message was received.
LEMMA Received ==
    ASSUME InvTypes, NEW w \in Workers, queue[w] # << >>,
           queue' = [queue EXCEPT ![w] = Tail(@)]
    PROVE  /\ queue' \in [Workers -> Seq(Messages)]
           /\ Head(queue[w]) \in Messages
           /\ Queued(w, Head(queue[w]))
           /\ Len(queue'[w]) = Len(queue[w]) - 1
           /\ \A i \in 1 .. Len(queue'[w]) : queue'[w][i] = queue[w][i + 1]
           /\ \A v \in Workers \ {w} : queue'[v] = queue[v]
           /\ \A v \in Workers : \A x : Queued(v, x)' => Queued(v, x)
           /\ \A v \in Workers : \A x :
                 Queued(v, x) => Queued(v, x)' \/ (v = w /\ x = Head(queue[w]))
<1>1. queue \in [Workers -> Seq(Messages)]
  BY DEF InvTypes
<1>2. queue' \in [Workers -> Seq(Messages)]
  BY <1>1
<1>3. /\ queue[w] \in Seq(Messages) /\ queue'[w] = Tail(queue[w])
      /\ Len(queue[w]) \in Nat \ {0}
  BY <1>1
<1>4. /\ Len(queue'[w]) = Len(queue[w]) - 1
      /\ \A i \in 1 .. Len(queue'[w]) : queue'[w][i] = queue[w][i + 1]
      /\ Head(queue[w]) = queue[w][1] /\ queue[w][1] \in Messages
  <2>1. /\ Len(Tail(queue[w])) = Len(queue[w]) - 1
        /\ \A i \in 1 .. Len(Tail(queue[w])) : Tail(queue[w])[i] = queue[w][i + 1]
    BY <1>3, HeadTailProperties
  <2>2. Head(queue[w]) = queue[w][1] /\ queue[w][1] \in Messages
    BY <1>3
  <2> QED BY <1>3, <2>1, <2>2
<1>5. \A v \in Workers \ {w} : queue'[v] = queue[v]
  BY <1>1
<1>6. Queued(w, Head(queue[w]))
  BY <1>3, <1>4 DEF Queued
<1>7. ASSUME NEW v \in Workers, NEW x
      PROVE  /\ Queued(v, x)' => Queued(v, x)
             /\ Queued(v, x) => Queued(v, x)' \/ (v = w /\ x = Head(queue[w]))
  <2>1. CASE v # w
    BY <1>5, <2>1 DEF Queued
  <2>2. CASE v = w
    <3>1. ASSUME NEW i \in 1 .. Len(queue'[w])
          PROVE  i + 1 \in 1 .. Len(queue[w])
      BY <1>3, <1>4
    <3>2. ASSUME NEW i \in 1 .. Len(queue[w]), i # 1
          PROVE  i - 1 \in 1 .. Len(queue'[w]) /\ queue'[w][i - 1] = queue[w][i]
      BY <1>3, <1>4, <3>2
    <3>3. Queued(w, x)' => Queued(w, x)
      BY <1>4, <3>1 DEF Queued
    <3>4. Queued(w, x) => Queued(w, x)' \/ x = Head(queue[w])
      BY <1>4, <3>2 DEF Queued
    <3> QED BY <2>2, <3>3, <3>4
  <2> QED BY <2>1, <2>2
<1> QED BY <1>2, <1>4, <1>5, <1>6, <1>7

-----------------------------------------------------------------------------
(* What a step leaves alone *)

\* Steps that move no identifier keep that part.
LEMMA Frame ==
    ASSUME InvTypes, InvPlaces,
           UNCHANGED <<peers, next_peer, incoming, evicted, queue, alive, closing>>,
           HandingOver' = HandingOver, (apc = "evict")' = (apc = "evict"),
           \A w \in Workers : DOMAIN sockets'[w] = DOMAIN sockets[w]
    PROVE  InvPlaces'
<1>1. \A w \in Workers : (\A x : Queued(w, x)' = Queued(w, x)) /\ queue'[w] = queue[w]
                         /\ alive'[w] = alive[w] /\ closing'[w] = closing[w]
  BY DEF Queued
<1>2. \A w \in Workers : \A id : Has(w, id)' = Has(w, id)
  BY <1>1 DEF Has
<1>3. InvStopped'
  BY <1>1 DEF InvPlaces, InvStopped
<1>4. InvIssued'
  BY <1>1, <1>2 DEF InvPlaces, InvIssued
<1>5. InvOwners'
  BY <1>1, <1>2 DEF InvPlaces, InvOwners
<1>6. InvOrder'
  BY <1>1 DEF InvPlaces, InvOrder
<1>7. InvIncoming'
  BY <1>1, <1>2 DEF InvPlaces, InvIncoming
<1>8. InvEvicted'
  BY DEF InvPlaces, InvEvicted
<1>9. EntriesAreBacked'
  BY <1>1 DEF InvTypes, InvPlaces, EntriesAreBacked, HandingOver
<1>10. SocketsAreCounted'
  BY <1>1 DEF InvPlaces, SocketsAreCounted
<1> QED BY <1>3, <1>4, <1>5, <1>6, <1>7, <1>8, <1>9, <1>10 DEF InvPlaces

-----------------------------------------------------------------------------
(* Steps that move no identifier *)

\* Dropping expired bans leaves no more of them.
LEMMA DropExpired ==
    ASSUME InvTypes, NEW a \in Addresses
    PROVE  LET b == drop_expired(a) IN
           /\ DOMAIN b \subseteq Addresses /\ IsFiniteSet(DOMAIN b)
           /\ Cardinality(DOMAIN b) <= MaxBanned
<1>1. CASE drop_expired(a) = banned
  BY <1>1 DEF InvTypes
<1>2. CASE drop_expired(a) = Without(banned, {a})
  <2>1. DOMAIN drop_expired(a) = DOMAIN banned \ {a}
    BY <1>2, Tables
  <2>2. /\ IsFiniteSet(DOMAIN banned \ {a})
        /\ Cardinality(DOMAIN banned \ {a}) <= Cardinality(DOMAIN banned)
        /\ Cardinality(DOMAIN banned) \in Nat
        /\ Cardinality(DOMAIN banned \ {a}) \in Nat
    BY Sizes, FS_CardinalityType DEF InvTypes
  <2> QED BY <2>1, <2>2, LimitsAssumption DEF InvTypes
<1> QED BY <1>1, <1>2 DEF drop_expired

\* A connection that is refused changes only the bans.
LEMMA RejectKeeps ==
    ASSUME IInv, NEW a \in Addresses, reject(a)
    PROVE  IInv'
<1>1. InvTypes'
  BY DropExpired, NextWorker DEF IInv, InvTypes, reject, accept_next, worker_vars
<1>2. InvPhases'
  BY DEF IInv, InvPhases, reject, worker_vars
<1>3. InvPlaces'
  BY Frame DEF IInv, reject, worker_vars, HandingOver
<1> QED BY <1>1, <1>2, <1>3 DEF IInv

\* Steps of the acceptor between two pieces of work.
LEMMA AcceptorWaitKeeps ==
    ASSUME IInv, accept_done \/ broadcast_done \/ acceptor_stop \/ notify_block
    PROVE  IInv'
<1> USE DEF accept_done, broadcast_done, acceptor_stop, notify_block, registry_vars, worker_vars
<1>1. InvTypes'
  BY DEF IInv, InvTypes
<1>2. InvPhases'
  BY DEF IInv, InvPhases
<1>3. InvPlaces'
  BY Frame DEF IInv, HandingOver
<1> QED BY <1>1, <1>2, <1>3 DEF IInv

\* A poll only selects sockets that the worker has.
LEMMA PollKeeps ==
    ASSUME IInv, NEW w \in Workers, poll(w)
    PROVE  IInv'
<1> USE DEF poll, step, registry_vars, acceptor_vars
<1>1. PICK found \in SUBSET DOMAIN sockets[w] : ready' = [ready EXCEPT ![w] = found]
  OBVIOUS
<1>2. found \subseteq Ids
  BY DEF IInv, InvTypes
<1>3. InvTypes'
  BY <1>1, <1>2 DEF IInv, InvTypes
<1>4. doomed[w] = {} /\ wpc'[w] = "events"
  BY DEF Polling, Free, IInv, InvTypes
<1>5. InvPhases'
  BY <1>1, <1>4 DEF IInv, InvPhases, InvTypes
<1>6. InvPlaces'
  BY Frame DEF IInv, HandingOver
<1> QED BY <1>3, <1>5, <1>6 DEF IInv

\* Expired handshakes are sockets that the worker has.
LEMMA ExpireKeeps ==
    ASSUME IInv, NEW w \in Workers, expire_handshakes(w)
    PROVE  IInv'
<1> USE DEF expire_handshakes, step, registry_vars, acceptor_vars
<1>1. Expired(w) \subseteq DOMAIN sockets[w] /\ DOMAIN sockets[w] \subseteq Ids
  BY DEF Expired, IInv, InvTypes
<1>2. InvTypes'
  BY <1>1 DEF IInv, InvTypes
<1>3. ready[w] = {} /\ wpc'[w] = "messages" /\ doomed'[w] = Expired(w)
  BY DEF IInv, InvTypes
<1>4. InvPhases'
  BY <1>1, <1>3 DEF IInv, InvPhases, InvTypes
<1>5. InvPlaces'
  BY Frame DEF IInv, HandingOver
<1> QED BY <1>2, <1>4, <1>5 DEF IInv

\* Time changes ages only.
LEMMA TickKeeps ==
    ASSUME IInv, tick
    PROVE  IInv'
<1> USE DEF tick, acceptor_vars
<1>1. \A w \in Workers : DOMAIN sockets'[w] = DOMAIN sockets[w]
  OBVIOUS
<1>2. DOMAIN banned' = DOMAIN banned /\ DOMAIN sockets' = Workers
  OBVIOUS
<1>3. InvTypes'
  BY <1>1, <1>2 DEF IInv, InvTypes
<1>4. InvPhases'
  BY <1>1 DEF IInv, InvPhases
<1>5. InvPlaces'
  BY <1>1, Frame DEF IInv, HandingOver
<1> QED BY <1>3, <1>4, <1>5 DEF IInv

-----------------------------------------------------------------------------
(* The acceptor sends *)

\* The forms of messages are distinct, and a message has one identifier.
LEMMA MessageTypes ==
    ASSUME NEW id \in Ids
    PROVE  /\ NewConnection(id) \in Messages /\ Disconnect(id) \in Messages
           /\ NewBlock \in Messages
           /\ NewConnection(id) # NewBlock /\ Disconnect(id) # NewBlock
           /\ \A i \in Ids : /\ NewConnection(id) # Disconnect(i)
                             /\ NewConnection(id) = NewConnection(i) => id = i
                             /\ Disconnect(id) = Disconnect(i) => id = i
  BY LimitsAssumption DEF Messages, NewConnection, Disconnect, NewBlock, Nobody, Ids

\* A block announcement is a message.
LEMMA BlockIsMessage == NewBlock \in Messages
  BY LimitsAssumption DEF Messages, NewBlock, Nobody

\* A send that succeeds keeps the order of the channel, if a connection is sent
\* only once and before its disconnection.
LEMMA SentInOrder ==
    ASSUME InvTypes, InvOrder, NEW w \in Workers, NEW m \in Messages,
           \A id \in Ids : m = NewConnection(id) =>
               ~Queued(w, NewConnection(id)) /\ ~Queued(w, Disconnect(id)),
           queue' = [queue EXCEPT ![w] = Append(@, m)]
    PROVE  InvOrder'
<1>1. queue \in [Workers -> Seq(Messages)]
  BY DEF InvTypes
<1> SUFFICES ASSUME NEW v \in Workers, NEW id \in Ids,
                    NEW i \in 1 .. Len(queue'[v]), NEW j \in 1 .. Len(queue'[v]),
                    queue'[v][i] = NewConnection(id)
             PROVE  /\ queue'[v][j] = NewConnection(id) => i = j
                    /\ queue'[v][j] = Disconnect(id) => i < j
  BY DEF InvOrder
<1>2. CASE v # w
  BY <1>1, <1>2 DEF InvOrder
<1>3. CASE v = w
  <2>1. queue'[v] = Append(queue[v], m) /\ queue[v] \in Seq(Messages)
    BY <1>1, <1>3
  <2>2. /\ Len(queue'[v]) = Len(queue[v]) + 1 /\ Len(queue[v]) \in Nat
        /\ \A k \in 1 .. Len(queue[v]) : queue'[v][k] = queue[v][k]
        /\ queue'[v][Len(queue[v]) + 1] = m
    BY <2>1
  <2>3. CASE i = Len(queue[v]) + 1
    <3>1. m = NewConnection(id)
      BY <2>2, <2>3
    <3>2. \A k \in 1 .. Len(queue[v]) :
             queue[v][k] # NewConnection(id) /\ queue[v][k] # Disconnect(id)
      BY <1>3, <3>1 DEF Queued
    <3>3. CASE j = Len(queue[v]) + 1
      BY <2>2, <2>3, <3>1, <3>3, MessageTypes
    <3>4. CASE j # Len(queue[v]) + 1
      BY <2>2, <3>2, <3>4
    <3> QED BY <3>3, <3>4
  <2>4. CASE i # Len(queue[v]) + 1
    <3>1. i \in 1 .. Len(queue[v]) /\ queue[v][i] = NewConnection(id)
      BY <2>2, <2>4
    <3>2. CASE j = Len(queue[v]) + 1
      <4>1. m # NewConnection(id)
        BY <1>3, <3>1 DEF Queued
      <4> QED BY <2>2, <3>1, <3>2, <4>1
    <3>3. CASE j # Len(queue[v]) + 1
      BY <2>2, <3>1, <3>3 DEF InvOrder
    <3> QED BY <3>2, <3>3
  <2> QED BY <2>3, <2>4
<1> QED BY <1>2, <1>3

\* What the registry is after a send to a stopped worker.
LEMMA RemovedWorker ==
    ASSUME NEW w, peers' = remove_worker(w)
    PROVE  /\ DOMAIN peers' \subseteq DOMAIN peers
           /\ \A id \in DOMAIN peers : id \in DOMAIN peers' <=> peers[id].worker # w
           /\ \A id \in DOMAIN peers' : peers'[id] = peers[id]
  BY DEF remove_worker, Without

\* A send, successful or not, keeps the types of registry and channels.
LEMMA SendTypes ==
    ASSUME InvTypes, NEW w \in Workers, NEW m \in Messages, send(w, m)
    PROVE  /\ DOMAIN peers' \subseteq Ids /\ Cardinality(DOMAIN peers') <= MaxPeers
           /\ \A id \in DOMAIN peers' : peers'[id] \in [address : Addresses, worker : Workers]
           /\ queue' \in [Workers -> Seq(Messages)]
           /\ \A v \in Workers : Len(queue'[v]) <= QueueCapacity
<1>1. CASE alive[w]
  <2>1. queue' = [queue EXCEPT ![w] = Append(@, m)] /\ peers' = peers
    BY <1>1 DEF send
  <2>2. queue' \in [Workers -> Seq(Messages)]
    BY <2>1, Sent
  <2>3. ASSUME NEW v \in Workers PROVE Len(queue'[v]) <= QueueCapacity
    <3>1. queue[v] \in Seq(Messages) /\ Len(queue[v]) \in Nat /\ QueueCapacity \in Nat
      BY LimitsAssumption DEF InvTypes
    <3>2. CASE v = w
      <4>1. Len(queue[v]) < QueueCapacity
        BY <1>1, <3>2 DEF send, CanSend
      <4>2. queue'[v] = Append(queue[v], m)
        BY <2>1, <3>2 DEF InvTypes
      <4> QED BY <3>1, <4>1, <4>2
    <3>3. CASE v # w
      BY <2>1, <3>3 DEF InvTypes
    <3> QED BY <3>2, <3>3
  <2> QED BY <2>1, <2>2, <2>3 DEF InvTypes
<1>2. CASE ~alive[w]
  <2>1. queue' = queue /\ peers' = remove_worker(w)
    BY <1>2 DEF send
  <2>2. DOMAIN peers' \subseteq DOMAIN peers
    BY <2>1, RemovedWorker
  <2>3. IsFiniteSet(DOMAIN peers)
    BY FiniteIds DEF InvTypes
  <2>4. Cardinality(DOMAIN peers') <= MaxPeers
    <3>1. /\ Cardinality(DOMAIN peers') <= Cardinality(DOMAIN peers)
          /\ Cardinality(DOMAIN peers') \in Nat /\ Cardinality(DOMAIN peers) \in Nat
      BY <2>2, <2>3, FS_Subset, FS_CardinalityType
    <3> QED BY <3>1, LimitsAssumption DEF InvTypes
  <2> QED BY <2>1, <2>2, <2>4, RemovedWorker DEF InvTypes
<1> QED BY <1>1, <1>2

\* A send to a stopped worker takes that worker's entries, and nobody else's.
LEMMA FailedSend ==
    ASSUME InvTypes, InvPlaces, NEW w \in Workers, ~alive[w], peers' = remove_worker(w),
           UNCHANGED <<next_peer, queue, alive, sockets, closing>>
    PROVE  /\ InvStopped' /\ InvIssued' /\ InvOwners' /\ InvOrder'
           /\ \A v \in Workers : (\A x : Queued(v, x)' = Queued(v, x))
                                 /\ (\A id : Has(v, id)' = Has(v, id))
           /\ \A v \in Workers, id \in Ids :
                 id \in DOMAIN sockets[v] \/ Queued(v, NewConnection(id)) =>
                     v # w /\ (id \in DOMAIN peers => id \in DOMAIN peers')
<1>1. \A v \in Workers : (\A x : Queued(v, x)' = Queued(v, x)) /\ queue'[v] = queue[v]
                         /\ sockets'[v] = sockets[v] /\ closing'[v] = closing[v]
  BY DEF Queued
<1>2. \A v \in Workers : \A id : Has(v, id)' = Has(v, id)
  BY <1>1 DEF Has
<1>3. InvStopped'
  BY <1>1 DEF InvPlaces, InvStopped
<1>4. InvIssued'
  BY <1>1, <1>2, RemovedWorker DEF InvPlaces, InvIssued
<1>5. InvOwners'
  BY <1>1, <1>2, RemovedWorker DEF InvPlaces, InvOwners
<1>6. InvOrder'
  BY <1>1 DEF InvPlaces, InvOrder
<1>7. ASSUME NEW v \in Workers, NEW id \in Ids,
             id \in DOMAIN sockets[v] \/ Queued(v, NewConnection(id))
      PROVE  v # w /\ (id \in DOMAIN peers => id \in DOMAIN peers')
  <2>1. v # w
    BY <1>7 DEF InvPlaces, InvStopped, Queued
  <2>2. id \in DOMAIN peers => peers[id].worker = v
    BY <1>7 DEF InvPlaces, InvOwners, Has
  <2> QED BY <2>1, <2>2, RemovedWorker
<1> QED BY <1>1, <1>2, <1>3, <1>4, <1>5, <1>6, <1>7

\* An announcement moves no connection; a dead worker's entries go together.
LEMMA BroadcastKeeps ==
    ASSUME IInv, broadcast_block
    PROVE  IInv'
<1>1. target \in Workers /\ send(target, NewBlock) /\ NewBlock \in Messages
  BY BlockIsMessage DEF IInv, InvTypes, broadcast_block
<1>2. UNCHANGED <<banned, next_peer, apc, incoming, evicted, alive, wpc, sockets, ready, doomed,
                  closing, next_worker>>
  BY DEF broadcast_block, worker_vars
<1>3. target' \in Workers /\ block' \in BOOLEAN
  BY <1>1, NextWorker DEF broadcast_block
<1>4. InvTypes'
  BY <1>1, <1>2, <1>3, SendTypes DEF IInv, InvTypes
<1>5. InvPhases'
  BY <1>2 DEF IInv, InvPhases
<1>6. apc = "broadcast"
  BY DEF broadcast_block
<1>7. InvIncoming' /\ InvEvicted'
  BY <1>2, <1>6 DEF InvIncoming, InvEvicted, HandingOver
<1>8. InvPlaces'
  <2>1. CASE alive[target]
    <3>1. queue' = [queue EXCEPT ![target] = Append(@, NewBlock)] /\ peers' = peers
      BY <1>1, <2>1 DEF send
    <3>2. \A w \in Workers, id \in Ids :
             /\ Queued(w, NewConnection(id))' <=> Queued(w, NewConnection(id))
             /\ Queued(w, Disconnect(id))' <=> Queued(w, Disconnect(id))
      <4>1. \A w \in Workers : \A x :
               Queued(w, x)' <=> Queued(w, x) \/ (w = target /\ x = NewBlock)
        BY <1>1, <3>1, Sent DEF IInv
      <4> QED BY <4>1, MessageTypes
    <3>3. \A w \in Workers, id \in Ids : Has(w, id)' <=> Has(w, id)
      BY <1>2, <3>2 DEF Has
    <3>4. InvOrder'
      BY <1>1, <3>1, SentInOrder, MessageTypes DEF IInv, InvPlaces
    <3>5. InvStopped'
      BY <1>2, <2>1, <3>1 DEF IInv, InvTypes, InvPlaces, InvStopped
    <3>6. InvIssued'
      BY <1>2, <3>1, <3>2, <3>3 DEF IInv, InvPlaces, InvIssued
    <3>7. InvOwners'
      BY <1>2, <3>1, <3>2, <3>3 DEF IInv, InvPlaces, InvOwners
    <3>8. EntriesAreBacked'
      BY <1>2, <3>1, <3>2 DEF IInv, InvTypes, InvPlaces, EntriesAreBacked
    <3>9. SocketsAreCounted'
      BY <1>2, <3>1, <3>2 DEF IInv, InvPlaces, SocketsAreCounted
    <3> QED BY <1>7, <3>4, <3>5, <3>6, <3>7, <3>8, <3>9 DEF InvPlaces
  <2>2. CASE ~alive[target]
    <3>1. queue' = queue /\ peers' = remove_worker(target)
      BY <1>1, <2>2 DEF send
    <3>2. /\ InvStopped' /\ InvIssued' /\ InvOwners' /\ InvOrder'
          /\ \A v \in Workers : \A x : Queued(v, x)' = Queued(v, x)
          /\ \A v \in Workers, id \in Ids :
                id \in DOMAIN sockets[v] \/ Queued(v, NewConnection(id)) =>
                    (id \in DOMAIN peers => id \in DOMAIN peers')
      BY <1>1, <1>2, <2>2, <3>1, FailedSend DEF IInv
    <3>3. EntriesAreBacked'
      BY <1>2, <3>1, <3>2, RemovedWorker DEF IInv, InvTypes, InvPlaces, EntriesAreBacked
    <3>4. SocketsAreCounted'
      BY <1>2, <3>2 DEF IInv, InvPlaces, SocketsAreCounted
    <3> QED BY <1>7, <3>2, <3>3, <3>4 DEF InvPlaces
  <2> QED BY <2>1, <2>2
<1> QED BY <1>4, <1>5, <1>8 DEF IInv

\* The eviction goes into the channel that has, or had, its connection.
LEMMA SendDisconnectKeeps ==
    ASSUME IInv, send_disconnect
    PROVE  IInv'
<1> DEFINE w == evicted.worker  gone == evicted.id
<1>1. apc = "evict" /\ apc' = "send" /\ HandingOver /\ HandingOver'
  BY DEF send_disconnect, HandingOver
<1>2. /\ evicted = [id |-> gone, worker |-> w]
      /\ w \in Workers /\ gone \in Ids /\ gone < next_peer /\ gone \notin DOMAIN peers
      /\ gone # incoming.id
  BY <1>1 DEF IInv, InvPlaces, InvEvicted
<1>3. Disconnect(gone) \in Messages /\ send(w, Disconnect(gone))
  BY <1>2, MessageTypes DEF send_disconnect
<1>4. UNCHANGED <<banned, next_peer, incoming, alive, wpc, sockets, ready, doomed, closing,
                  next_worker, target, block>>
  BY DEF send_disconnect, worker_vars
<1>5. InvTypes'
  BY <1>1, <1>2, <1>3, <1>4, SendTypes DEF IInv, InvTypes
<1>6. InvPhases'
  BY <1>4 DEF IInv, InvPhases
<1>7. InvEvicted'
  BY <1>1 DEF InvEvicted
<1> HIDE DEF w, gone
<1>8. CASE alive[w]
  <2>1. queue' = [queue EXCEPT ![w] = Append(@, Disconnect(gone))] /\ peers' = peers
    BY <1>3, <1>8 DEF send
  <2>2. \A v \in Workers : \A x :
           Queued(v, x)' <=> Queued(v, x) \/ (v = w /\ x = Disconnect(gone))
    BY <1>2, <1>3, <2>1, Sent DEF IInv
  <2>3. \A v \in Workers, id \in Ids :
           Queued(v, NewConnection(id))' <=> Queued(v, NewConnection(id))
    BY <1>2, <2>2, MessageTypes
  <2>4. \A v \in Workers, id \in Ids :
           Queued(v, Disconnect(id))' <=> Queued(v, Disconnect(id)) \/ (v = w /\ id = gone)
    BY <1>2, <2>2, MessageTypes
  <2>5. \A v \in Workers, id \in Ids : Has(v, id)' <=> Has(v, id)
    BY <1>4, <2>3 DEF Has
  <2>6. InvOrder'
    <3>1. \A id \in Ids : Disconnect(gone) # NewConnection(id)
      BY <1>2, MessageTypes
    <3> QED BY <1>2, <1>3, <2>1, <3>1, SentInOrder DEF IInv, InvPlaces
  <2>7. InvStopped'
    BY <1>4, <1>8, <2>1 DEF IInv, InvTypes, InvPlaces, InvStopped
  <2>8. InvIssued'
    BY <1>2, <1>4, <2>1, <2>4, <2>5 DEF IInv, InvPlaces, InvIssued
  <2>9. InvOwners'
    BY <1>4, <2>1, <2>3, <2>5 DEF IInv, InvPlaces, InvOwners
  <2>10. InvIncoming'
    BY <1>1, <1>2, <1>4, <2>1, <2>4, <2>5 DEF IInv, InvPlaces, InvIncoming
  <2>11. EntriesAreBacked'
    BY <1>1, <1>4, <2>1, <2>3 DEF IInv, InvTypes, InvPlaces, EntriesAreBacked
  <2>12. SocketsAreCounted'
    BY <1>1, <1>2, <1>4, <2>1, <2>3, <2>4 DEF IInv, InvPlaces, SocketsAreCounted
  <2> QED BY <1>5, <1>6, <1>7, <2>6, <2>7, <2>8, <2>9, <2>10, <2>11, <2>12 DEF IInv, InvPlaces
<1>9. CASE ~alive[w]
  <2>1. queue' = queue /\ peers' = remove_worker(w)
    BY <1>3, <1>9 DEF send
  <2>2. /\ InvStopped' /\ InvIssued' /\ InvOwners' /\ InvOrder'
        /\ \A v \in Workers : (\A x : Queued(v, x)' = Queued(v, x))
                              /\ (\A id : Has(v, id)' = Has(v, id))
        /\ \A v \in Workers, id \in Ids :
              id \in DOMAIN sockets[v] \/ Queued(v, NewConnection(id)) =>
                  v # w /\ (id \in DOMAIN peers => id \in DOMAIN peers')
    BY <1>2, <1>4, <1>9, <2>1, FailedSend DEF IInv
  <2>3. InvIncoming'
    BY <1>1, <1>4, <1>9, <2>1, <2>2, RemovedWorker DEF IInv, InvPlaces, InvIncoming
  <2>4. EntriesAreBacked'
    BY <1>1, <1>4, <2>1, <2>2, RemovedWorker DEF IInv, InvTypes, InvPlaces, EntriesAreBacked
  <2>5. SocketsAreCounted'
    BY <1>2, <1>4, <2>2 DEF IInv, InvPlaces, SocketsAreCounted
  <2> QED BY <1>5, <1>6, <1>7, <2>2, <2>3, <2>4, <2>5 DEF IInv, InvPlaces
<1> QED BY <1>8, <1>9

\* The connection goes to the worker that the registry names.
LEMMA SendConnectionKeeps ==
    ASSUME IInv, send_connection
    PROVE  IInv'
<1> DEFINE w == incoming.worker  new == incoming.id
<1>1. apc = "send" /\ apc' = "accept" /\ HandingOver /\ ~HandingOver'
  BY DEF send_connection, HandingOver
<1>2. /\ w \in Workers /\ new \in Ids /\ new < next_peer
      /\ \A v \in Workers : ~Has(v, new) /\ ~Queued(v, Disconnect(new))
      /\ IF new \in DOMAIN peers THEN peers[new].worker = w ELSE ~alive[w]
  BY <1>1 DEF IInv, InvPlaces, InvIncoming
<1>3. NewConnection(new) \in Messages /\ send(w, NewConnection(new))
  BY <1>2, MessageTypes DEF send_connection
<1>4. UNCHANGED <<banned, next_peer, evicted, alive, wpc, sockets, ready, doomed, closing,
                  next_worker, target, block>>
  BY DEF send_connection, worker_vars
<1>5. InvTypes'
  BY <1>1, <1>2, <1>3, <1>4, SendTypes DEF IInv, InvTypes
<1>6. InvPhases'
  BY <1>4 DEF IInv, InvPhases
<1>7. InvIncoming' /\ InvEvicted'
  BY <1>1 DEF InvIncoming, InvEvicted
<1> HIDE DEF w, new
<1>8. CASE alive[w]
  <2>1. queue' = [queue EXCEPT ![w] = Append(@, NewConnection(new))] /\ peers' = peers
    BY <1>3, <1>8 DEF send
  <2>2. \A v \in Workers : \A x :
           Queued(v, x)' <=> Queued(v, x) \/ (v = w /\ x = NewConnection(new))
    BY <1>2, <1>3, <2>1, Sent DEF IInv
  <2>3. \A v \in Workers, id \in Ids :
           Queued(v, NewConnection(id))' <=> Queued(v, NewConnection(id)) \/ (v = w /\ id = new)
    BY <1>2, <2>2, MessageTypes
  <2>4. \A v \in Workers, id \in Ids :
           Queued(v, Disconnect(id))' <=> Queued(v, Disconnect(id))
    BY <1>2, <2>2, MessageTypes
  <2>5. \A v \in Workers, id \in Ids : Has(v, id)' <=> Has(v, id) \/ (v = w /\ id = new)
    BY <1>4, <2>3 DEF Has
  <2>6. InvOrder'
    BY <1>2, <1>3, <2>1, SentInOrder, MessageTypes DEF IInv, InvPlaces, Has
  <2>7. InvStopped'
    BY <1>4, <1>8, <2>1 DEF IInv, InvTypes, InvPlaces, InvStopped
  <2>8. InvIssued'
    BY <1>2, <1>4, <2>1, <2>4, <2>5 DEF IInv, InvPlaces, InvIssued
  <2>9. InvOwners'
    <3>1. new \in DOMAIN peers /\ peers[new].worker = w
      BY <1>2, <1>8
    <3>2. \A v \in Workers : new \notin DOMAIN sockets[v] /\ closing[v].id # new
      BY <1>2 DEF Has
    <3> QED BY <1>2, <1>4, <2>1, <2>3, <2>5, <3>1, <3>2 DEF IInv, InvPlaces, InvOwners
  <2>10. EntriesAreBacked'
    <3>1. \A id \in DOMAIN peers : id = incoming.id => id = new /\ peers[id].worker = w
      BY <1>2, <1>8 DEF new
    <3> QED BY <1>1, <1>2, <1>4, <2>1, <2>3, <3>1
            DEF IInv, InvTypes, InvPlaces, EntriesAreBacked
  <2>11. SocketsAreCounted'
    BY <1>1, <1>2, <1>4, <1>8, <2>1, <2>3, <2>4 DEF IInv, InvPlaces, SocketsAreCounted
  <2> QED BY <1>5, <1>6, <1>7, <2>6, <2>7, <2>8, <2>9, <2>10, <2>11 DEF IInv, InvPlaces
<1>9. CASE ~alive[w]
  <2>1. queue' = queue /\ peers' = remove_worker(w)
    BY <1>3, <1>9 DEF send
  <2>2. /\ InvStopped' /\ InvIssued' /\ InvOwners' /\ InvOrder'
        /\ \A v \in Workers : \A x : Queued(v, x)' = Queued(v, x)
        /\ \A v \in Workers, id \in Ids :
              id \in DOMAIN sockets[v] \/ Queued(v, NewConnection(id)) =>
                  v # w /\ (id \in DOMAIN peers => id \in DOMAIN peers')
    BY <1>2, <1>4, <1>9, <2>1, FailedSend DEF IInv
  <2>3. new \notin DOMAIN peers'
    BY <1>2, <2>1, RemovedWorker
  <2>4. EntriesAreBacked'
    <3>1. \A id \in DOMAIN peers' :
             id # incoming.id /\ id \in DOMAIN peers /\ peers'[id] = peers[id]
      BY <2>1, <2>3, RemovedWorker DEF new
    <3>2. \A id \in DOMAIN peers' : peers[id].worker \in Workers /\ id \in Ids
      BY <3>1 DEF IInv, InvTypes
    <3> QED BY <1>4, <2>2, <3>1, <3>2 DEF IInv, InvPlaces, EntriesAreBacked
  <2>5. SocketsAreCounted'
    BY <1>1, <1>4, <2>2 DEF IInv, InvPlaces, SocketsAreCounted
  <2> QED BY <1>5, <1>6, <1>7, <2>2, <2>4, <2>5 DEF IInv, InvPlaces
<1> QED BY <1>8, <1>9

-----------------------------------------------------------------------------
(* Admission *)

\* The peer that is replaced is in the registry and not alone in its prefix.
LEMMA EvictableFacts ==
    ASSUME InvTypes, NEW id \in Evictable
    PROVE  /\ id \in DOMAIN peers
           /\ \E other \in DOMAIN peers : other # id /\ prefix_of(other) = prefix_of(id)
<1>1. PICK x \in Prefixes : id = Min(PrefixPeers(x)) /\ Cardinality(PrefixPeers(x)) > 1
  BY DEF Evictable
<1> DEFINE S == PrefixPeers(x)
<1>2. S \subseteq DOMAIN peers /\ S \subseteq Nat /\ IsFiniteSet(S)
  <2>1. S \subseteq DOMAIN peers
    BY DEF PrefixPeers
  <2>2. S \subseteq Ids
    BY <2>1 DEF InvTypes
  <2>3. Ids \subseteq Nat
    BY LimitsAssumption DEF Ids
  <2> QED BY <2>1, <2>2, <2>3, FiniteIds
<1>3. S # {}
  BY <1>1, FS_EmptySet
<1>4. id \in S
  <2>1. \E m \in S : \A y \in S : m <= y
    BY <1>2, <1>3, LeastNatural
  <2> QED BY <1>1, <2>1 DEF Min
<1>5. \E other \in S : other # id
  <2>1. SUFFICES ASSUME S = {id} PROVE FALSE
    BY <1>4
  <2>2. Cardinality({id}) = 1
    BY FS_Singleton
  <2> QED BY <1>1, <2>1, <2>2
<1> QED BY <1>2, <1>4, <1>5 DEF PrefixPeers

\* What the registry and the acceptor are after an admission.  The identifier is
\* new: nobody has it.
Admitted(kept, a) ==
    /\ next_peer \in Ids /\ next_peer' = next_peer + 1
    /\ DOMAIN peers' = DOMAIN kept \cup {next_peer}
    /\ peers'[next_peer] = [address |-> a, worker |-> next_worker]
    /\ \A id \in DOMAIN kept \ {next_peer} : peers'[id] = kept[id]
    /\ incoming' = [id |-> next_peer, worker |-> next_worker]

\* An insertion gives the new peer the next identifier and keeps the others.
LEMMA InsertAdmits ==
    ASSUME InvTypes, NEW kept, NEW a, insert(kept, a)
    PROVE  Admitted(kept, a)
<1>1. next_peer \in Ids
  BY LimitsAssumption DEF InvTypes, insert, Ids
<1>2. peers' = With(kept, next_peer, [address |-> a, worker |-> next_worker])
  BY DEF insert
<1>3. /\ DOMAIN peers' = DOMAIN kept \cup {next_peer}
      /\ peers'[next_peer] = [address |-> a, worker |-> next_worker]
      /\ \A id \in DOMAIN kept \ {next_peer} : peers'[id] = kept[id]
  BY <1>2 DEF With
<1> QED BY <1>1, <1>3 DEF Admitted, insert

\* The next identifier has not been used anywhere.
LEMMA NewIsNowhere ==
    ASSUME InvTypes, InvPlaces, next_peer \in Ids
    PROVE  /\ next_peer \notin DOMAIN peers
           /\ \A w \in Workers : ~Has(w, next_peer) /\ ~Queued(w, Disconnect(next_peer))
<1>1. next_peer \in Nat /\ ~(next_peer < next_peer)
  BY LimitsAssumption DEF InvTypes
<1> QED BY <1>1 DEF InvPlaces, InvIssued

\* Admission reserves an entry before anything is sent.
LEMMA AdmitKeeps ==
    ASSUME IInv, NEW a \in Addresses, admit(a)
    PROVE  IInv'
<1>1. /\ apc = "accept" /\ ~HandingOver /\ next_worker' \in Workers /\ next_worker \in Workers
      /\ UNCHANGED <<target, block, queue, alive, wpc, sockets, ready, doomed, closing>>
  BY NextWorker DEF admit, accept_next, worker_vars, HandingOver, IInv, InvTypes
<1>2. /\ DOMAIN banned' \subseteq Addresses /\ IsFiniteSet(DOMAIN banned')
      /\ Cardinality(DOMAIN banned') <= MaxBanned
  BY DropExpired DEF admit, IInv
<1>3. InvPhases'
  BY <1>1 DEF IInv, InvPhases
<1>4. IsFiniteSet(DOMAIN peers) /\ Cardinality(DOMAIN peers) \in Nat /\ MaxPeers \in Nat
  BY FiniteIds, FS_CardinalityType, LimitsAssumption DEF IInv, InvTypes
<1>5. /\ \A w \in Workers : /\ \A x : Queued(w, x)' = Queued(w, x)
                            /\ \A id : Has(w, id)' = Has(w, id)
      /\ \A w \in Workers : queue'[w] = queue[w] /\ alive'[w] = alive[w]
                            /\ closing'[w] = closing[w] /\ sockets'[w] = sockets[w]
  <2>1. \A w \in Workers : \A x : Queued(w, x)' = Queued(w, x)
    BY <1>1 DEF Queued
  <2> QED BY <1>1, <2>1 DEF Has
<1>6. InvStopped' /\ InvOrder'
  BY <1>5 DEF IInv, InvPlaces, InvStopped, InvOrder
<1>7. ASSUME NEW kept, insert(kept, a), apc' \in {"evict", "send"},
             DOMAIN kept \subseteq DOMAIN peers, \A id \in DOMAIN kept : kept[id] = peers[id],
             Cardinality(DOMAIN kept \cup {next_peer}) <= MaxPeers
      PROVE  /\ InvTypes' /\ InvIssued' /\ InvOwners' /\ InvIncoming' /\ EntriesAreBacked'
             /\ next_peer \notin DOMAIN peers
             /\ DOMAIN peers' = DOMAIN kept \cup {next_peer}
             /\ incoming'.id = next_peer
  <2>1. Admitted(kept, a)
    BY <1>7, InsertAdmits DEF IInv
  <2>2. /\ next_peer \notin DOMAIN peers
        /\ \A w \in Workers : ~Has(w, next_peer) /\ ~Queued(w, Disconnect(next_peer))
    BY <2>1, NewIsNowhere DEF IInv, Admitted
  <2>3. InvTypes'
    <3>1. next_peer' \in 0 .. MaxConnections
      BY <2>1, LimitsAssumption DEF Admitted, Ids
    <3>2. \A id \in DOMAIN peers' : /\ id \in Ids
                                    /\ peers'[id] \in [address : Addresses, worker : Workers]
      BY <1>1, <1>7, <2>1 DEF Admitted, IInv, InvTypes
    <3>3. Cardinality(DOMAIN peers') <= MaxPeers
      BY <1>7, <2>1 DEF Admitted
    <3> QED BY <1>1, <1>2, <1>7, <3>1, <3>2, <3>3 DEF IInv, InvTypes
  <2>4. InvIssued'
    <3>1. \A id \in Ids : id < next_peer => id < next_peer'
      BY <2>1, LimitsAssumption DEF Admitted, Ids
    <3>2. next_peer < next_peer'
      BY <2>1, LimitsAssumption DEF Admitted, Ids
    <3>3. \A id \in DOMAIN kept : id \in Ids
      BY <1>7 DEF IInv, InvTypes
    <3> QED BY <1>5, <1>7, <2>1, <3>1, <3>2, <3>3 DEF IInv, InvPlaces, InvIssued, Admitted
  <2>5. InvOwners'
    BY <1>5, <1>7, <2>1, <2>2 DEF IInv, InvPlaces, InvOwners, Admitted
  <2>6. InvIncoming'
    <3>1. next_peer < next_peer'
      BY <2>1, LimitsAssumption DEF Admitted, Ids
    <3> QED BY <1>1, <1>5, <2>1, <2>2, <3>1 DEF InvIncoming, Admitted
  <2>7. EntriesAreBacked'
    <3>1. ASSUME NEW id \in DOMAIN kept
          PROVE  /\ id \in DOMAIN peers /\ id # next_peer /\ peers'[id] = peers[id]
                 /\ peers[id].worker \in Workers
      BY <1>7, <2>1, <2>2 DEF Admitted, IInv, InvTypes
    <3> QED BY <1>1, <1>5, <1>7, <2>1, <3>1
            DEF IInv, InvPlaces, EntriesAreBacked, Admitted
  <2> QED BY <2>1, <2>2, <2>3, <2>4, <2>5, <2>6, <2>7 DEF Admitted
<1>8. CASE /\ Cardinality(DOMAIN peers) < MaxPeers
           /\ insert(peers, a) /\ apc' = "send" /\ UNCHANGED evicted
  <2>1. Cardinality(DOMAIN peers \cup {next_peer}) <= MaxPeers
    <3>1. /\ IsFiniteSet(DOMAIN peers \cup {next_peer})
          /\ Cardinality(DOMAIN peers \cup {next_peer}) <= Cardinality(DOMAIN peers) + 1
      BY <1>4, Sizes
    <3>2. Cardinality(DOMAIN peers \cup {next_peer}) \in Nat
      BY <3>1, FS_CardinalityType
    <3> QED BY <1>4, <1>8, <3>1, <3>2
  <2>2. /\ InvTypes' /\ InvIssued' /\ InvOwners' /\ InvIncoming' /\ EntriesAreBacked'
        /\ DOMAIN peers' = DOMAIN peers \cup {next_peer}
    BY <1>7, <1>8, <2>1
  <2>3. InvEvicted'
    BY <1>8 DEF InvEvicted
  <2>4. SocketsAreCounted'
    BY <1>1, <1>5, <2>2 DEF IInv, InvPlaces, SocketsAreCounted
  <2> QED BY <1>3, <1>6, <2>2, <2>3, <2>4 DEF IInv, InvPlaces
<1>9. ASSUME Cardinality(DOMAIN peers) >= MaxPeers, apc' = "evict",
             NEW id \in Evictable, insert(Without(peers, {id}), a),
             evicted' = [id |-> id, worker |-> peers[id].worker]
      PROVE  IInv'
  <2> DEFINE kept == Without(peers, {id})
  <2>1. id \in DOMAIN peers /\ id \in Ids /\ peers[id].worker \in Workers
    BY EvictableFacts DEF IInv, InvTypes
  <2>2. /\ DOMAIN kept = DOMAIN peers \ {id}
        /\ \A y \in DOMAIN kept : kept[y] = peers[y]
    BY DEF Without
  <2>3. Cardinality(DOMAIN kept \cup {next_peer}) <= MaxPeers
    <3>1. /\ IsFiniteSet(DOMAIN kept)
          /\ Cardinality(DOMAIN kept) = Cardinality(DOMAIN peers) - 1
      BY <1>4, <2>1, <2>2, Sizes, ZenonT(30)
    <3>2. Cardinality(DOMAIN kept \cup {next_peer}) <= Cardinality(DOMAIN kept) + 1
      BY <3>1, Sizes
    <3>3. Cardinality(DOMAIN kept \cup {next_peer}) \in Nat
      BY <3>1, Sizes, FS_CardinalityType
    <3> QED BY <1>4, <3>1, <3>2, <3>3 DEF IInv, InvTypes
  <2> HIDE DEF kept
  <2>4. /\ InvTypes' /\ InvIssued' /\ InvOwners' /\ InvIncoming' /\ EntriesAreBacked'
        /\ next_peer \notin DOMAIN peers
        /\ DOMAIN peers' = DOMAIN kept \cup {next_peer}
        /\ incoming'.id = next_peer
    BY <1>7, <1>9, <2>2, <2>3 DEF kept
  <2>5. InvEvicted'
    <3>1. id < next_peer'
      BY <1>9, <2>1, LimitsAssumption DEF insert, IInv, InvTypes, InvPlaces, InvIssued, Ids
    <3> QED BY <1>9, <2>1, <2>2, <2>4, <3>1 DEF InvEvicted
  <2>6. SocketsAreCounted'
    <3>1. ASSUME NEW w \in Workers, NEW y \in Ids,
                 y \in DOMAIN sockets[w] \/ Queued(w, NewConnection(y)),
                 y \notin DOMAIN peers', ~Queued(w, Disconnect(y))
          PROVE  evicted' = [id |-> y, worker |-> w]
      <4>1. y \in DOMAIN peers
        BY <1>1, <3>1 DEF IInv, InvPlaces, SocketsAreCounted
      <4>2. y = id
        BY <2>2, <2>4, <3>1, <4>1
      <4>3. peers[y].worker = w
        BY <3>1, <4>1 DEF IInv, InvPlaces, InvOwners, Has
      <4> QED BY <1>9, <4>2, <4>3
    <3> QED BY <1>5, <1>9, <3>1 DEF SocketsAreCounted
  <2> QED BY <1>3, <1>6, <2>4, <2>5, <2>6 DEF IInv, InvPlaces
<1> QED BY <1>8, <1>9 DEF admit

-----------------------------------------------------------------------------
(* A worker receives *)

\* A message is determined by its type and identifier.
LEMMA MessageForms ==
    ASSUME NEW m \in Messages
    PROVE  /\ m.type = "new" => m.id \in Ids /\ m = NewConnection(m.id)
           /\ m.type = "disconnect" => m.id \in Ids /\ m = Disconnect(m.id)
           /\ m.type = "block" => m = NewBlock
  BY DEF Messages, NewConnection, Disconnect, NewBlock

\* Taking the head of a channel keeps connections before disconnections.
LEMMA ReceivedInOrder ==
    ASSUME InvTypes, InvOrder, NEW w \in Workers, queue[w] # << >>,
           queue' = [queue EXCEPT ![w] = Tail(@)]
    PROVE  /\ InvOrder'
           /\ \A id \in Ids :
                 /\ Head(queue[w]) = NewConnection(id) => ~Queued(w, NewConnection(id))'
                 /\ Head(queue[w]) = Disconnect(id) => ~Queued(w, NewConnection(id))
<1>1. queue[w] \in Seq(Messages) /\ Len(queue[w]) \in Nat \ {0} /\ Head(queue[w]) = queue[w][1]
  BY DEF InvTypes
<1>2. /\ Len(queue'[w]) = Len(queue[w]) - 1
      /\ \A i \in 1 .. Len(queue'[w]) : queue'[w][i] = queue[w][i + 1]
      /\ \A v \in Workers \ {w} : queue'[v] = queue[v]
  BY Received
<1>3. ASSUME NEW i \in 1 .. Len(queue'[w])
      PROVE  i \in Nat /\ i + 1 \in 1 .. Len(queue[w]) /\ i + 1 # 1
  BY <1>1, <1>2
<1>4. InvOrder'
  <2> SUFFICES ASSUME NEW v \in Workers, NEW id \in Ids,
                      NEW i \in 1 .. Len(queue'[v]), NEW j \in 1 .. Len(queue'[v]),
                      queue'[v][i] = NewConnection(id)
               PROVE  /\ queue'[v][j] = NewConnection(id) => i = j
                      /\ queue'[v][j] = Disconnect(id) => i < j
    BY DEF InvOrder
  <2>1. CASE v # w
    BY <1>2, <2>1 DEF InvOrder
  <2>2. CASE v = w
    <3>1. /\ i \in Nat /\ j \in Nat
          /\ i + 1 \in 1 .. Len(queue[w]) /\ j + 1 \in 1 .. Len(queue[w])
          /\ queue'[v][i] = queue[w][i + 1] /\ queue'[v][j] = queue[w][j + 1]
      BY <1>2, <1>3, <2>2
    <3>2. /\ queue[w][j + 1] = NewConnection(id) => i + 1 = j + 1
          /\ queue[w][j + 1] = Disconnect(id) => i + 1 < j + 1
      BY <3>1 DEF InvOrder
    <3> QED BY <3>1, <3>2
  <2> QED BY <2>1, <2>2
<1>5. ASSUME NEW id \in Ids, Head(queue[w]) = NewConnection(id)
      PROVE  ~Queued(w, NewConnection(id))'
  <2> SUFFICES ASSUME NEW i \in 1 .. Len(queue'[w]), queue'[w][i] = NewConnection(id)
               PROVE  FALSE
    BY DEF Queued
  <2>1. 1 \in 1 .. Len(queue[w]) /\ queue[w][1] = NewConnection(id)
    BY <1>1, <1>5
  <2>2. queue[w][i + 1] = NewConnection(id) /\ i + 1 \in 1 .. Len(queue[w]) /\ i + 1 # 1
    BY <1>2, <1>3
  <2> QED BY <2>1, <2>2 DEF InvOrder
<1>6. ASSUME NEW id \in Ids, Head(queue[w]) = Disconnect(id)
      PROVE  ~Queued(w, NewConnection(id))
  <2> SUFFICES ASSUME NEW i \in 1 .. Len(queue[w]), queue[w][i] = NewConnection(id)
               PROVE  FALSE
    BY DEF Queued
  <2>1. 1 \in 1 .. Len(queue[w]) /\ queue[w][1] = Disconnect(id)
    BY <1>1, <1>6
  <2>2. i < 1
    BY <2>1 DEF InvOrder
  <2> QED BY <1>1, <2>2
<1> QED BY <1>4, <1>5, <1>6

\* What a worker knows when it takes a message.
LEMMA ReceiveFacts ==
    ASSUME IInv, NEW w \in Workers, NEW type, receive(w, type)
    PROVE  /\ Head(queue[w]) \in Messages /\ Head(queue[w]).type = type
           /\ alive[w] /\ closing[w] = NoClosing /\ doomed[w] = {} /\ ready[w] = {}
           /\ wpc[w] = "messages"
           /\ queue' \in [Workers -> Seq(Messages)]
           /\ \A v \in Workers : Len(queue'[v]) <= QueueCapacity
           /\ \A v \in Workers : queue[v] = << >> => queue'[v] = << >>
           /\ InvOrder'
           /\ Queued(w, Head(queue[w]))
           /\ \A v \in Workers : \A x : Queued(v, x)' => Queued(v, x)
           /\ \A v \in Workers : \A x :
                 Queued(v, x) => Queued(v, x)' \/ (v = w /\ x = Head(queue[w]))
<1>1. /\ queue[w] # << >> /\ queue' = [queue EXCEPT ![w] = Tail(@)]
      /\ Head(queue[w]).type = type
  BY DEF receive
<1>2. /\ Head(queue[w]) \in Messages /\ Queued(w, Head(queue[w]))
      /\ queue' \in [Workers -> Seq(Messages)]
      /\ Len(queue'[w]) = Len(queue[w]) - 1
      /\ \A v \in Workers \ {w} : queue'[v] = queue[v]
      /\ \A v \in Workers : \A x : Queued(v, x)' => Queued(v, x)
      /\ \A v \in Workers : \A x :
            Queued(v, x) => Queued(v, x)' \/ (v = w /\ x = Head(queue[w]))
  BY <1>1, Received DEF IInv
<1>3. alive[w] /\ closing[w] = NoClosing /\ doomed[w] = {} /\ ready[w] = {} /\ wpc[w] = "messages"
  BY DEF receive, Receiving, Free, IInv, InvPhases
<1>4. \A v \in Workers : Len(queue'[v]) <= QueueCapacity
  <2>1. \A v \in Workers : Len(queue[v]) \in Nat /\ Len(queue[v]) <= QueueCapacity
    BY DEF IInv, InvTypes
  <2> QED BY <1>2, <2>1, LimitsAssumption, SMTT(30)
<1>5. InvOrder'
  BY <1>1, ReceivedInOrder DEF IInv, InvPlaces
<1>6. \A v \in Workers : queue[v] = << >> => queue'[v] = << >>
  BY <1>1, <1>2
<1> QED BY <1>1, <1>2, <1>3, <1>4, <1>5, <1>6

\* An announcement only makes failing peers leave.
LEMMA AnnounceKeeps ==
    ASSUME IInv, NEW w \in Workers, announce_block(w)
    PROVE  IInv'
<1>1. receive(w, "block")
  BY DEF announce_block
<1>2. UNCHANGED <<peers, banned, next_peer, apc, next_worker, incoming, evicted, block, target,
                  alive, wpc, sockets, ready, closing>>
  BY DEF announce_block, registry_vars, acceptor_vars
<1>3. PICK failed \in SUBSET DOMAIN sockets[w] : doomed' = [doomed EXCEPT ![w] = failed]
  BY DEF announce_block
<1>4. failed \subseteq Ids
  BY DEF IInv, InvTypes
<1>5. InvTypes'
  BY <1>1, <1>2, <1>3, <1>4, ReceiveFacts DEF IInv, InvTypes
<1>6. InvPhases'
  <2>1. ready[w] = {} /\ wpc[w] = "messages" /\ doomed'[w] = failed
    BY <1>1, <1>3, ReceiveFacts DEF IInv, InvTypes
  <2> QED BY <1>2, <1>3, <2>1 DEF IInv, InvPhases, InvTypes
<1>7. \A v \in Workers, id \in Ids :
         /\ Queued(v, NewConnection(id))' <=> Queued(v, NewConnection(id))
         /\ Queued(v, Disconnect(id))' <=> Queued(v, Disconnect(id))
  <2>1. Head(queue[w]) = NewBlock
    BY <1>1, ReceiveFacts, MessageForms
  <2>2. /\ \A v \in Workers : \A x : Queued(v, x)' => Queued(v, x)
        /\ \A v \in Workers : \A x : Queued(v, x) => Queued(v, x)' \/ (v = w /\ x = NewBlock)
    BY <1>1, <2>1, ReceiveFacts
  <2> QED BY <2>2, MessageTypes
<1>8. \A v \in Workers, id \in Ids : Has(v, id)' <=> Has(v, id)
  BY <1>2, <1>7 DEF Has
<1>9. InvOrder' /\ InvStopped'
  BY <1>1, <1>2, ReceiveFacts DEF IInv, InvPlaces, InvStopped
<1>10. InvIssued'
  BY <1>2, <1>7, <1>8 DEF IInv, InvPlaces, InvIssued
<1>11. InvOwners'
  BY <1>2, <1>7, <1>8 DEF IInv, InvPlaces, InvOwners
<1>12. InvIncoming' /\ InvEvicted'
  BY <1>2, <1>7, <1>8 DEF IInv, InvPlaces, InvIncoming, InvEvicted, HandingOver
<1>13. EntriesAreBacked'
  BY <1>2, <1>7 DEF IInv, InvTypes, InvPlaces, EntriesAreBacked
<1>14. SocketsAreCounted'
  BY <1>2, <1>7 DEF IInv, InvPlaces, SocketsAreCounted
<1> QED BY <1>5, <1>6, <1>9, <1>10, <1>11, <1>12, <1>13, <1>14 DEF IInv, InvPlaces

\* The socket in the channel moves to the worker's table, or is closed at once.
LEMMA AddPeerKeeps ==
    ASSUME IInv, NEW w \in Workers, add_peer(w)
    PROVE  IInv'
<1>1. receive(w, "new")
  BY DEF add_peer
<1>2. UNCHANGED <<peers, banned, next_peer, apc, next_worker, incoming, evicted, block, target,
                  alive, wpc, ready, doomed>>
  BY DEF add_peer, registry_vars, acceptor_vars
<1>3. PICK id \in Ids : Head(queue[w]) = NewConnection(id) /\ Head(queue[w]).id = id
  BY <1>1, ReceiveFacts, MessageForms
<1>4. /\ alive[w] /\ closing[w] = NoClosing /\ ready[w] = {} /\ doomed[w] = {}
      /\ Queued(w, NewConnection(id)) /\ ~Queued(w, NewConnection(id))'
  <2>1. queue[w] # << >> /\ queue' = [queue EXCEPT ![w] = Tail(@)]
    BY <1>1 DEF receive
  <2>2. ~Queued(w, NewConnection(id))'
    BY <1>3, <2>1, ReceivedInOrder DEF IInv, InvPlaces
  <2> QED BY <1>1, <1>3, <2>2, ReceiveFacts
<1>5. \A v \in Workers, y \in Ids :
         /\ Queued(v, NewConnection(y))' <=> Queued(v, NewConnection(y)) /\ ~(v = w /\ y = id)
         /\ Queued(v, Disconnect(y))' <=> Queued(v, Disconnect(y))
  <2>1. /\ \A v \in Workers : \A x : Queued(v, x)' => Queued(v, x)
        /\ \A v \in Workers : \A x :
              Queued(v, x) => Queued(v, x)' \/ (v = w /\ x = NewConnection(id))
    BY <1>1, <1>3, ReceiveFacts
  <2> QED BY <1>3, <1>4, <2>1, MessageTypes
\* The identifier is in the table or being closed, and everything else is where it was.
<1> DEFINE Moved == /\ DOMAIN sockets' = Workers
                    /\ \A v \in Workers : v # w => /\ sockets'[v] = sockets[v]
                                                   /\ closing'[v] = closing[v]
                    /\ \/ /\ DOMAIN sockets'[w] = DOMAIN sockets[w] \cup {id}
                          /\ closing'[w] = NoClosing
                       \/ /\ DOMAIN sockets'[w] = DOMAIN sockets[w]
                          /\ closing'[w] = [id |-> id, reason |-> "failed"]
                    /\ closing' \in [Workers -> [id : 0 .. MaxConnections,
                                       reason : {"none", "failed", "rate_limit", "evicted"}]]
<1>6. Moved
  <2>1. DOMAIN sockets = Workers /\ id \in 0 .. MaxConnections
        /\ closing \in [Workers -> [id : 0 .. MaxConnections,
                                    reason : {"none", "failed", "rate_limit", "evicted"}]]
    <3>1. id \in 0 .. MaxConnections
      BY LimitsAssumption DEF Ids
    <3> QED BY <3>1 DEF IInv, InvTypes
  <2>2. CASE /\ sockets' = [sockets EXCEPT ![w] =
                              With(@, id, [age |-> 0, established |-> FALSE])]
             /\ closing' = closing
    BY <1>4, <2>1, <2>2 DEF With
  <2>3. CASE /\ closing' = [closing EXCEPT ![w] = [id |-> id, reason |-> "failed"]]
             /\ sockets' = sockets
    BY <2>1, <2>3
  <2> QED BY <1>3, <2>2, <2>3 DEF add_peer
<1>7. Nobody \notin Ids /\ NoClosing.id = Nobody
  BY LimitsAssumption DEF Nobody, Ids, NoClosing
<1>8. InvTypes'
  <2>1. \A v \in Workers : /\ DOMAIN sockets'[v] \subseteq Ids
                           /\ closing'[v].id = Nobody => closing'[v] = NoClosing
    <3>1. \A v \in Workers : /\ DOMAIN sockets[v] \subseteq Ids
                             /\ closing[v].id = Nobody => closing[v] = NoClosing
      BY DEF IInv, InvTypes
    <3>2. id # Nobody
      BY <1>7
    <3>3. DOMAIN sockets'[w] \subseteq Ids /\ (closing'[w].id = Nobody => closing'[w] = NoClosing)
      BY <1>6, <3>1, <3>2
    <3> QED BY <1>6, <3>1, <3>3
  <2> QED BY <1>1, <1>2, <1>6, <2>1, ReceiveFacts DEF IInv, InvTypes
<1>9. InvPhases'
  BY <1>2, <1>4, <1>6 DEF IInv, InvPhases
<1>10. \A v \in Workers, y \in Ids : Has(v, y)' <=> Has(v, y)
  BY <1>3, <1>4, <1>5, <1>6, <1>7 DEF Has
<1>11. InvOrder' /\ InvStopped'
  BY <1>1, <1>2, <1>4, <1>6, ReceiveFacts DEF IInv, InvPlaces, InvStopped
<1>12. InvIssued'
  BY <1>2, <1>5, <1>10 DEF IInv, InvPlaces, InvIssued
<1>13. InvOwners'
  BY <1>2, <1>3, <1>4, <1>5, <1>6, <1>7, <1>10 DEF IInv, InvPlaces, InvOwners
<1>14. InvIncoming' /\ InvEvicted'
  BY <1>2, <1>5, <1>10 DEF IInv, InvPlaces, InvIncoming, InvEvicted, HandingOver
<1>15. EntriesAreBacked'
  <2>1. ASSUME NEW y \in DOMAIN peers
        PROVE  y \in Ids /\ y # Nobody /\ peers[y].worker \in Workers
    BY <1>7 DEF IInv, InvTypes
  <2>2. ASSUME NEW y \in DOMAIN peers, NEW v \in Workers
        PROVE  /\ y \in DOMAIN sockets[v] => y \in DOMAIN sockets'[v]
               /\ Queued(v, NewConnection(y)) =>
                     \/ Queued(v, NewConnection(y))'
                     \/ y \in DOMAIN sockets'[v]
                     \/ closing'[v].id = y
               /\ closing[v].id = y => closing'[v].id = y
    BY <1>4, <1>5, <1>6, <1>7, <2>1
  <2> QED BY <1>2, <2>1, <2>2 DEF IInv, InvPlaces, EntriesAreBacked
<1>16. SocketsAreCounted'
  BY <1>2, <1>3, <1>4, <1>5, <1>6 DEF IInv, InvPlaces, SocketsAreCounted
<1> QED BY <1>8, <1>9, <1>11, <1>12, <1>13, <1>14, <1>15, <1>16 DEF IInv, InvPlaces

-----------------------------------------------------------------------------
(* Closing *)

\* The channels lose at most one disconnection, of that peer from that worker.
OnlyDisconnectTaken(w, id) ==
    /\ queue' \in [Workers -> Seq(Messages)]
    /\ \A v \in Workers : Len(queue'[v]) <= QueueCapacity
    /\ \A v \in Workers : queue[v] = << >> => queue'[v] = << >>
    /\ InvOrder'
    /\ \A v \in Workers, y \in Ids :
          /\ Queued(v, NewConnection(y))' <=> Queued(v, NewConnection(y))
          /\ Queued(v, Disconnect(y))' => Queued(v, Disconnect(y))
          /\ Queued(v, Disconnect(y)) => Queued(v, Disconnect(y))' \/ (v = w /\ y = id)

\* A step that leaves the channels alone takes no connection out of them.
LEMMA NothingTaken ==
    ASSUME IInv, NEW w, NEW id, UNCHANGED queue
    PROVE  OnlyDisconnectTaken(w, id)
<1>1. \A v \in Workers : \A x : Queued(v, x)' <=> Queued(v, x)
  BY DEF Queued
<1>2. InvOrder'
  BY DEF IInv, InvPlaces, InvOrder
<1> QED BY <1>1, <1>2 DEF OnlyDisconnectTaken, IInv, InvTypes

\* The socket leaves the table and is not in the channel either; the registry
\* will be told.
LEMMA CloseKeeps ==
    ASSUME IInv, NEW w \in Workers, NEW id \in DOMAIN sockets[w], alive[w],
           closing[w] = NoClosing, NEW reason \in {"failed", "rate_limit", "evicted"},
           close_socket(w, id, reason), OnlyDisconnectTaken(w, id),
           UNCHANGED <<peers, banned, next_peer, apc, next_worker, incoming, evicted, block,
                       target, alive, wpc>>,
           ready' \in [Workers -> SUBSET Ids], doomed' \in [Workers -> SUBSET Ids]
    PROVE  /\ InvTypes' /\ InvPlaces'
           /\ DOMAIN sockets'[w] = DOMAIN sockets[w] \ {id}
           /\ \A v \in Workers : v # w => sockets'[v] = sockets[v]
<1>1. id \in Ids /\ Nobody \notin Ids /\ NoClosing.id = Nobody
  <2>1. id \in Ids
    BY DEF IInv, InvTypes
  <2> QED BY <2>1, LimitsAssumption DEF Ids, Nobody, NoClosing
<1>2. /\ DOMAIN sockets' = Workers
      /\ DOMAIN sockets'[w] = DOMAIN sockets[w] \ {id}
      /\ \A v \in Workers : v # w => sockets'[v] = sockets[v]
  BY DEF close_socket, Without, IInv, InvTypes
<1>3. /\ closing'[w].id = id
      /\ \A v \in Workers : v # w => closing'[v] = closing[v]
      /\ closing' \in [Workers -> [id : 0 .. MaxConnections,
                                   reason : {"none", "failed", "rate_limit", "evicted"}]]
  <2>1. id \in 0 .. MaxConnections
    BY <1>1, LimitsAssumption DEF Ids
  <2> QED BY <2>1 DEF close_socket, IInv, InvTypes
<1>4. InvTypes'
  <2>1. \A v \in Workers : /\ DOMAIN sockets'[v] \subseteq Ids
                           /\ closing'[v].id = Nobody => closing'[v] = NoClosing
    BY <1>1, <1>2, <1>3 DEF IInv, InvTypes
  <2> QED BY <1>2, <1>3, <2>1, ZenonT(30) DEF IInv, InvTypes, OnlyDisconnectTaken
<1>5. \A v \in Workers, y \in Ids : Has(v, y)' <=> Has(v, y)
  <2>1. \A v \in Workers, y \in Ids :
           Queued(v, NewConnection(y))' <=> Queued(v, NewConnection(y))
    BY DEF OnlyDisconnectTaken
  <2>2. \A y \in Ids : closing[w].id # y
    BY <1>1
  <2>3. \A y \in Ids : /\ y \in DOMAIN sockets'[w] <=> y \in DOMAIN sockets[w] /\ y # id
                       /\ closing'[w].id = y <=> y = id
    BY <1>2, <1>3
  <2> QED BY <1>2, <1>3, <2>1, <2>2, <2>3 DEF Has
<1>6. InvOrder' /\ InvStopped'
  BY <1>2 DEF IInv, InvPlaces, InvStopped, OnlyDisconnectTaken
<1>7. InvIssued'
  BY <1>5 DEF IInv, InvPlaces, InvIssued, OnlyDisconnectTaken
<1>8. InvOwners'
  <2>1. ASSUME NEW v \in Workers, NEW y \in Ids
        PROVE  /\ ~(y \in DOMAIN sockets'[v] /\ Queued(v, NewConnection(y))')
               /\ ~(y \in DOMAIN sockets'[v] /\ closing'[v].id = y)
               /\ ~(Queued(v, NewConnection(y))' /\ closing'[v].id = y)
    <3>1. Queued(v, NewConnection(y))' <=> Queued(v, NewConnection(y))
      BY DEF OnlyDisconnectTaken
    <3>2. CASE v = w
      BY <1>1, <1>2, <1>3, <3>1, <3>2 DEF IInv, InvPlaces, InvOwners
    <3>3. CASE v # w
      BY <1>2, <1>3, <3>1, <3>3 DEF IInv, InvPlaces, InvOwners
    <3> QED BY <3>2, <3>3
  <2> QED BY <1>5, <2>1 DEF IInv, InvPlaces, InvOwners
<1>9. InvIncoming' /\ InvEvicted'
  BY <1>5 DEF IInv, InvPlaces, InvIncoming, InvEvicted, HandingOver, OnlyDisconnectTaken
<1>10. EntriesAreBacked'
  <2>1. ASSUME NEW y \in DOMAIN peers
        PROVE  y \in Ids /\ y # Nobody /\ peers[y].worker \in Workers
    BY <1>1 DEF IInv, InvTypes
  <2>2. ASSUME NEW y \in DOMAIN peers, NEW v \in Workers
        PROVE  /\ y \in DOMAIN sockets[v] => y \in DOMAIN sockets'[v] \/ closing'[v].id = y
               /\ closing[v].id = y => closing'[v].id = y
    BY <1>1, <1>2, <1>3, <2>1
  <2> QED BY <2>1, <2>2 DEF IInv, InvPlaces, EntriesAreBacked, OnlyDisconnectTaken
<1>11. SocketsAreCounted'
  <2>1. ~Queued(w, NewConnection(id))
    BY <1>1 DEF IInv, InvPlaces, InvOwners
  <2>2. ASSUME NEW v \in Workers, NEW y \in Ids,
               y \in DOMAIN sockets'[v] \/ Queued(v, NewConnection(y))'
        PROVE  /\ y \in DOMAIN sockets[v] \/ Queued(v, NewConnection(y))
               /\ ~(v = w /\ y = id)
    BY <1>1, <1>2, <2>1, <2>2 DEF OnlyDisconnectTaken
  <2> QED BY <2>2 DEF IInv, InvPlaces, SocketsAreCounted, OnlyDisconnectTaken
<1> QED BY <1>2, <1>4, <1>6, <1>7, <1>8, <1>9, <1>10, <1>11 DEF InvPlaces

\* A disconnection finds its socket in the table, or gone already.
LEMMA DisconnectKeeps ==
    ASSUME IInv, NEW w \in Workers, disconnect_peer(w)
    PROVE  IInv'
<1>1. receive(w, "disconnect") /\ queue[w] # << >> /\ queue' = [queue EXCEPT ![w] = Tail(@)]
  BY DEF disconnect_peer, receive
<1>2. UNCHANGED <<peers, banned, next_peer, apc, next_worker, incoming, evicted, block, target,
                  alive, wpc, ready, doomed>>
  BY DEF disconnect_peer, registry_vars, acceptor_vars
<1>3. PICK id \in Ids : Head(queue[w]) = Disconnect(id) /\ Head(queue[w]).id = id
  BY <1>1, ReceiveFacts, MessageForms
<1>4. /\ alive[w] /\ closing[w] = NoClosing /\ ready[w] = {} /\ doomed[w] = {}
  BY <1>1, ReceiveFacts
<1>5. OnlyDisconnectTaken(w, id)
  <2>1. /\ \A v \in Workers : \A x : Queued(v, x)' => Queued(v, x)
        /\ \A v \in Workers : \A x : Queued(v, x) => Queued(v, x)' \/ (v = w /\ x = Disconnect(id))
    BY <1>1, <1>3, ReceiveFacts
  <2>2. \A v \in Workers, y \in Ids :
           /\ Queued(v, NewConnection(y))' <=> Queued(v, NewConnection(y))
           /\ Queued(v, Disconnect(y))' => Queued(v, Disconnect(y))
           /\ Queued(v, Disconnect(y)) => Queued(v, Disconnect(y))' \/ (v = w /\ y = id)
    BY <2>1, MessageTypes
  <2> QED BY <1>1, <2>2, ReceiveFacts DEF OnlyDisconnectTaken
<1>6. ready' \in [Workers -> SUBSET Ids] /\ doomed' \in [Workers -> SUBSET Ids]
  BY <1>2 DEF IInv, InvTypes
<1>7. CASE id \in DOMAIN sockets[w]
  <2>1. close_socket(w, id, "evicted")
    BY <1>3, <1>7 DEF disconnect_peer
  <2>2. /\ InvTypes' /\ InvPlaces'
        /\ DOMAIN sockets'[w] = DOMAIN sockets[w] \ {id}
        /\ \A v \in Workers : v # w => sockets'[v] = sockets[v]
    BY <1>2, <1>4, <1>5, <1>6, <1>7, <2>1, CloseKeeps
  <2>3. InvPhases'
    BY <1>2, <1>4, <2>2 DEF IInv, InvPhases
  <2> QED BY <2>2, <2>3 DEF IInv
<1>8. CASE id \notin DOMAIN sockets[w]
  <2>1. UNCHANGED <<sockets, closing>>
    BY <1>3, <1>8 DEF disconnect_peer
  <2>2. ~Queued(w, NewConnection(id))
    BY <1>1, <1>3, ReceivedInOrder DEF IInv, InvPlaces
  <2>3. InvTypes' /\ InvPhases'
    BY <1>2, <1>5, <2>1 DEF IInv, InvTypes, InvPhases, OnlyDisconnectTaken
  <2>4. \A v \in Workers, y \in Ids : Has(v, y)' <=> Has(v, y)
    BY <1>5, <2>1 DEF Has, OnlyDisconnectTaken
  <2>5. InvOrder' /\ InvStopped'
    BY <1>2, <1>5, <2>1 DEF IInv, InvPlaces, InvStopped, OnlyDisconnectTaken
  <2>6. InvIssued'
    BY <1>2, <1>5, <2>4 DEF IInv, InvPlaces, InvIssued, OnlyDisconnectTaken
  <2>7. InvOwners'
    BY <1>2, <1>5, <2>1, <2>4 DEF IInv, InvPlaces, InvOwners, OnlyDisconnectTaken
  <2>8. InvIncoming' /\ InvEvicted'
    BY <1>2, <1>5, <2>4
    DEF IInv, InvPlaces, InvIncoming, InvEvicted, HandingOver, OnlyDisconnectTaken
  <2>9. EntriesAreBacked'
    BY <1>2, <1>5, <2>1 DEF IInv, InvTypes, InvPlaces, EntriesAreBacked, OnlyDisconnectTaken
  <2>10. SocketsAreCounted'
    BY <1>2, <1>5, <1>8, <2>1, <2>2 DEF IInv, InvPlaces, SocketsAreCounted, OnlyDisconnectTaken
  <2> QED BY <2>3, <2>5, <2>6, <2>7, <2>8, <2>9, <2>10 DEF IInv, InvPlaces
<1> QED BY <1>7, <1>8

\* An event only changes the phase of a peer or makes it leave.
LEMMA HandleEventKeeps ==
    ASSUME IInv, NEW w \in Workers, NEW id \in Ids, handle_event(w, id)
    PROVE  IInv'
<1>1. /\ alive[w] /\ closing[w] = NoClosing /\ doomed[w] = {} /\ wpc[w] = "events"
      /\ id \in ready[w] /\ id \in DOMAIN sockets[w]
  BY DEF handle_event, Free, IInv, InvPhases
<1>2. UNCHANGED <<peers, banned, next_peer, apc, next_worker, incoming, evicted, block, target,
                  queue, alive, wpc, doomed>>
  BY DEF handle_event, registry_vars, acceptor_vars
<1>3. ready' = [ready EXCEPT ![w] = @ \ {id}]
  BY DEF handle_event
<1>4. ready' \in [Workers -> SUBSET Ids] /\ doomed' \in [Workers -> SUBSET Ids]
  BY <1>2, <1>3 DEF IInv, InvTypes
<1>5. /\ ready'[w] = ready[w] \ {id}
      /\ \A v \in Workers : v # w => ready'[v] = ready[v]
  BY <1>3 DEF IInv, InvTypes
<1>6. ASSUME NEW done, sockets' = [sockets EXCEPT ![w][id].established = done],
             UNCHANGED closing
      PROVE  IInv'
  <2>1. DOMAIN sockets' = Workers /\ \A v \in Workers : DOMAIN sockets'[v] = DOMAIN sockets[v]
    BY <1>6 DEF IInv, InvTypes
  <2>2. InvTypes'
    BY <1>2, <1>4, <1>6, <2>1 DEF IInv, InvTypes
  <2>3. InvPhases'
    BY <1>1, <1>2, <1>5, <2>1 DEF IInv, InvPhases
  <2>4. InvPlaces'
    BY <1>2, <1>6, <2>1, Frame DEF IInv, HandingOver
  <2> QED BY <2>2, <2>3, <2>4 DEF IInv
<1>7. ASSUME NEW reason \in {"failed", "rate_limit"}, close_socket(w, id, reason)
      PROVE  IInv'
  <2>1. OnlyDisconnectTaken(w, id)
    BY <1>2, NothingTaken
  <2>2. reason \in {"failed", "rate_limit", "evicted"}
    OBVIOUS
  <2>3. /\ InvTypes' /\ InvPlaces'
        /\ DOMAIN sockets'[w] = DOMAIN sockets[w] \ {id}
        /\ \A v \in Workers : v # w => sockets'[v] = sockets[v]
    BY <1>1, <1>2, <1>4, <1>7, <2>1, <2>2, CloseKeeps
  <2>4. InvPhases'
    BY <1>1, <1>2, <1>5, <2>3 DEF IInv, InvPhases
  <2> QED BY <2>3, <2>4 DEF IInv
<1> QED BY <1>6, <1>7 DEF handle_event

\* A peer that leaves is closed before its entry is removed.
LEMMA RemovePeerKeeps ==
    ASSUME IInv, NEW w \in Workers, NEW id \in Ids, remove_peer(w, id)
    PROVE  IInv'
<1>1. /\ alive[w] /\ closing[w] = NoClosing /\ id \in doomed[w] /\ id \in DOMAIN sockets[w]
      /\ wpc[w] = "messages" /\ ready[w] = {}
  BY DEF remove_peer, IInv, InvPhases
<1>2. UNCHANGED <<peers, banned, next_peer, apc, next_worker, incoming, evicted, block, target,
                  queue, alive, wpc, ready>>
  BY DEF remove_peer, registry_vars, acceptor_vars
<1>3. doomed' = [doomed EXCEPT ![w] = @ \ {id}] /\ close_socket(w, id, "failed")
  BY DEF remove_peer
<1>4. ready' \in [Workers -> SUBSET Ids] /\ doomed' \in [Workers -> SUBSET Ids]
  BY <1>2, <1>3 DEF IInv, InvTypes
<1>5. /\ doomed'[w] = doomed[w] \ {id}
      /\ \A v \in Workers : v # w => doomed'[v] = doomed[v]
  BY <1>3 DEF IInv, InvTypes
<1>6. OnlyDisconnectTaken(w, id)
  BY <1>2, NothingTaken
<1>7. /\ InvTypes' /\ InvPlaces'
      /\ DOMAIN sockets'[w] = DOMAIN sockets[w] \ {id}
      /\ \A v \in Workers : v # w => sockets'[v] = sockets[v]
  BY <1>1, <1>2, <1>3, <1>4, <1>6, CloseKeeps
<1>8. InvPhases'
  BY <1>1, <1>2, <1>5, <1>7 DEF IInv, InvPhases
<1> QED BY <1>7, <1>8 DEF IInv

\* A ban keeps the table of banned addresses within its limit.
LEMMA BanTypes ==
    ASSUME InvTypes, NEW a \in Addresses, banned' \in BannedAfter(a)
    PROVE  /\ DOMAIN banned' \subseteq Addresses /\ IsFiniteSet(DOMAIN banned')
           /\ Cardinality(DOMAIN banned') <= MaxBanned
<1> DEFINE current == Without(banned, {b \in DOMAIN banned : banned[b] = 0})
           C == DOMAIN current
<1>1. C \subseteq DOMAIN banned
  BY DEF Without
<1>2. /\ C \subseteq Addresses /\ IsFiniteSet(C) /\ Cardinality(C) \in Nat
      /\ Cardinality(C) <= MaxBanned /\ MaxBanned \in Nat
  <2>1. /\ IsFiniteSet(DOMAIN banned) /\ Cardinality(DOMAIN banned) <= MaxBanned
        /\ DOMAIN banned \subseteq Addresses
    BY DEF InvTypes
  <2>2. IsFiniteSet(C) /\ Cardinality(C) <= Cardinality(DOMAIN banned)
    BY <1>1, <2>1, FS_Subset
  <2>3. Cardinality(C) \in Nat /\ Cardinality(DOMAIN banned) \in Nat
    BY <2>1, <2>2, FS_CardinalityType
  <2> QED BY <1>1, <2>1, <2>2, <2>3, LimitsAssumption
<1>3. ASSUME NEW b \in C
      PROVE  /\ IsFiniteSet((C \ {b}) \cup {a})
             /\ Cardinality((C \ {b}) \cup {a}) <= Cardinality(C)
  <2>1. IsFiniteSet(C \ {b}) /\ Cardinality(C \ {b}) = Cardinality(C) - 1
    BY <1>2, Sizes
  <2>2. /\ IsFiniteSet((C \ {b}) \cup {a})
        /\ Cardinality((C \ {b}) \cup {a}) <= Cardinality(C \ {b}) + 1
    BY <2>1, Sizes
  <2>3. Cardinality((C \ {b}) \cup {a}) \in Nat
    BY <2>2, FS_CardinalityType
  <2> QED BY <1>2, <2>1, <2>2, <2>3
<1> HIDE DEF C
<1>4. CASE Cardinality(C) < MaxBanned
  <2>1. banned' = With(current, a, BanTicks)
    BY <1>4 DEF BannedAfter, C
  <2>2. DOMAIN banned' = C \cup {a}
    BY <2>1 DEF With, C
  <2>3. /\ IsFiniteSet(C \cup {a}) /\ Cardinality(C \cup {a}) <= Cardinality(C) + 1
    BY <1>2, Sizes
  <2>4. Cardinality(C \cup {a}) \in Nat
    BY <2>3, FS_CardinalityType
  <2> QED BY <1>2, <1>4, <2>2, <2>3, <2>4
<1>5. CASE ~(Cardinality(C) < MaxBanned)
  <2>1. PICK b \in C : banned' = With(Without(current, {b}), a, BanTicks)
    BY <1>5 DEF BannedAfter, C
  <2>2. DOMAIN banned' = (C \ {b}) \cup {a}
    BY <2>1 DEF With, Without, C
  <2>3. Cardinality((C \ {b}) \cup {a}) \in Nat
    BY <1>3, FS_CardinalityType
  <2> QED BY <1>2, <1>3, <2>2, <2>3
<1> QED BY <1>4, <1>5

\* The registry forgets a peer that no worker has any more.
LEMMA RecordKeeps ==
    ASSUME IInv, NEW w \in Workers, record_disconnect(w)
    PROVE  IInv'
<1> DEFINE id == closing[w].id
<1>1. /\ closing[w] # NoClosing /\ closing' = [closing EXCEPT ![w] = NoClosing]
      /\ peers' = Without(peers, {id})
      /\ UNCHANGED <<next_peer, apc, next_worker, incoming, evicted, block, target, queue,
                     alive, wpc, sockets, ready, doomed>>
  BY DEF record_disconnect, acceptor_vars
<1>2. id \in Ids /\ Nobody \notin Ids /\ NoClosing.id = Nobody
  <2>1. id \in 0 .. MaxConnections /\ id # Nobody
    BY <1>1 DEF IInv, InvTypes
  <2> QED BY <2>1, LimitsAssumption DEF Ids, Nobody, NoClosing
<1>3. /\ DOMAIN peers' = DOMAIN peers \ {id}
      /\ \A y \in DOMAIN peers' : peers'[y] = peers[y]
  BY <1>1 DEF Without
<1>4. /\ closing'[w] = NoClosing /\ \A v \in Workers : v # w => closing'[v] = closing[v]
      /\ closing' \in [Workers -> [id : 0 .. MaxConnections,
                                   reason : {"none", "failed", "rate_limit", "evicted"}]]
  <2>1. NoClosing \in [id : 0 .. MaxConnections,
                       reason : {"none", "failed", "rate_limit", "evicted"}]
    BY LimitsAssumption DEF NoClosing, Nobody
  <2> QED BY <1>1, <2>1 DEF IInv, InvTypes
<1>5. /\ DOMAIN banned' \subseteq Addresses /\ IsFiniteSet(DOMAIN banned')
      /\ Cardinality(DOMAIN banned') <= MaxBanned
  <2>1. CASE closing[w].reason = "rate_limit" /\ id \in DOMAIN peers
    <3>1. banned' \in BannedAfter(peers[id].address) /\ peers[id].address \in Addresses
      BY <2>1 DEF record_disconnect, IInv, InvTypes
    <3> QED BY <3>1, BanTypes DEF IInv
  <2>2. CASE ~(closing[w].reason = "rate_limit" /\ id \in DOMAIN peers)
    BY <2>2 DEF record_disconnect, IInv, InvTypes
  <2> QED BY <2>1, <2>2
<1>6. Cardinality(DOMAIN peers') <= MaxPeers
  <2>1. IsFiniteSet(DOMAIN peers)
    BY FiniteIds DEF IInv, InvTypes
  <2>2. /\ Cardinality(DOMAIN peers') <= Cardinality(DOMAIN peers)
        /\ Cardinality(DOMAIN peers') \in Nat /\ Cardinality(DOMAIN peers) \in Nat
    BY <1>3, <2>1, FS_Subset, FS_CardinalityType
  <2> QED BY <2>2, LimitsAssumption DEF IInv, InvTypes
<1> HIDE DEF id
<1>7. InvTypes'
  <2>1. \A v \in Workers : closing'[v].id = Nobody => closing'[v] = NoClosing
    BY <1>4 DEF IInv, InvTypes
  <2> QED BY <1>1, <1>3, <1>4, <1>5, <1>6, <2>1 DEF IInv, InvTypes
<1>8. InvPhases'
  BY <1>1 DEF IInv, InvPhases
<1>9. \A v \in Workers : \A x : Queued(v, x)' <=> Queued(v, x)
  BY <1>1 DEF Queued
<1>10. \A v \in Workers, y \in Ids : Has(v, y)' => Has(v, y)
  BY <1>1, <1>2, <1>4, <1>9 DEF Has
<1>11. \A v \in Workers : id \notin DOMAIN sockets[v] /\ ~Queued(v, NewConnection(id))
  <2>1. Has(w, id)
    BY DEF Has, id
  <2>2. id \notin DOMAIN sockets[w] /\ ~Queued(w, NewConnection(id))
    BY <1>2 DEF IInv, InvPlaces, InvOwners, id
  <2> QED BY <1>2, <2>1, <2>2 DEF IInv, InvPlaces, InvOwners, Has
<1>12. InvOrder' /\ InvStopped'
  BY <1>1 DEF IInv, InvPlaces, InvOrder, InvStopped
<1>13. InvIssued'
  BY <1>1, <1>3, <1>9, <1>10 DEF IInv, InvPlaces, InvIssued
<1>14. InvOwners'
  <2>1. \A v \in Workers, y \in Ids : closing'[v].id = y => closing[v].id = y
    BY <1>2, <1>4
  <2>2. \A v \in Workers, y \in Ids :
           /\ Has(v, y) /\ y \in DOMAIN peers => peers[y].worker = v
           /\ \A u \in Workers : Has(v, y) /\ Has(u, y) => u = v
    BY Zenon DEF IInv, InvPlaces, InvOwners
  <2>3. \A v \in Workers, y \in Ids :
           /\ ~(y \in DOMAIN sockets[v] /\ Queued(v, NewConnection(y)))
           /\ ~(y \in DOMAIN sockets[v] /\ closing[v].id = y)
           /\ ~(Queued(v, NewConnection(y)) /\ closing[v].id = y)
    BY DEF IInv, InvPlaces, InvOwners
  <2> QED BY <1>1, <1>3, <1>9, <1>10, <2>1, <2>2, <2>3, ZenonT(30) DEF InvOwners
<1>15. InvIncoming' /\ InvEvicted'
  <2>1. HandingOver => incoming.id # id
    BY DEF IInv, InvPlaces, InvIncoming, Has, id
  <2> QED BY <1>1, <1>3, <1>9, <1>10, <2>1
          DEF IInv, InvPlaces, InvIncoming, InvEvicted, HandingOver
<1>16. EntriesAreBacked'
  <2>1. ASSUME NEW y \in DOMAIN peers'
        PROVE  /\ y \in DOMAIN peers /\ y # id /\ peers'[y] = peers[y]
               /\ peers[y].worker \in Workers
    BY <1>3 DEF IInv, InvTypes
  <2>2. ASSUME NEW y \in DOMAIN peers', NEW v \in Workers, closing[v].id = y
        PROVE  closing'[v].id = y
    BY <1>4, <2>1, <2>2 DEF id
  <2> QED BY <1>1, <1>9, <2>1, <2>2 DEF IInv, InvPlaces, EntriesAreBacked
<1>17. SocketsAreCounted'
  BY <1>1, <1>3, <1>9, <1>11 DEF IInv, InvPlaces, SocketsAreCounted
<1> QED BY <1>7, <1>8, <1>12, <1>13, <1>14, <1>15, <1>16, <1>17 DEF IInv, InvPlaces

\* A thread that ends drops its sockets and its channel; its entries stay in the
\* registry, backed by nothing.
LEMMA StopKeeps ==
    ASSUME IInv, NEW w \in Workers, poll_error(w) \/ channel_closed(w)
    PROVE  IInv'
<1>1. /\ closing[w] = NoClosing /\ stop(w)
  BY DEF poll_error, channel_closed, Polling, Receiving, Free
<1>2. UNCHANGED <<peers, banned, next_peer, apc, next_worker, incoming, evicted, block, target,
                  wpc, ready, doomed, closing>>
  BY <1>1 DEF stop, registry_vars, acceptor_vars
<1>3. /\ DOMAIN sockets' = Workers /\ DOMAIN sockets'[w] = {}
      /\ queue' \in [Workers -> Seq(Messages)] /\ queue'[w] = << >> /\ Len(queue'[w]) = 0
      /\ alive' \in [Workers -> BOOLEAN] /\ alive'[w] = FALSE
      /\ \A v \in Workers : v # w => /\ sockets'[v] = sockets[v]
                                     /\ queue'[v] = queue[v] /\ alive'[v] = alive[v]
  BY <1>1 DEF stop, IInv, InvTypes
<1>4. Nobody \notin Ids /\ NoClosing.id = Nobody
  BY LimitsAssumption DEF Nobody, Ids, NoClosing
<1>5. InvTypes'
  <2>1. 0 <= QueueCapacity
    BY LimitsAssumption
  <2>2. \A v \in Workers : Len(queue'[v]) <= QueueCapacity /\ DOMAIN sockets'[v] \subseteq Ids
    BY <1>3, <2>1 DEF IInv, InvTypes
  <2> QED BY <1>2, <1>3, <2>2 DEF IInv, InvTypes
<1>6. InvPhases'
  BY <1>2, <1>3 DEF IInv, InvPhases
<1>7. \A v \in Workers : \A x : Queued(v, x)' <=> v # w /\ Queued(v, x)
  <2>1. \A x : ~Queued(w, x)'
    <3>1. 1 .. Len(queue'[w]) = {}
      BY <1>3
    <3> QED BY <3>1, Zenon DEF Queued
  <2>2. ASSUME NEW v \in Workers, v # w
        PROVE  \A x : Queued(v, x)' <=> Queued(v, x)
    <3>1. queue'[v] = queue[v]
      BY <1>3, <2>2
    <3> QED BY <3>1, Zenon DEF Queued
  <2> QED BY <2>1, <2>2, Zenon
<1>8. \A v \in Workers, y \in Ids : Has(v, y)' <=> v # w /\ Has(v, y)
  BY <1>1, <1>2, <1>3, <1>4, <1>7 DEF Has
<1>9. InvStopped'
  BY <1>3 DEF IInv, InvPlaces, InvStopped
<1>10. InvIssued'
  BY <1>2, <1>7, <1>8 DEF IInv, InvPlaces, InvIssued
<1>11. InvOwners'
  <2>1. \A v \in Workers : DOMAIN sockets'[v] \subseteq DOMAIN sockets[v]
    BY <1>3
  <2> QED BY <1>2, <1>7, <1>8, <2>1, SMTT(30) DEF IInv, InvPlaces, InvOwners
<1>12. InvOrder'
  BY <1>3 DEF IInv, InvPlaces, InvOrder
<1>13. InvIncoming' /\ InvEvicted'
  BY <1>2, <1>3, <1>7, <1>8 DEF IInv, InvPlaces, InvIncoming, InvEvicted, HandingOver
<1>14. EntriesAreBacked'
  <2>1. \A y \in DOMAIN peers : peers[y].worker \in Workers
    BY DEF IInv, InvTypes
  <2> QED BY <1>2, <1>3, <1>7, <2>1 DEF IInv, InvPlaces, EntriesAreBacked
<1>15. SocketsAreCounted'
  <2>1. ASSUME NEW v \in Workers, NEW y \in Ids,
               y \in DOMAIN sockets'[v] \/ Queued(v, NewConnection(y))'
        PROVE  /\ v # w
               /\ y \in DOMAIN sockets[v] \/ Queued(v, NewConnection(y))
    BY <1>3, <1>7, <2>1
  <2> QED BY <1>2, <1>7, <2>1 DEF IInv, InvPlaces, SocketsAreCounted
<1> QED BY <1>5, <1>6, <1>9, <1>10, <1>11, <1>12, <1>13, <1>14, <1>15 DEF IInv, InvPlaces

-----------------------------------------------------------------------------
(* The theorems *)

\* The invariant holds initially.
LEMMA InitIInv == Init => IInv
<1> SUFFICES ASSUME Init PROVE IInv
  OBVIOUS
<1>1. /\ DOMAIN peers = {} /\ DOMAIN banned = {}
      /\ \A w \in Workers : /\ DOMAIN sockets[w] = {} /\ queue[w] = << >>
                            /\ Len(queue[w]) = 0 /\ closing[w] = NoClosing
                            /\ \A x : ~Queued(w, x)
      /\ apc = "accept"
  BY DEF Init, Queued
<1>2. Cardinality({}) = 0 /\ IsFiniteSet({})
  BY FS_EmptySet
<1>3. Nobody \notin Ids /\ NoClosing.id = Nobody
  BY LimitsAssumption DEF Nobody, Ids, NoClosing
<1>4. NoClosing \in [id : 0 .. MaxConnections,
                     reason : {"none", "failed", "rate_limit", "evicted"}]
  BY LimitsAssumption DEF NoClosing, Nobody
<1>5. 0 \in Workers /\ 0 \in 0 .. MaxConnections
  BY LimitsAssumption DEF Workers
<1>6. InvTypes
  <2>1. Cardinality(DOMAIN peers) <= MaxPeers /\ Cardinality(DOMAIN banned) <= MaxBanned
    BY <1>1, <1>2, LimitsAssumption
  <2>2. \A w \in Workers : Len(queue[w]) <= QueueCapacity
    BY <1>1, LimitsAssumption
  <2>3. /\ queue \in [Workers -> Seq(Messages)] /\ alive \in [Workers -> BOOLEAN]
        /\ wpc \in [Workers -> {"messages", "events"}] /\ DOMAIN sockets = Workers
        /\ ready \in [Workers -> SUBSET Ids] /\ doomed \in [Workers -> SUBSET Ids]
    BY DEF Init
  <2>4. closing \in [Workers -> [id : 0 .. MaxConnections,
                                 reason : {"none", "failed", "rate_limit", "evicted"}]]
    BY <1>4 DEF Init
  <2>5. /\ next_peer \in 0 .. MaxConnections /\ next_worker \in Workers /\ target \in Workers
        /\ block \in BOOLEAN
    BY <1>5 DEF Init
  <2> QED BY <1>1, <1>2, <2>1, <2>2, <2>3, <2>4, <2>5 DEF InvTypes
<1>7. InvPhases
  BY DEF InvPhases, Init
<1>8. \A w \in Workers, id \in Ids : ~Has(w, id)
  BY <1>1, <1>3 DEF Has
<1>9. InvStopped /\ InvIssued /\ InvOwners /\ InvOrder
  BY <1>1, <1>8 DEF InvStopped, InvIssued, InvOwners, InvOrder
<1>10. InvIncoming /\ InvEvicted
  BY <1>1 DEF InvIncoming, InvEvicted, HandingOver
<1>11. EntriesAreBacked /\ SocketsAreCounted
  BY <1>1 DEF EntriesAreBacked, SocketsAreCounted
<1> QED BY <1>6, <1>7, <1>9, <1>10, <1>11 DEF IInv, InvPlaces

\* Stuttering keeps the invariant.
LEMMA StutterKeeps ==
    ASSUME IInv, UNCHANGED vars
    PROVE  IInv'
<1> USE DEF vars, registry_vars, acceptor_vars, worker_vars
<1>1. InvTypes' /\ InvPhases'
  BY DEF IInv, InvTypes, InvPhases
<1>2. InvPlaces'
  BY Frame DEF IInv, HandingOver
<1> QED BY <1>1, <1>2 DEF IInv

\* Every step keeps the invariant.
LEMMA NextKeeps ==
    ASSUME IInv, [Next]_vars
    PROVE  IInv'
<1>1. CASE Acceptor
  BY <1>1, RejectKeeps, AdmitKeeps, SendDisconnectKeeps, SendConnectionKeeps, BroadcastKeeps,
     AcceptorWaitKeeps DEF Acceptor
<1>2. ASSUME NEW w \in Workers, Worker(w) PROVE IInv'
  BY <1>2, AddPeerKeeps, DisconnectKeeps, AnnounceKeeps, PollKeeps, HandleEventKeeps,
     ExpireKeeps, RemovePeerKeeps, RecordKeeps, StopKeeps DEF Worker
<1>3. ASSUME NEW w \in Workers, poll_error(w) PROVE IInv'
  BY <1>3, StopKeeps
<1>4. CASE acceptor_stop \/ notify_block
  BY <1>4, AcceptorWaitKeeps
<1>5. CASE tick
  BY <1>5, TickKeeps
<1>6. CASE UNCHANGED vars
  BY <1>6, StutterKeeps
<1> QED BY <1>1, <1>2, <1>3, <1>4, <1>5, <1>6 DEF Next

\* The invariant is inductive: registry, channels and sockets correspond in every
\* reachable state, whatever the order in which the threads run.
THEOREM Inductive == Spec => []IInv
<1>1. Init => IInv
  BY InitIInv
<1>2. IInv /\ [Next]_vars => IInv'
  BY NextKeeps
<1> QED BY <1>1, <1>2, PTL DEF Spec

\* The registry never has more than MAX_PEERS entries, the ban table never more
\* than MAX_BANNED_PEERS, a channel never more than its capacity, and a worker
\* only ever handles events of sockets that it still has.
THEOREM TypeCorrect == Spec => []TypeOK
<1>1. IInv => TypeOK
  BY DEF IInv, InvTypes, InvPhases, TypeOK
<1> QED BY <1>1, Inductive, PTL

\* No entry of the registry outlives its socket, except those of a worker whose
\* thread ended: the places that PeerRegistry counts are not leaked by an
\* eviction, a failed registration or a closed socket.
THEOREM EntriesBacked == Spec => []EntriesAreBacked
<1>1. IInv => EntriesAreBacked
  BY DEF IInv, InvPlaces
<1> QED BY <1>1, Inductive, PTL

\* No socket outlives its entry, except those that a disconnection is already on
\* its way to: an eviction that replaces a peer always reaches the worker that
\* has it, even while the connection itself is still in the channel.
THEOREM SocketsCounted == Spec => []SocketsAreCounted
<1>1. IInv => SocketsAreCounted
  BY DEF IInv, InvPlaces
<1> QED BY <1>1, Inductive, PTL

\* An admission leaves every prefix that has a peer with one.
LEMMA AdmissionKeepsPrefixes ==
    ASSUME IInv, NEW a \in Addresses, admit(a), NEW id \in DOMAIN peers
    PROVE  \E new \in DOMAIN peers' : Prefix[peers'[new].address] = prefix_of(id)
<1>1. ASSUME NEW kept, insert(kept, a), NEW other \in DOMAIN kept, other \in DOMAIN peers,
             kept[other] = peers[other], prefix_of(other) = prefix_of(id)
      PROVE  other \in DOMAIN peers' /\ Prefix[peers'[other].address] = prefix_of(id)
  <2>1. Admitted(kept, a)
    BY <1>1, InsertAdmits DEF IInv
  <2>2. other # next_peer
    BY <1>1, <2>1, NewIsNowhere DEF IInv, Admitted
  <2> QED BY <1>1, <2>1, <2>2 DEF Admitted, prefix_of
<1>2. CASE insert(peers, a)
  BY <1>1, <1>2
<1>3. ASSUME NEW gone \in Evictable, insert(Without(peers, {gone}), a)
      PROVE  \E new \in DOMAIN peers' : Prefix[peers'[new].address] = prefix_of(id)
  <2> DEFINE kept == Without(peers, {gone})
  <2>1. DOMAIN kept = DOMAIN peers \ {gone} /\ \A y \in DOMAIN kept : kept[y] = peers[y]
    BY DEF Without
  <2>2. PICK other \in DOMAIN peers : other # gone /\ prefix_of(other) = prefix_of(id)
    <3>1. CASE id # gone
      BY <3>1
    <3>2. CASE id = gone
      BY <3>2, EvictableFacts DEF IInv
    <3> QED BY <3>1, <3>2
  <2>3. other \in DOMAIN kept /\ kept[other] = peers[other]
    BY <2>1, <2>2
  <2> HIDE DEF kept
  <2>4. insert(kept, a)
    BY <1>3 DEF kept
  <2> QED BY <1>1, <2>2, <2>3, <2>4
<1> QED BY <1>2, <1>3 DEF admit

\* The acceptor leaves its loop of connections by an admission, or without one.
LEMMA OnlyAdmissionHandsOver ==
    ASSUME [Next]_vars, apc = "accept", apc' \in {"evict", "send"}
    PROVE  \E a \in Addresses : admit(a)
<1>1. CASE Acceptor
  BY <1>1 DEF Acceptor, reject, send_disconnect, send_connection, accept_done, broadcast_block,
              broadcast_done
<1>2. ASSUME NEW w \in Workers, Worker(w) \/ poll_error(w)
      PROVE  UNCHANGED apc
  BY <1>2 DEF Worker, add_peer, disconnect_peer, announce_block, poll, handle_event,
              expire_handshakes, remove_peer, record_disconnect, channel_closed, poll_error,
              stop, acceptor_vars
<1>3. CASE acceptor_stop \/ tick \/ notify_block \/ UNCHANGED vars
  BY <1>3 DEF acceptor_stop, tick, notify_block, acceptor_vars, vars
<1> QED BY <1>1, <1>2, <1>3 DEF Next

\* Making room for a connection never takes the last peer of a network prefix,
\* however the registry is filled: PeerRegistry.admit only ever gives up a peer
\* that is not alone in its prefix.
THEOREM PrefixesStay == Spec => PrefixesKept
<1> DEFINE Kept == apc = "accept" /\ apc' \in {"evict", "send"} =>
                     \A id \in DOMAIN peers : \E new \in DOMAIN peers' :
                        Prefix[peers'[new].address] = prefix_of(id)
<1>1. IInv /\ [Next]_vars => [Kept]_vars
  BY OnlyAdmissionHandsOver, AdmissionKeepsPrefixes
<1>2. Spec => [][Kept]_vars
  BY <1>1, Inductive, PTL DEF Spec
<1> QED BY <1>2 DEF PrefixesKept
=============================================================================
