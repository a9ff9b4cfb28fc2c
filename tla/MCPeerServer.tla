---------------------------- MODULE MCPeerServer ----------------------------
(* PeerServer with few peers. *)
EXTENDS PeerServer, TLC

\* Every address has a prefix of its own; several connections may come from it.
OwnPrefix == [a \in Addresses |-> a]

AddressSymmetry == Permutations(Addresses)
=============================================================================
