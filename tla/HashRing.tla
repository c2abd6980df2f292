------------------------------ MODULE HashRing ------------------------------
(* The consistent-hash ring of routing/consistentHashRing.ts. hash32, the first
   32 bits of a SHA-1, is any function that gives the virtual nodes different
   positions: two of them collide with probability 2^-32. *)
EXTENDS Naturals, FiniteSets, Sequences, SequencesExt

CONSTANTS Replicas, Keys, VirtualNodes,
    NodeHash,  \* hash32 of "replica#vnode"
    KeyHash    \* hash32 of a session's id

ASSUME HashRingAssumption ==
    /\ VirtualNodes \in Nat \ {0}
    /\ NodeHash \in [Replicas \X (1 .. VirtualNodes) -> Nat]
    /\ KeyHash \in [Keys -> Nat]
    /\ IsInjective(NodeHash)

\* A node hashed by its replica's place in the list instead of its id.
RingNodesByPlace(replicaIds) ==
    LET place[i \in DOMAIN replicaIds] == SetToSeq(Replicas)[i] IN
    { [hash |-> NodeHash[<< place[i], vnode >>], replica |-> replicaIds[i]] :
          i \in DOMAIN replicaIds, vnode \in 1 .. VirtualNodes }

\* The virtual nodes of a list of replicas.
RingNodes(replicaIds) ==
    { [hash |-> NodeHash[<< replicaIds[i], vnode >>], replica |-> replicaIds[i]] :
          i \in DOMAIN replicaIds, vnode \in 1 .. VirtualNodes }

\* new ConsistentHashRing(replicaIds): the nodes sorted by their positions.
Ring(replicaIds) ==
    LET nodes == RingNodes(replicaIds)
    IN [place \in 1 .. Cardinality(nodes) |->
           CHOOSE node \in nodes :
               Cardinality({ other \in nodes : other.hash < node.hash }) = place - 1]

\* Binary search: the index, from 0, of the first node that is not behind.
Search(ring, Behind(_)) ==
    LET search[bounds \in (0 .. Len(ring)) \X (0 .. Len(ring))] ==
            LET lower == bounds[1]
                upper == bounds[2]
                mid == (lower + upper) \div 2
            IN IF lower >= upper THEN lower
               ELSE IF Behind(ring[mid + 1]) THEN search[<< mid + 1, upper >>]
                    ELSE search[<< lower, mid >>]
    IN search[<< 0, Len(ring) >>]

\* Skips a node that stands exactly where the key hashes.
FirstAfter(ring, target) == Search(ring, LAMBDA node : node.hash <= target)

FirstAtOrAfter(ring, target) == Search(ring, LAMBDA node : node.hash < target)

OwnerOf(replicaIds, key) ==
    LET ring == Ring(replicaIds)
    IN ring[(FirstAtOrAfter(ring, KeyHash[key]) % Len(ring)) + 1].replica

\* The definition the search must agree with: the nearest node clockwise.
ClockwiseOwner(replicaIds, key) ==
    LET nodes == RingNodes(replicaIds)
        ahead == { node \in nodes : node.hash >= KeyHash[key] }
        candidates == IF ahead = {} THEN nodes ELSE ahead
    IN (CHOOSE node \in candidates : \A other \in candidates : node.hash <= other.hash).replica
=============================================================================
