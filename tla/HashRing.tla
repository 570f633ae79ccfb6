------------------------------- MODULE HashRing ------------------------------
(***************************************************************************)
(* broker::ConsistentHashRing: the points of every partition's virtual     *)
(* nodes on a ring; a key belongs to the partition of the first point at   *)
(* or after its hash.  A key stands here for its hash.                     *)
(***************************************************************************)
EXTENDS Integers

CONSTANTS
  Partitions,
  VirtualNodes,  \* 0 .. virtual_nodes_ - 1
  MaxHash        \* the greatest hash

VARIABLES
  ring,              \* ring_ : the partition at each point
  hash_virtual_node  \* the hash of a partition's virtual node

ringVars == <<ring, hash_virtual_node>>

Hashes == 0 .. MaxHash

Points(p) == {hash_virtual_node[<<p, v>>] : v \in VirtualNodes}

add_partition(p) ==
  /\ ring' = [h \in DOMAIN ring \cup Points(p) |-> IF h \in Points(p) THEN p ELSE ring[h]]
  /\ UNCHANGED hash_virtual_node

\* Mutant: the loop begins at 1.
RemoveShort(p) ==
  /\ ring' = [h \in DOMAIN ring \ {hash_virtual_node[<<p, v>>] : v \in VirtualNodes \ {0}} |-> ring[h]]
  /\ UNCHANGED hash_virtual_node

remove_partition(p) ==
  /\ ring' = [h \in DOMAIN ring \ Points(p) |-> ring[h]]
  /\ UNCHANGED hash_virtual_node

\* x is the point partition_for finds for a key: lower_bound, or the smallest
\* point if there is none at or after the key.
Finds(r, key, x) ==
  /\ x \in DOMAIN r
  /\ \/ x >= key /\ \A y \in DOMAIN r : y >= key => x <= y
     \/ \A y \in DOMAIN r : y < key /\ x <= y

\* partition_for(key) returns p on the ring r.
partition_for(r, key, p) == \E x \in DOMAIN r : Finds(r, key, x) /\ r[x] = p

\* std::hash tells the virtual nodes apart.
NoCollisions ==
  \A a, b \in Partitions \X VirtualNodes : hash_virtual_node[a] = hash_virtual_node[b] => a = b

RingInit ==
  /\ hash_virtual_node \in [Partitions \X VirtualNodes -> Hashes]
  /\ NoCollisions
  /\ ring = [h \in {} |-> 0]

RingNext == \E p \in Partitions : add_partition(p) \/ remove_partition(p)

RingSpec == RingInit /\ [][RingNext]_ringVars

\* "only that partition's virtual-node ranges move -- keys elsewhere on the ring
\* are unaffected": if a step gives a key another partition, then either the
\* new one was not on the ring before or the old one is not on it any more.
RemapMinimal ==
  [][\A key \in Hashes : \A p, q \in Partitions :
       partition_for(ring, key, p) /\ partition_for(ring', key, q) /\ p # q =>
         (\A x \in DOMAIN ring : ring[x] # q) \/ (\A x \in DOMAIN ring' : ring'[x] # p)]_ringVars
=============================================================================
