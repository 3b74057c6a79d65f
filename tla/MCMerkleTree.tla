---------------------------- MODULE MCMerkleTree ----------------------------
(* A tree of height 3 with a ring of 3 roots: the ring wraps before the    *)
(* tree is full.  The hash is the free constructor (no collisions).        *)
EXTENDS MerkleTreeWithHistory, TLC

MCHash(l, r) == <<l, r>>

ASSUME HashAssumption == CollisionFree
=============================================================================
