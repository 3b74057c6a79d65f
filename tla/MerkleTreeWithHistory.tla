----------------------- MODULE MerkleTreeWithHistory -----------------------
(***************************************************************************)
(* MerkleTreeWithHistory.sol: the append-only tree of deposit commitments. *)
(* Only the path of the next leaf is stored (filledSubtrees), and a ring   *)
(* of ROOT_HISTORY_SIZE roots.  MiMC is an uninterpreted HashLeftRight.    *)
(***************************************************************************)
EXTENDS Integers, Sequences

CONSTANTS
    Levels,                  \* height of the tree
    ROOT_HISTORY_SIZE,
    Leaf,                    \* 32-byte words offered as leaves
    FieldElement,            \* the leaves smaller than FIELD_SIZE
    ZERO_VALUE,              \* the leaf of an empty position
    Unset,                   \* bytes32(0), the value of a root never written
    HashLeftRight(_, _)      \* MiMC sponge of two field elements

ASSUME MerkleAssumption ==
    /\ Levels \in 1 .. 31
    /\ ROOT_HISTORY_SIZE \in Nat \ {0}
    /\ FieldElement \subseteq Leaf

VARIABLES
    filledSubtrees,          \* [0 .. Levels-1 -> node]
    roots,                   \* [0 .. ROOT_HISTORY_SIZE-1 -> node]
    currentRootIndex,
    nextIndex,
    leaves                   \* history: the sequence of inserted leaves

merkleVars == <<filledSubtrees, roots, currentRootIndex, nextIndex, leaves>>

\* zeros(i): the root of an empty subtree of height i.
Zeros[i \in 0 .. Levels] ==
    IF i = 0 THEN ZERO_VALUE ELSE HashLeftRight(Zeros[i - 1], Zeros[i - 1])

MerkleInit ==
    /\ filledSubtrees = [i \in 0 .. Levels - 1 |-> Zeros[i]]
    /\ roots = [i \in 0 .. ROOT_HISTORY_SIZE - 1 |->
                  IF i = 0 THEN Zeros[Levels - 1] ELSE Unset]
    /\ currentRootIndex = 0
    /\ nextIndex = 0
    /\ leaves = <<>>

\* Mutant of ClimbLevel: a left node is not remembered.
ClimbLevelForgetful(w, i) ==
    [hash |-> IF w.index % 2 = 0 THEN HashLeftRight(w.hash, Zeros[i])
                                 ELSE HashLeftRight(w.filled[i], w.hash),
     index |-> w.index \div 2,
     filled |-> w.filled]

\* One turn of the loop of _insert, at level i: w holds currentLevelHash,
\* currentIndex and filledSubtrees.
ClimbLevel(w, i) ==
    IF w.index % 2 = 0
    THEN [hash |-> HashLeftRight(w.hash, Zeros[i]),
          index |-> w.index \div 2,
          filled |-> [w.filled EXCEPT ![i] = w.hash]]
    ELSE [hash |-> HashLeftRight(w.filled[i], w.hash),
          index |-> w.index \div 2,
          filled |-> w.filled]

Climb(leaf) ==
    LET at[i \in 0 .. Levels] ==
            IF i = 0
            THEN [hash |-> leaf, index |-> nextIndex, filled |-> filledSubtrees]
            ELSE ClimbLevel(at[i - 1], i - 1)
    IN  at[Levels]

\* The requires of _insert; hashLeftRight rejects a leaf outside the field.
CanInsert(leaf) == nextIndex # 2 ^ Levels /\ leaf \in FieldElement

Insert(leaf) ==
    LET top == Climb(leaf)
        newRootIndex == (currentRootIndex + 1) % ROOT_HISTORY_SIZE
    IN  /\ CanInsert(leaf)
        /\ filledSubtrees' = top.filled
        /\ currentRootIndex' = newRootIndex
        /\ roots' = [roots EXCEPT ![newRootIndex] = top.hash]
        /\ nextIndex' = nextIndex + 1
        /\ leaves' = Append(leaves, leaf)

\* Mutant of IsKnownRoot: stops one entry too early.
IsKnownRootShort(root) ==
    /\ root # Unset
    /\ \E k \in 0 .. ROOT_HISTORY_SIZE - 2 :
          root = roots[(currentRootIndex - k) % ROOT_HISTORY_SIZE]

\* isKnownRoot walks the ring backwards from the current root.
IsKnownRoot(root) ==
    /\ root # Unset
    /\ \E k \in 0 .. ROOT_HISTORY_SIZE - 1 :
          root = roots[(currentRootIndex - k) % ROOT_HISTORY_SIZE]

GetLastRoot == roots[currentRootIndex]

MerkleNext == \E l \in Leaf : Insert(l)

MerkleSpec == MerkleInit /\ [][MerkleNext]_merkleVars

-----------------------------------------------------------------------------
(* Properties.                                                             *)

\* Reference: the root of the complete tree over ls, padded with ZERO_VALUE,
\* computed level by level.
TreeRoot(ls) ==
    LET level[h \in 0 .. Levels] ==
            [k \in 0 .. 2 ^ (Levels - h) - 1 |->
                IF h = 0
                THEN IF k < Len(ls) THEN ls[k + 1] ELSE ZERO_VALUE
                ELSE HashLeftRight(level[h - 1][2 * k], level[h - 1][2 * k + 1])]
    IN  level[Levels][0]

\* What an ideal hash gives, and KnownRootsAreTheRecentOnes rests on: the root
\* of no tree is that of an earlier one, the empty root or bytes32(0).
CollisionFree ==
    \A s \in UNION {[1 .. n -> FieldElement] : n \in 1 .. 2 ^ Levels} :
        /\ TreeRoot(s) \notin {Unset, Zeros[Levels - 1]}
        /\ \A n \in 1 .. Len(s) - 1 : TreeRoot(SubSeq(s, 1, n)) # TreeRoot(s)

\* Indices stay inside the ring and the tree, and count the leaves.
MerkleTypeOK ==
    /\ currentRootIndex \in 0 .. ROOT_HISTORY_SIZE - 1
    /\ nextIndex \in 0 .. 2 ^ Levels
    /\ nextIndex = Len(leaves)

\* The incremental algorithm is right: after any insertion the last root is
\* the root of the complete tree, computed from scratch.
LastRootIsTreeRoot == leaves # <<>> => GetLastRoot = TreeRoot(leaves)

\* The tree is sound past a full tree and past the wrap of the ring of roots:
\* both indices stay in range and the last root is the root of all leaves.
MerkleInv == MerkleTypeOK /\ LastRootIsTreeRoot

\* A root stays known for exactly ROOT_HISTORY_SIZE insertions: every deposit
\* made against a recent root can still be proved, and an evicted root is
\* never accepted again.
KnownRootsAreTheRecentOnes ==
    \A n \in 1 .. Len(leaves) :
        IsKnownRoot(TreeRoot(SubSeq(leaves, 1, n)))
            <=> n > Len(leaves) - ROOT_HISTORY_SIZE
=============================================================================
