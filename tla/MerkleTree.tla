------------------------------ MODULE MerkleTree ------------------------------
(***************************************************************************)
(* The Merkle trees of pkg/crypto.  SHA-256 is taken to be free of         *)
(* collisions, so a hash is the value that was hashed; a pair is sorted    *)
(* before it is hashed, so a parent is the unordered pair of its children. *)
(***************************************************************************)
EXTENDS Naturals, Sequences, SequencesExt

Leaf(data) == <<"leaf", data>>
Parent(a, b) == <<"node", {a, b}>>

\* Nodes are paired from the left; an odd one out is paired with itself.
LevelAbove(level) ==
  [i \in 1..((Len(level) + 1) \div 2) |->
     Parent(level[2 * i - 1], level[IF 2 * i <= Len(level) THEN 2 * i ELSE 2 * i - 1])]

\* Levels(hashes)[k] is the k-th level above the leaves, up to the root.
Levels(hashes) ==
  LET level[k \in Nat] == IF k = 0 THEN hashes ELSE LevelAbove(level[k - 1])
  IN  level

Depth(hashes) ==
  CHOOSE k \in 0..Len(hashes) : /\ Len(Levels(hashes)[k]) = 1
                                /\ \A j \in 0..(k - 1) : Len(Levels(hashes)[j]) > 1

MerkleRoot(hashes) == Levels(hashes)[Depth(hashes)][1]

\* Mutant: the odd one out names its left neighbour.
SiblingLeft(level, i) == IF i % 2 = 1 /\ i < Len(level) THEN level[i + 1]
                         ELSE IF i > 1 THEN level[i - 1] ELSE level[i]

Sibling(level, i) == IF i % 2 = 0 THEN level[i - 1]
                     ELSE IF i < Len(level) THEN level[i + 1] ELSE level[i]

\* The place on each level of the node above the i-th leaf.
Ancestor(i) ==
  LET place[k \in Nat] == IF k = 0 THEN i ELSE (place[k - 1] + 1) \div 2
  IN  place

\* The siblings on the way from the i-th leaf to the root.
MerkleProof(hashes, i) ==
  [k \in 1..Depth(hashes) |-> Sibling(Levels(hashes)[k - 1], Ancestor(i)[k - 1])]

\* The leaf index the code passes along has no influence: both of its
\* branches sort the pair.
VerifyMerkleProof(leaf, proof, root) == FoldLeft(Parent, leaf, proof) = root
===============================================================================
