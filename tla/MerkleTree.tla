------------------------------ MODULE MerkleTree ------------------------------
(***************************************************************************)
(* tree/src: a Merkle tree as a vector of nodes, the inner ones level by   *)
(* level from the root at 0 and the leaves' hashes behind them, and the    *)
(* paths that open one leaf or an aligned range of leaves.  A hash is the  *)
(* term it is the hash of: nothing else has the same one.                  *)
(***************************************************************************)
EXTENDS Integers, SequencesExt

LeafHash(leaf) == <<"leaf", leaf>>
NodeHash(a, b) == <<"node", a, b>>

LeftChildIndex(i)  == 2 * i + 1
RightChildIndex(i) == 2 * i + 2
ParentIndex(i)     == (i - 1) \div 2
IsLeftChild(i)     == i % 2 = 1
SiblingIndex(i)    == IF IsLeftChild(i) THEN i + 1 ELSE i - 1

(* 1 + log2, rounded up, of a number of leaves.                            *)
Height(leaves) == 1 + CHOOSE h \in 0 .. leaves : 2^h >= leaves /\ \A k \in 0 .. h - 1 : 2^k < leaves

(* A tree of one leaf has no inner level, and building it stops.           *)
CanBuild(leaves) == leaves >= 2 /\ 2^(Height(leaves) - 1) = leaves

NewWithLeafNodes(leafNodes) ==
  LET n == Len(leafNodes)
      node[i \in 0 .. 2 * n - 2] ==
        IF i >= n - 1 THEN leafNodes[i - n + 2]
        ELSE NodeHash(node[LeftChildIndex(i)], node[RightChildIndex(i)])
  IN node

NewWithLeaves(leaves) ==
  [leaves |-> leaves, nodes |-> NewWithLeafNodes([i \in DOMAIN leaves |-> LeafHash(leaves[i])])]

Root(tree) == tree.nodes[0]

ConvertIndexToLastLevel(index, height) == index + 2^(height - 1) - 1

CommonAncestor(left, right) ==
  LET meet[p \in (0 .. left) \X (0 .. right)] ==
        IF p[1] = p[2] THEN p[1] ELSE meet[<<ParentIndex(p[1]), ParentIndex(p[2])>>]
  IN meet[<<left, right>>]

(* Mutant: from node i's own sibling up.                                   *)
PathNodesUpwards(tree, i) ==
  LET path[k \in 0 .. i] ==
        IF k = 0 THEN <<>> ELSE <<tree.nodes[SiblingIndex(k)]>> \o path[ParentIndex(k)]
  IN path[i]
(* The siblings from the root's children down to node i's own.             *)
PathNodes(tree, i) ==
  LET path[k \in 0 .. i] ==
        IF k = 0 THEN <<>> ELSE Append(path[ParentIndex(k)], tree.nodes[SiblingIndex(k)])
  IN path[i]

GenProof(tree, index) ==
  [leaf |-> tree.leaves[index + 1], index |-> index,
   path_nodes |-> PathNodes(tree, ConvertIndexToLastLevel(index, Height(Len(tree.leaves))))]

RangeAsserts(left, right) ==
  /\ right > left
  /\ \E h \in 0 .. right : right - left + 1 = 2^h
  /\ left % (right - left + 1) = 0

GenRangeProof(tree, left, right) ==
  LET height == Height(Len(tree.leaves))
  IN [left |-> left, right |-> right,
      leaves |-> SubSeq(tree.leaves, left + 1, right + 1),
      path_nodes |-> PathNodes(tree, CommonAncestor(ConvertIndexToLastLevel(left, height),
                                                    ConvertIndexToLastLevel(right, height)))]

(* Up from the last of the siblings: bit i of the index says on which side *)
(* of the i-th the hash so far belongs.                                    *)
PathRoot(path) ==
  FoldLeft(LAMBDA up, sibling :
             [at |-> up.at \div 2,
              hash |-> IF up.at % 2 = 1 THEN NodeHash(sibling, up.hash) ELSE NodeHash(up.hash, sibling)],
           [at |-> path.index, hash |-> LeafHash(path.leaf)], Reverse(path.path_nodes)).hash

RangePathRoot(path) ==
  LET height == Height(Len(path.leaves)) + Len(path.path_nodes)
      ancestor == CommonAncestor(ConvertIndexToLastLevel(path.left, height),
                                 ConvertIndexToLastLevel(path.right, height))
  IN FoldLeft(LAMBDA up, sibling :
                [at |-> ParentIndex(up.at),
                 hash |-> IF IsLeftChild(up.at) THEN NodeHash(up.hash, sibling)
                          ELSE NodeHash(sibling, up.hash)],
              [at |-> ancestor, hash |-> Root(NewWithLeaves(path.leaves))],
              Reverse(path.path_nodes)).hash

RangePathVerify(path, root) == RangePathRoot(path) = root
=============================================================================
