----------------------------- MODULE MerkleTree -----------------------------
(***************************************************************************)
(* The binary Merkle trees of both chains: crate snowbridge-merkle-tree,   *)
(* which commits outbound messages, and the Solidity library MerkleUtils.  *)
(*                                                                         *)
(* A hash is a term: a leaf, or the pair it was computed from, so that     *)
(* different inputs have different hashes.  "rank" orders the nodes of a   *)
(* tree; which leaf has which rank is up to whoever builds the leaves.     *)
(***************************************************************************)
EXTENDS Integers, Sequences, SequencesExt

Leaf(rank) == [rank |-> rank, pair |-> <<>>]

ZeroHash == Leaf(0)

efficientHash(a, b) == [rank |-> a.rank, pair |-> <<a, b>>]

\* The smaller hash comes first.
hashPair(a, b) == IF a.rank < b.rank THEN efficientHash(a, b) ELSE efficientHash(b, a)

-----------------------------------------------------------------------------
(***************************************************************************)
(* snowbridge-merkle-tree.  Row n of a tree; a row of one stays as it is.  *)
(***************************************************************************)
merkelize_row(row) ==
    [k \in 1..((Len(row) + 1) \div 2) |->
        IF 2 * k <= Len(row) THEN hashPair(row[2 * k - 1], row[2 * k]) ELSE row[2 * k - 1]]

merkelize(leaves) ==
    LET row[n \in 0..Len(leaves)] == IF n = 0 THEN leaves ELSE merkelize_row(row[n - 1])
    IN  row

merkle_root(leaves) ==
    IF leaves = <<>> THEN ZeroHash ELSE merkelize(leaves)[Len(leaves)][1]

\* Faulty variant: an odd node at the end of a row is paired with itself.
visit_Pairs(row, position) ==
    IF position % 2 = 1 THEN <<row[position]>>
    ELSE IF position + 1 < Len(row) THEN <<row[position + 2]>>
    ELSE IF Len(row) > 1 THEN <<row[position + 1]>> ELSE <<>>

\* ProofCollection::visit: the sibling of a 0-based position, if it has one.
visit(row, position) ==
    IF position % 2 = 1 THEN <<row[position]>>
    ELSE IF position + 1 < Len(row) THEN <<row[position + 2]>> ELSE <<>>

merkle_proof(leaves, leaf_index) ==
    LET row == merkelize(leaves)
        collect[n \in 0..Len(leaves)] ==
            IF n = 0 THEN <<>>
            ELSE collect[n - 1] \o visit(row[n - 1], leaf_index \div 2^(n - 1))
    IN  [root |-> merkle_root(leaves), proof |-> collect[Len(leaves)],
         number_of_leaves |-> Len(leaves), leaf_index |-> leaf_index,
         leaf |-> leaves[leaf_index + 1]]

verify_proof(root, proof, number_of_leaves, leaf_index, leaf) ==
    /\ leaf_index < number_of_leaves
    /\ FoldLeft(hashPair, leaf, proof) = root

-----------------------------------------------------------------------------
(***************************************************************************)
(* MerkleUtils: the layer and the position move up together.               *)
(***************************************************************************)
NextLayerSize(layer) == (Len(layer) \div 2) + (Len(layer) % 2)

NextLayer(layer, sorting) ==
    [nextIndex \in 1..NextLayerSize(layer) |->
        LET i == 2 * nextIndex - 1
        IN  IF i + 1 > Len(layer) THEN layer[i]
            ELSE IF sorting THEN hashPair(layer[i], layer[i + 1])
                            ELSE efficientHash(layer[i], layer[i + 1])]

calculateMerkleRoot(leaves, sorting) ==
    IF leaves = <<>> THEN ZeroHash
    ELSE LET layer[n \in 1..Len(leaves)] ==
                 IF n = 1 THEN leaves
                 ELSE IF Len(layer[n - 1]) > 1 THEN NextLayer(layer[n - 1], sorting)
                                               ELSE layer[n - 1]
         IN  layer[Len(leaves)][1]

\* Faulty variant: the unpaired node of an odd layer is taken for its own sibling.
ProofStep_PairsLast(s, sorting) ==
    LET p == s.position
        n == Len(s.layer)
    IN  IF n <= 1 THEN s
        ELSE [layer    |-> NextLayer(s.layer, sorting),
              position |-> (p + 1) \div 2,
              proof    |-> Append(s.proof, IF p % 2 = 0 THEN s.layer[p - 1]
                                           ELSE IF p < n THEN s.layer[p + 1] ELSE s.layer[p])]

\* The loop of buildMerkleProof, with 1-based positions.
ProofStep(s, sorting) ==
    LET p == s.position
        n == Len(s.layer)
    IN  IF n <= 1 THEN s
        ELSE [layer    |-> NextLayer(s.layer, sorting),
              position |-> (p + 1) \div 2,
              proof    |-> IF p % 2 = 0 THEN Append(s.proof, s.layer[p - 1])
                           ELSE IF p < n THEN Append(s.proof, s.layer[p + 1])
                           ELSE s.proof]

buildMerkleProof(leaves, leafIndex, sorting) ==
    LET step[n \in 0..Len(leaves)] ==
            IF n = 0 THEN [layer |-> leaves, position |-> leafIndex + 1, proof |-> <<>>]
            ELSE ProofStep(step[n - 1], sorting)
    IN  step[Len(leaves)].proof

\* External: the verifiers of such proofs.  OpenZeppelin's sorts the pairs and needs
\* no position; the other one hashes left and right as they are in the tree, a node
\* at an odd 0-based position being the right one of its pair.
ProcessProof(proof, leaf) == FoldLeft(hashPair, leaf, proof)

ProcessProofAt(proof, leaf, position, number_of_leaves) ==
    LET ascent == [d \in 1..number_of_leaves |->
                      [position |-> position \div 2^(d - 1),
                       last |-> (number_of_leaves - 1) \div 2^(d - 1)]]
        paired == SelectSeq(ascent, LAMBDA l : l.position % 2 = 1 \/ l.position < l.last)
        up(hash, i) == IF paired[i].position % 2 = 1 THEN efficientHash(proof[i], hash)
                                                     ELSE efficientHash(hash, proof[i])
    IN  IF Len(proof) = Len(paired)
        THEN FoldLeft(up, leaf, [i \in 1..Len(proof) |-> i]) ELSE ZeroHash

=============================================================================
