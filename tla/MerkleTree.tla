----------------------------- MODULE MerkleTree -----------------------------
(***************************************************************************)
(* The Merkle tree of a checkpoint and its inclusion proofs                *)
(* (packages/evidence-store/src/transparency/checkpoint.ts), the hash      *)
(* chain of a review log (transparency/review-chain.ts), and the public    *)
(* verifiers of both (packages/protocol-ts/src/transparency-verify.ts).    *)
(*                                                                         *)
(* A hash is the term it was computed from: sha256 has no collisions here, *)
(* and the domain bytes 0x00 and 0x01 are the constructors.                *)
(***************************************************************************)
EXTENDS Integers, Sequences, FiniteSets

CONSTANT MaxReviewEvents   \* MAX_REVIEW_EVENTS, 10 000 in the code

ASSUME ReviewEventsAssumption == MaxReviewEvents \in Nat

Leaf(review, head) == [leaf |-> <<review, head>>]
Node(left, right) == [node |-> <<left, right>>]
EmptyRoot == [empty |-> TRUE]
NoNode == [nothing |-> TRUE]
Throws == [head |-> "throws"]

Half(n) == (n + 1) \div 2

(* Mutant of nextMerkleLevel: the odd node is paired with itself. *)
nextMerkleLevelDoubled(level) ==
  [i \in 1 .. Half(Len(level)) |->
     IF 2 * i > Len(level) THEN Node(level[2 * i - 1], level[2 * i - 1])
     ELSE Node(level[2 * i - 1], level[2 * i])]

(* Pairs are hashed; the odd node at the end moves up as it is. *)
nextMerkleLevel(level) ==
  [i \in 1 .. Half(Len(level)) |->
     IF 2 * i > Len(level) THEN level[2 * i - 1]
     ELSE Node(level[2 * i - 1], level[2 * i])]

(* The levels of the tree, from the leaves up; a level of one is the root, *)
(* which stays as it is, so Len(level) steps reach it.                     *)
merkleLevels(level) ==
  LET at[k \in Nat] == IF k = 0 THEN level ELSE nextMerkleLevel(at[k - 1]) IN at

computeMerkleRoot(level) ==
  IF level = <<>> THEN EmptyRoot ELSE merkleLevels(level)[Len(level)][1]

(* The siblings on the way from a leaf (index from 0) to the root; the odd *)
(* node at the end of a level has none.                                    *)
siblingOf(level, index) ==
  LET right == index % 2 = 1
      at == IF right THEN index - 1 ELSE index + 1
  IN  IF Len(level) > 1 /\ at < Len(level)
      THEN <<[position |-> IF right THEN "left" ELSE "right", hash |-> level[at + 1]]>>
      ELSE <<>>

siblingWalk(level, index) ==
  LET at[k \in Nat] ==
        IF k = 0 THEN [level |-> level, index |-> index, found |-> <<>>]
        ELSE LET below == at[k - 1] IN
             [level |-> nextMerkleLevel(below.level), index |-> below.index \div 2,
              found |-> below.found \o siblingOf(below.level, below.index)]
  IN at

siblings(level, index) == siblingWalk(level, index)[Len(level)].found

(* Heads are a function from review ids to head hashes, so none is twice;  *)
(* review ids are numbers here and sort as such: a review comes after as   *)
(* many as are smaller.                                                    *)
orderedHeads(heads) ==
  [i \in 1 .. Cardinality(DOMAIN heads) |->
     CHOOSE r \in DOMAIN heads : Cardinality({q \in DOMAIN heads : q < r}) = i - 1]

leaves(heads) == [i \in DOMAIN orderedHeads(heads) |->
                    Leaf(orderedHeads(heads)[i], heads[orderedHeads(heads)[i]])]

computeCheckpoint(heads) ==
  [merkle_root |-> computeMerkleRoot(leaves(heads)), tree_size |-> Cardinality(DOMAIN heads)]

inclusionProof(review, heads) ==
  LET index == Cardinality({r \in DOMAIN heads : r < review}) IN
  [review_id |-> review, leaf_index |-> index, tree_size |-> Cardinality(DOMAIN heads),
   siblings |-> siblings(leaves(heads), index)]

-----------------------------------------------------------------------------
(* verifyInclusionProof.                                                   *)

isMerkleProof(proof) ==
  /\ proof.leaf_index >= 0 /\ proof.tree_size > 0
  /\ proof.leaf_index < proof.tree_size
  /\ Len(proof.siblings) <= 53

(* Fold the next sibling in where the width of the level calls for one;    *)
(* NoNode when it does not fit.                                            *)
climbOne(at, path) ==
  LET hasLeft == at.index % 2 = 1
      hasRight == ~hasLeft /\ at.index + 1 < at.width
      next == at.used + 1
      fits(side) == next \in DOMAIN path /\ path[next].position = side
      up(node, used) == [node |-> node, index |-> at.index \div 2, width |-> Half(at.width),
                         used |-> used]
  IN CASE hasLeft -> up(IF fits("left") THEN Node(path[next].hash, at.node) ELSE NoNode, next)
       [] hasRight -> up(IF fits("right") THEN Node(at.node, path[next].hash) ELSE NoNode, next)
       [] ~hasLeft /\ ~hasRight -> up(at.node, at.used)

climbing(node, index, width, path) ==
  LET at[k \in Nat] ==
        IF k = 0 THEN [node |-> node, index |-> index, width |-> width, used |-> 0]
        ELSE LET below == at[k - 1] IN
             IF below.width <= 1 \/ below.node = NoNode THEN below ELSE climbOne(below, path)
  IN at

(* The node at the top, which Half reaches within width steps, with every  *)
(* sibling used.                                                           *)
climb(node, index, width, path) ==
  LET top == climbing(node, index, width, path)[width] IN
  IF top.used = Len(path) THEN top.node ELSE NoNode

verifyInclusionProof(head, proof, root) ==
  /\ isMerkleProof(proof)
  /\ proof.review_id = head.review_id
  /\ climb(Leaf(head.review_id, head.head_hash), proof.leaf_index, proof.tree_size,
           proof.siblings) = root

-----------------------------------------------------------------------------
(* The chain of a review log.  An event is its sequence number, its id and *)
(* the review it is of; honest says whether the id is that of its content. *)

(* By sequence number, where no two are the same. *)
Ordered(events) ==
  [i \in DOMAIN events |->
     events[CHOOSE j \in DOMAIN events :
              Cardinality({k \in DOMAIN events : events[k].sequence < events[j].sequence}) = i - 1]]

ChainLink(prev, e) == [prev |-> prev, sequence |-> e.sequence, event |-> e.id]
EmptyChain == [empty |-> "chain"]

chainHeads(ordered) ==
  LET at[k \in Nat] == IF k = 0 THEN EmptyChain ELSE ChainLink(at[k - 1], ordered[k]) IN at

FoldChain(events) == chainHeads(Ordered(events))[Len(events)]

OneReview(events) == \A i, j \in DOMAIN events : events[i].review = events[j].review
DistinctSequences(events) ==
  \A i, j \in DOMAIN events : i # j => events[i].sequence # events[j].sequence

(* computeReviewChainHead: throws on a mixed, an ambiguous or a too long   *)
(* chain.                                                                  *)
computeReviewChainHead(events) ==
  IF /\ Len(events) <= MaxReviewEvents
     /\ OneReview(events) /\ DistinctSequences(events)
  THEN FoldChain(events) ELSE Throws

(* verifyReviewChainHead: events in any order, each true to its id. *)
verifyReviewChainHead(events, claimed) ==
  LET valid == /\ Len(events) <= MaxReviewEvents
               /\ OneReview(events) /\ DistinctSequences(events)
               /\ \A i \in DOMAIN events : events[i].honest
  IN CASE claimed = Throws -> "invalid_claimed_head"
       [] claimed # Throws /\ ~valid -> "invalid_events"
       [] claimed # Throws /\ valid ->
            IF FoldChain(events) = claimed THEN "verified" ELSE "head_mismatch"
=============================================================================
