--------------------------------- MODULE MMR ---------------------------------
(***************************************************************************)
(* The Merkle mountain range of internal/protocol/mmr.go: the incremental  *)
(* peaks that servers keep and devices check (AddLeaf), the same peaks     *)
(* computed from all leaves at once (mountainSummits), inclusion proofs    *)
(* and their verification.                                                 *)
(*                                                                         *)
(* SHA-256 is taken to be injective: the hash of a leaf is a tuple of one  *)
(* element, that of a node the pair of its children, and the root over the *)
(* peaks is the sequence of the peaks. Positions count from 0 as in the    *)
(* code. The loops over 64 bits run over the bits that a number of leaves  *)
(* has.                                                                    *)
(***************************************************************************)
EXTENDS Integers, Sequences, FiniteSets

LeafHash(x) == <<x>>
Node(left, right) == <<left, right>>

Bit(n, b) == (n \div 2^b) % 2 = 1

-----------------------------------------------------------------------------
\* Variant: the climb does not look at the bits of the count.
AddLeafBlindly(peaks, leaf, count) ==
  IF peaks = <<>> THEN <<leaf>> ELSE <<Node(peaks[1], leaf)>> \o Tail(peaks)

\* The leaf climbs over the trailing one bits of the count and merges with one
\* peak at each.
AddLeaf(peaks, leaf, count) ==
  LET climbed[i \in 0..Len(peaks)] ==
        IF i = 0 THEN leaf ELSE Node(peaks[i], climbed[i - 1])
      top == CHOOSE i \in 0..Len(peaks) :
               /\ i = Len(peaks) \/ ~ Bit(count, i)
               /\ \A j \in 0..(i - 1) : Bit(count, j)
  IN <<climbed[top]>> \o SubSeq(peaks, top + 1, Len(peaks))

\* MMRRootFromLeaves: the peaks after one AddLeaf per leaf.
Peaks(leaves) ==
  LET peaks[i \in 0..Len(leaves)] ==
        IF i = 0 THEN <<>> ELSE AddLeaf(peaks[i - 1], leaves[i], i - 1)
  IN peaks[Len(leaves)]

-----------------------------------------------------------------------------
\* The bits of n, one mountain for each, and the one that holds position pos.
Bits(n) == {b \in 0..n : 2^b <= n /\ Bit(n, b)}

\* The mountains of the higher bits come first.
MountainStart(n, b) == (n \div 2^(b + 1)) * 2^(b + 1)

Mountain(n, pos) ==
  CHOOSE b \in Bits(n) : MountainStart(n, b) <= pos /\ pos < MountainStart(n, b) + 2^b

\* The number of smaller mountains, which is the place of b among the peaks.
PeakIndex(n, b) == Cardinality({c \in Bits(n) : c < b})

\* The root of the perfect tree over 2^b leaves from position lo.
MerkleRoot(leaves, lo, b) ==
  LET root[h \in 0..b] ==
        [p \in Nat |-> IF h = 0 THEN leaves[p + 1]
                       ELSE Node(root[h - 1][p], root[h - 1][p + 2^(h - 1)])]
  IN root[b][lo]

\* All summits, the smallest mountain first.
MountainSummits(leaves) ==
  LET n == Len(leaves)
      bitAt == [k \in 0..(Cardinality(Bits(n)) - 1) |->
                  CHOOSE b \in Bits(n) : PeakIndex(n, b) = k]
  IN [k \in 1..Cardinality(Bits(n)) |->
        MerkleRoot(leaves, MountainStart(n, bitAt[k - 1]), bitAt[k - 1])]

-----------------------------------------------------------------------------
Even(k) == k % 2 = 0

\* The index of the ancestor at level j in its mountain, and of its sibling.
Sub(pos, n, j) == (pos - MountainStart(n, Mountain(n, pos))) \div 2^j

Sibling(sub) == IF Even(sub) THEN sub + 1 ELSE sub - 1

GenerateInclusionProof(leaves, pos) ==
  LET n == Len(leaves)
      b == Mountain(n, pos)
  IN [index |-> pos,
      leaf  |-> leaves[pos + 1],
      peaks |-> MountainSummits(leaves),
      proof |-> [j \in 1..b |->
                   MerkleRoot(leaves,
                              MountainStart(n, b) + Sibling(Sub(pos, n, j - 1)) * 2^(j - 1),
                              j - 1)]]

\* From the leaf up to its summit: left or right by the bits of the position.
Climb(p, n) ==
  LET node[j \in 0..Len(p.proof)] ==
        IF j = 0 THEN p.leaf
        ELSE IF Even(Sub(p.index, n, j - 1)) THEN Node(node[j - 1], p.proof[j])
                                             ELSE Node(p.proof[j], node[j - 1])
  IN node[Len(p.proof)]

\* Variant: the summit is compared with the peaks of the proof itself.
VerifyAgainstItself(p, claimedRoot, totalLeaves) ==
  /\ totalLeaves > 0 /\ p.index < totalLeaves
  /\ LET b == Mountain(totalLeaves, p.index)
         k == PeakIndex(totalLeaves, b)
     IN Len(p.proof) = b /\ k < Len(p.peaks) /\ p.peaks[k + 1] = Climb(p, totalLeaves)

\* The summit reached replaces the peak of its mountain; the peaks must then be
\* those of the claimed root.
VerifyInclusionProof(p, claimedRoot, totalLeaves) ==
  /\ p.peaks # <<>>
  /\ totalLeaves > 0 /\ p.index < totalLeaves
  /\ LET b == Mountain(totalLeaves, p.index)
         k == PeakIndex(totalLeaves, b)
     IN /\ Len(p.proof) = b
        /\ k < Len(p.peaks)
        /\ [p.peaks EXCEPT ![k + 1] = Climb(p, totalLeaves)] = claimedRoot
=============================================================================
