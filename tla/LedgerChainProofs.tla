-------------------------- MODULE LedgerChainProofs -------------------------
(***************************************************************************)
(* The chain a stream serves, for every set of bodies, keys and handlers,  *)
(* and whatever writes fail. All rests on Mirror: the blocks in memory are *)
(* linked and the rows of the database are among them, so that a restart   *)
(* brings back a prefix of the chain that was served.                      *)
(***************************************************************************)
EXTENDS LedgerProofs, FunctionTheorems

Mirror == ChainLinked /\ DiskWithinMemory

\* The whole of a sequence is a subsequence of it.
LEMMA SubSeqWhole ==
  ASSUME NEW S, NEW s \in Seq(S)
  PROVE  SubSeq(s, 1, Len(s)) = s
OBVIOUS

\* tryAccept appends one block and its leaf, and stores that block or nothing.
LEMMA AcceptAppends ==
  ASSUME TypeInv, NEW h \in Handlers, Accept(h)
  PROVE  /\ request[h] \in Tx
         /\ request[h].body \in Bodies
         /\ NewBlock(request[h]) \in Block
         /\ blocks' = Append(blocks, NewBlock(request[h]))
         /\ leafHashes' = Append(leafHashes, request[h])
         /\ dBlocks' \in {dBlocks, dBlocks \union {NewBlock(request[h])}}
<1>1. request[h] \in Tx /\ request[h].body \in Bodies
  BY PendingTx DEF Accept
<1>2. dBlocks' \in {dBlocks, dBlocks \union {NewBlock(request[h])}}
  BY DEF Accept, PersistCommits, PersistFails, disk
<1>3. NewBlock(request[h]) \in Block
  BY <1>1, NewBlockType DEF TypeInv
<1>4. blocks' = Append(blocks, NewBlock(request[h]))
      /\ leafHashes' = Append(leafHashes, request[h])
  BY DEF Accept
<1>5. QED
  BY <1>1, <1>2, <1>3, <1>4

LEMMA AcceptMirror ==
  ASSUME TypeInv, Mirror, NEW h \in Handlers, Accept(h)
  PROVE  Mirror'
<1> DEFINE t == request[h]
           blk == NewBlock(t)
           n == Len(blocks)
<1>1. /\ blocks' = Append(blocks, blk)
      /\ leafHashes' = Append(leafHashes, t)
      /\ dBlocks' \in {dBlocks, dBlocks \union {blk}}
      /\ t \in Leaf
      /\ blk \in Block
  BY AcceptAppends DEF Leaf
<1>2. /\ blk.height = n
      /\ blk.prev = blocks[n].hash
      /\ blk.leaf = t
      /\ blk.root = Append(leafHashes, t)
  BY DEF NewBlock
<1>3. /\ blocks \in Seq(Block)
      /\ leafHashes \in Seq(Leaf)
      /\ Len(leafHashes) = n
      /\ n \in Nat \ {0}
  BY DEF TypeInv, TypeOK, Mirror, ChainLinked
<1> HIDE DEF t, blk, n
<1>4. /\ Len(blocks') = n + 1
      /\ Len(leafHashes') = n + 1
      /\ \A i \in 1..n : blocks'[i] = blocks[i] /\ leafHashes'[i] = leafHashes[i]
      /\ blocks'[n + 1] = blk
      /\ leafHashes'[n + 1] = t
  BY <1>1, <1>3 DEF n
<1>5. \A i \in 1..n : /\ blocks[i].height = i - 1
                      /\ i > 1 => blocks[i].prev = blocks[i - 1].hash
                      /\ blocks[i].root = SubSeq(leafHashes, 1, i)
                      /\ blocks[i].leaf = leafHashes[i]
  BY DEF Mirror, ChainLinked, n
<1>6. \A i \in 1..n : SubSeq(leafHashes', 1, i) = SubSeq(leafHashes, 1, i)
  BY <1>1, <1>3, <1>4
<1>7. SubSeq(leafHashes', 1, n + 1) = leafHashes'
  BY <1>1, <1>3, <1>4
<1>8. ChainLinked'
  <2>1. Len(leafHashes') = Len(blocks')
    BY <1>4
  <2>2. ASSUME NEW i \in 1..n
        PROVE  /\ blocks'[i].height = i - 1
               /\ i > 1 => blocks'[i].prev = blocks'[i - 1].hash
               /\ blocks'[i].root = SubSeq(leafHashes', 1, i)
               /\ blocks'[i].leaf = leafHashes'[i]
    <3>1. /\ blocks'[i] = blocks[i]
          /\ i > 1 => blocks'[i - 1] = blocks[i - 1]
          /\ leafHashes'[i] = leafHashes[i]
      BY <1>3, <1>4
    <3>2. QED
      BY <1>5, <1>6, <3>1
  <2>3. /\ blocks'[n + 1].height = (n + 1) - 1
        /\ blocks'[n + 1].prev = blocks'[(n + 1) - 1].hash
        /\ blocks'[n + 1].root = SubSeq(leafHashes', 1, n + 1)
        /\ blocks'[n + 1].leaf = leafHashes'[n + 1]
    <3>1. (n + 1) - 1 = n /\ blocks'[n] = blocks[n]
      BY <1>3, <1>4
    <3>2. blk.prev = blocks'[(n + 1) - 1].hash
      BY <1>2, <3>1
    <3>3. blk.root = SubSeq(leafHashes', 1, n + 1)
      BY <1>1, <1>2, <1>7
    <3>4. QED
      BY <1>2, <1>4, <3>1, <3>2, <3>3
  <2>4. \A i \in 1..Len(blocks') : i \in 1..n \/ i = n + 1
    BY <1>3, <1>4
  <2>5. QED
    BY <2>1, <2>2, <2>3, <2>4 DEF ChainLinked
<1>9. DiskWithinMemory'
  <2>1. ASSUME NEW row \in dBlocks'
        PROVE  row.height + 1 \in 1..Len(blocks') /\ blocks'[row.height + 1] = row
    <3>1. CASE row = blk
      BY <3>1, <1>2, <1>3, <1>4
    <3>2. CASE row \in dBlocks
      BY <3>2, <1>3, <1>4 DEF Mirror, DiskWithinMemory, n
    <3>3. QED
      BY <1>1, <3>1, <3>2
  <2>2. QED
    BY <2>1 DEF DiskWithinMemory
<1>10. QED
  BY <1>8, <1>9 DEF Mirror

\* A start reads back a prefix of the chain that was served before.
LEMMA RestartIsPrefix ==
  ASSUME TypeInv, Mirror, Restart
  PROVE  \E n \in 1..Len(blocks) :
           /\ Len(blocks') = n
           /\ Len(leafHashes') = n
           /\ \A i \in 1..n : /\ blocks'[i] = blocks[i]
                              /\ leafHashes'[i] = leafHashes[i]
                              /\ blocks[i] \in dBlocks
           /\ Heights = 0..(n - 1)
<1>1. PICK tip \in dBlocks :
        /\ Heights = 0..tip.height
        /\ blocks' = [i \in 1..(tip.height + 1) |-> RowAt(i - 1)]
        /\ leafHashes' = [i \in 1..(tip.height + 1) |-> RowAt(i - 1).leaf]
  BY DEF Restart
<1> DEFINE n == tip.height + 1
<1>2. tip.height \in Nat
  BY DEF TypeInv, TypeOK, Block
<1>3. n \in 1..Len(blocks)
  BY <1>2 DEF Mirror, DiskWithinMemory
<1>4. ASSUME NEW i \in 1..n
      PROVE  blocks[i] \in dBlocks /\ RowAt(i - 1) = blocks[i]
  <2>1. i - 1 \in Heights
    BY <1>1, <1>2
  <2>2. RowAt(i - 1) \in dBlocks /\ RowAt(i - 1).height = i - 1
    BY <2>1 DEF Heights, RowAt
  <2>3. QED
    BY <2>2 DEF Mirror, DiskWithinMemory
<1>5. \A i \in 1..n : blocks[i].leaf = leafHashes[i]
  BY <1>3 DEF Mirror, ChainLinked, TypeInv, TypeOK
<1>6. Len(blocks') = n /\ Len(leafHashes') = n
  BY <1>1, <1>2
<1>7. \A i \in 1..n : blocks'[i] = blocks[i] /\ leafHashes'[i] = leafHashes[i]
  BY <1>1, <1>4, <1>5
<1>8. Heights = 0..(n - 1)
  BY <1>1, <1>2
<1> HIDE DEF n
<1>9. QED
  BY <1>3, <1>4, <1>6, <1>7, <1>8

LEMMA RestartMirror ==
  ASSUME TypeInv, Mirror, Restart
  PROVE  Mirror'
<1>1. PICK n \in 1..Len(blocks) :
        /\ Len(blocks') = n
        /\ Len(leafHashes') = n
        /\ \A i \in 1..n : /\ blocks'[i] = blocks[i]
                           /\ leafHashes'[i] = leafHashes[i]
                           /\ blocks[i] \in dBlocks
        /\ Heights = 0..(n - 1)
  BY RestartIsPrefix
<1>2. /\ leafHashes \in Seq(Leaf)
      /\ leafHashes' \in Seq(Leaf)
      /\ Len(leafHashes) = Len(blocks)
      /\ Len(blocks) \in Nat
      /\ n \in Nat
  BY RestartTypeInv DEF TypeInv, TypeOK, Mirror, ChainLinked
<1>3. \A i \in 1..n : SubSeq(leafHashes', 1, i) = SubSeq(leafHashes, 1, i)
  BY <1>1, <1>2
<1>4. ChainLinked'
  <2>1. ASSUME NEW i \in 1..n
        PROVE  /\ blocks'[i].height = i - 1
               /\ i > 1 => blocks'[i].prev = blocks'[i - 1].hash
               /\ blocks'[i].root = SubSeq(leafHashes', 1, i)
               /\ blocks'[i].leaf = leafHashes'[i]
    <3>1. /\ blocks'[i] = blocks[i]
          /\ i > 1 => blocks'[i - 1] = blocks[i - 1]
          /\ leafHashes'[i] = leafHashes[i]
      BY <1>1, <1>2
    <3>2. i \in 1..Len(blocks)
      BY <1>1, <1>2
    <3>3. QED
      BY <1>3, <3>1, <3>2 DEF Mirror, ChainLinked
  <2>2. QED
    BY <1>1, <2>1 DEF ChainLinked
<1>5. DiskWithinMemory'
  <2>1. dBlocks' = dBlocks
    BY DEF Restart, disk
  <2>2. ASSUME NEW row \in dBlocks
        PROVE  row.height + 1 \in 1..Len(blocks') /\ blocks'[row.height + 1] = row
    <3>1. row.height \in 0..(n - 1)
      BY <1>1 DEF Heights
    <3>2. row.height + 1 \in 1..n /\ blocks[row.height + 1] = row
      BY <1>2, <3>1 DEF Mirror, DiskWithinMemory
    <3>3. QED
      BY <1>1, <3>2
  <2>3. QED
    BY <2>1, <2>2 DEF DiskWithinMemory
<1>6. QED
  BY <1>4, <1>5 DEF Mirror

\* A step other than an acceptance or a restart leaves chain and rows alone.
LEMMA OtherSteps ==
  ASSUME [Next]_vars, ~Restart, \A h \in Handlers : ~Accept(h)
  PROVE  UNCHANGED <<blocks, leafHashes, txIDs, noteIDs, count, disk, anchors>>
BY DEF Next, TryAccept, Post, AcceptDuplicate, Reject, RejectGrant, Reply,
       RestartFails, vars, memory, disk

LEMMA MirrorInvariant == Spec => []Mirror
<1>1. Init => Mirror
  <2> SUFFICES ASSUME Init PROVE Mirror
    OBVIOUS
  <2>1. blocks = <<GenesisBlock>> /\ leafHashes = <<Genesis>> /\ dBlocks = {GenesisBlock}
    BY DEF Init
  <2>2. /\ GenesisBlock.height = 0
        /\ GenesisBlock.root = <<Genesis>>
        /\ GenesisBlock.leaf = Genesis
    BY DEF GenesisBlock
  <2>3. <<Genesis>> \in Seq(Leaf) /\ Len(<<Genesis>>) = 1
    BY DEF Leaf
  <2>4. SubSeq(<<Genesis>>, 1, 1) = <<Genesis>>
    BY <2>3, SubSeqWhole
  <2>5. Len(blocks) = 1 /\ Len(leafHashes) = 1 /\ blocks[1] = GenesisBlock /\ leafHashes[1] = Genesis
    BY <2>1
  <2>6. leafHashes = <<Genesis>>
    BY <2>1
  <2>7. DiskWithinMemory
    BY <2>1, <2>2, <2>5 DEF DiskWithinMemory
  <2>8. ChainLinked
    BY <2>2, <2>4, <2>5, <2>6 DEF ChainLinked
  <2>9. QED
    BY <2>7, <2>8 DEF Mirror
<1>2. TypeInv /\ Mirror /\ [Next]_vars => Mirror'
  <2> SUFFICES ASSUME TypeInv, Mirror, [Next]_vars PROVE Mirror'
    OBVIOUS
  <2>1. CASE UNCHANGED <<blocks, leafHashes, txIDs, noteIDs, count, disk, anchors>>
    BY <2>1 DEF Mirror, ChainLinked, DiskWithinMemory, disk
  <2>2. QED
    BY <2>1, AcceptMirror, RestartMirror, OtherSteps
<1>3. QED
  BY <1>1, <1>2, TypeInvInvariant, PTL DEF Spec

\* The served chain is linked from genesis and its roots commit to its leaves.
THEOREM ChainInvariant == Spec => []ChainLinked
<1>1. Mirror => ChainLinked
  BY DEF Mirror
<1>2. QED
  BY <1>1, MirrorInvariant, PTL

\* The rows of the database are blocks of the served chain, failed writes included.
THEOREM DiskInvariant == Spec => []DiskWithinMemory
<1>1. Mirror => DiskWithinMemory
  BY DEF Mirror
<1>2. QED
  BY <1>1, MirrorInvariant, PTL

-----------------------------------------------------------------------------
(***************************************************************************)
(* Who may have written. A key enters the set of writers only by a block   *)
(* that enrols it, also on the ways that leave memory and disk apart.      *)
(***************************************************************************)
KeysOf(m) == {m[d] : d \in Devices} \ {NoKey}

\* The keys in memory, and the authors of requests past isAuthorized, are enrolled
\* by the chain in memory; the keys in the tables by the chain up to the highest
\* row, which is all that a restart may bring back.
WriterInv ==
  /\ WritersEnrolled
  /\ authorized \union KeysOf(members) \subseteq EnrolledKeys(Len(blocks))
  /\ \A h \in Handlers :
       (request[h] # NoTx /\ answer[h] = "pending") =>
         request[h].body.author \in EnrolledKeys(Len(blocks))
  /\ \E tip \in dBlocks :
       /\ \A row \in dBlocks : row.height <= tip.height
       /\ dAuthorized \union KeysOf(dMembers) \subseteq EnrolledKeys(tip.height + 1)

\* A longer chain enrols no fewer keys.
LEMMA EnrolledGrows ==
  ASSUME NEW m \in Nat, NEW n \in Nat, m <= n
  PROVE  EnrolledKeys(m) \subseteq EnrolledKeys(n)
<1>1. 2..m \subseteq 2..n
  OBVIOUS
<1>2. QED
  BY <1>1 DEF EnrolledKeys

\* Equal blocks enrol equal keys.
LEMMA EnrolledKept ==
  ASSUME NEW n \in Nat, \A i \in 2..n : blocks'[i] = blocks[i]
  PROVE  EnrolledKeys(n)' = EnrolledKeys(n)
<1>1. \A i \in 2..n : BodyAt(i)' = BodyAt(i)
  BY DEF BodyAt
<1>2. QED
  BY <1>1 DEF EnrolledKeys

\* What an operation adds to the writers is the key it enrols or a member's.
LEMMA AuthorizedFrom ==
  ASSUME NEW b \in Bodies, NEW auth, NEW K,
         auth \subseteq K, KeysOf(members) \subseteq K,
         b.op = "member_add" => b.key \in K
  PROVE  AuthorizedAfter(auth, b) \subseteq K
<1>1. \A d \in GrantedDevices(b) : members[d] \in KeysOf(members)
  BY GrantedAreEnrolled DEF KeysOf
<1>2. AddAuth(b) \subseteq K
  BY <1>1 DEF AddAuth
<1>3. QED
  BY <1>2 DEF AuthorizedAfter

LEMMA MembersFrom ==
  ASSUME NEW b \in Bodies, NEW m \in [Devices -> Keys \union {NoKey}], NEW K,
         KeysOf(m) \subseteq K, b.op = "member_add" => b.key \in K
  PROVE  KeysOf(MembersAfter(m, b)) \subseteq K
BY BodyFields DEF KeysOf, MembersAfter

LEMMA AcceptWriters ==
  ASSUME TypeInv, Mirror, WriterInv, NEW h \in Handlers, Accept(h)
  PROVE  WriterInv'
<1> DEFINE t == request[h]
           b == t.body
           blk == NewBlock(t)
<1>1. /\ t \in Tx
      /\ b \in Bodies
      /\ blocks' = Append(blocks, blk)
      /\ blk.leaf = t
      /\ blk.height = Len(blocks)
      /\ request[h] # NoTx /\ answer[h] = "pending"
  BY AcceptAppends DEF NewBlock, Accept, Pending
<1>2. /\ authorized' = AuthorizedAfter(authorized, b)
      /\ members' = MembersAfter(members, b)
  BY DEF Accept
<1>3. /\ request' = request
      /\ \A g \in Handlers : answer'[g] = "pending" => answer[g] = "pending"
  BY DEF Accept, PersistCommits, PersistFails, Answer, TypeInv, TypeOK
<1>4. \/ UNCHANGED <<dBlocks, dAuthorized, dMembers>>
      \/ /\ dBlocks' = dBlocks \union {blk}
         /\ dAuthorized' = AuthorizedAfter(dAuthorized, b)
         /\ dMembers' = MembersAfter(dMembers, b)
  BY <1>1 DEF Accept, PersistCommits, PersistFails, disk
<1>5. b.author \in EnrolledKeys(Len(blocks))
  BY <1>1 DEF WriterInv
<1> HIDE DEF t, b, blk
<1>6. PICK n \in Nat \ {0} : n = Len(blocks)
  BY DEF TypeInv, TypeOK
<1>7. /\ Len(blocks') = n + 1
      /\ \A i \in 1..n : blocks'[i] = blocks[i]
      /\ blocks'[n + 1] = blk
  BY <1>1, <1>6 DEF TypeInv, TypeOK
<1>8. \A i \in 2..(n + 1) : i \in 2..n \/ i = n + 1
  OBVIOUS
<1>9. \A k \in 1..n : EnrolledKeys(k)' = EnrolledKeys(k)
  <2>1. \A k \in 1..n : \A i \in 2..k : blocks'[i] = blocks[i]
    BY <1>7
  <2>2. QED
    BY <2>1, EnrolledKept
<1>10. n \in 1..n /\ n \in Nat /\ n + 1 \in Nat
  OBVIOUS
<1>11. BodyAt(n + 1)' = b
  BY <1>1, <1>7 DEF BodyAt, b
<1> DEFINE K == EnrolledKeys(n + 1)'
<1>12. EnrolledKeys(n) \subseteq K
  <2>1. \A i \in 2..n : BodyAt(i)' = BodyAt(i) /\ i \in 2..(n + 1)
    BY <1>7 DEF BodyAt
  <2>2. QED
    BY <2>1 DEF EnrolledKeys
<1>13. b.op = "member_add" => b.key \in K
  <2>1. n + 1 \in 2..(n + 1)
    OBVIOUS
  <2>2. QED
    BY <1>11, <2>1 DEF EnrolledKeys
<1>14. authorized \subseteq K /\ KeysOf(members) \subseteq K
  BY <1>6, <1>12 DEF WriterInv
<1>15. dAuthorized \subseteq K /\ KeysOf(dMembers) \subseteq K
  <2>1. PICK tip \in dBlocks : dAuthorized \union KeysOf(dMembers) \subseteq EnrolledKeys(tip.height + 1)
    BY DEF WriterInv
  <2>2. tip.height + 1 \in 1..n
    BY <1>6 DEF Mirror, DiskWithinMemory
  <2>3. EnrolledKeys(tip.height + 1) \subseteq EnrolledKeys(n)
    BY <2>2, EnrolledGrows
  <2>4. QED
    BY <1>12, <2>1, <2>3
<1>16. /\ authorized' \subseteq K
       /\ KeysOf(members') \subseteq K
       /\ AuthorizedAfter(dAuthorized, b) \subseteq K
       /\ KeysOf(MembersAfter(dMembers, b)) \subseteq K
  <2>1. members \in [Devices -> Keys \union {NoKey}] /\ dMembers \in [Devices -> Keys \union {NoKey}]
    BY DEF TypeInv, TypeOK
  <2> HIDE DEF K
  <2>2. QED
    BY <1>1, <1>2, <1>13, <1>14, <1>15, <2>1, AuthorizedFrom, MembersFrom
<1>17. EnrolledKeys(Len(blocks))' = K
  BY <1>7
<1> HIDE DEF K
<1>18. WritersEnrolled'
  <2>1. ASSUME NEW i \in 2..Len(blocks') PROVE BodyAt(i)' .author \in EnrolledKeys(i - 1)'
    <3>1. CASE i \in 2..n
      <4>1. BodyAt(i)' = BodyAt(i) /\ i - 1 \in 1..n
        BY <1>7, <3>1 DEF BodyAt
      <4>2. BodyAt(i).author \in EnrolledKeys(i - 1)
        BY <1>6, <3>1 DEF WriterInv, WritersEnrolled
      <4>3. QED
        BY <1>9, <4>1, <4>2
    <3>2. CASE i = n + 1
      <4>1. i - 1 = n
        BY <3>2
      <4>2. EnrolledKeys(n)' = EnrolledKeys(n)
        BY <1>9, <1>10
      <4>3. QED
        BY <1>5, <1>6, <1>11, <3>2, <4>1, <4>2
    <3>3. QED
      BY <1>7, <1>8, <3>1, <3>2
  <2>2. QED
    BY <2>1 DEF WritersEnrolled
<1>19. \A g \in Handlers :
         (request'[g] # NoTx /\ answer'[g] = "pending") => request'[g].body.author \in K
  BY <1>3, <1>6, <1>12 DEF WriterInv
<1>20. \E tip \in dBlocks' :
         /\ \A row \in dBlocks' : row.height <= tip.height
         /\ dAuthorized' \union KeysOf(dMembers') \subseteq EnrolledKeys(tip.height + 1)'
  <2>1. CASE UNCHANGED <<dBlocks, dAuthorized, dMembers>>
    <3>1. PICK tip \in dBlocks : /\ \A row \in dBlocks : row.height <= tip.height
                                 /\ dAuthorized \union KeysOf(dMembers) \subseteq EnrolledKeys(tip.height + 1)
      BY DEF WriterInv
    <3>2. tip.height + 1 \in 1..n
      BY <1>6 DEF Mirror, DiskWithinMemory
    <3>3. EnrolledKeys(tip.height + 1)' = EnrolledKeys(tip.height + 1)
      BY <1>9, <3>2
    <3>4. QED
      BY <2>1, <3>1, <3>3
  <2>2. CASE /\ dBlocks' = dBlocks \union {blk}
             /\ dAuthorized' = AuthorizedAfter(dAuthorized, b)
             /\ dMembers' = MembersAfter(dMembers, b)
    <3>1. \A row \in dBlocks : row.height + 1 <= n /\ row.height \in Nat
      BY <1>6 DEF Mirror, DiskWithinMemory, TypeInv, TypeOK, Block
    <3>2. blk.height = n
      BY <1>1, <1>6
    <3>3. PICK top \in dBlocks' : top = blk
      BY <2>2
    <3>4. top.height = n
      BY <3>2, <3>3
    <3>5. \A row \in dBlocks' : row.height <= top.height
      BY <2>2, <3>1, <3>3, <3>4
    <3>6. EnrolledKeys(top.height + 1)' = K
      BY <3>4 DEF K
    <3>7. dAuthorized' \union KeysOf(dMembers') \subseteq K
      BY <1>16, <2>2
    <3>8. QED
      BY <3>5, <3>6, <3>7
  <2>3. QED
    BY <1>4, <2>1, <2>2
<1>21. QED
  BY <1>16, <1>17, <1>18, <1>19, <1>20 DEF WriterInv

LEMMA RestartWriters ==
  ASSUME TypeInv, Mirror, WriterInv, Restart
  PROVE  WriterInv'
<1>1. PICK n \in 1..Len(blocks) :
        /\ Len(blocks') = n
        /\ \A i \in 1..n : blocks'[i] = blocks[i]
        /\ Heights = 0..(n - 1)
  BY RestartIsPrefix
<1>2. n \in Nat \ {0} /\ Len(blocks) \in Nat
  BY DEF TypeInv, TypeOK
<1>3. \A k \in 1..n : EnrolledKeys(k)' = EnrolledKeys(k)
  <2>1. \A k \in 1..n : \A i \in 2..k : blocks'[i] = blocks[i]
    BY <1>1, <1>2
  <2>2. QED
    BY <1>2, <2>1, EnrolledKept
<1>4. PICK tip \in dBlocks : /\ \A row \in dBlocks : row.height <= tip.height
                             /\ dAuthorized \union KeysOf(dMembers) \subseteq EnrolledKeys(tip.height + 1)
  BY DEF WriterInv
<1>5. tip.height + 1 = n
  <2>1. tip.height \in 0..(n - 1)
    BY <1>1, <1>4 DEF Heights
  <2>2. n - 1 \in Heights
    BY <1>1, <1>2
  <2>3. PICK row \in dBlocks : row.height = n - 1
    BY <2>2 DEF Heights
  <2>4. QED
    BY <1>2, <1>4, <2>1, <2>3
<1>6. n \in 1..n
  BY <1>2
<1>7. EnrolledKeys(n)' = EnrolledKeys(n)
  BY <1>3, <1>6
<1>8. /\ authorized' = dAuthorized /\ members' = dMembers
      /\ UNCHANGED <<dBlocks, dAuthorized, dMembers>>
      /\ \A h \in Handlers : request'[h] = NoTx
  BY DEF Restart, DropHandlers, disk
<1>9. EnrolledKeys(Len(blocks))' = EnrolledKeys(n)
  BY <1>1, <1>7
<1>10. WritersEnrolled'
  <2>1. ASSUME NEW i \in 2..n PROVE BodyAt(i)' .author \in EnrolledKeys(i - 1)'
    <3>1. i - 1 \in 1..n /\ i \in 1..n /\ i \in 2..Len(blocks)
      BY <1>1, <1>2
    <3>2. BodyAt(i)' = BodyAt(i)
      BY <1>1, <3>1 DEF BodyAt
    <3>3. EnrolledKeys(i - 1)' = EnrolledKeys(i - 1)
      BY <1>3, <3>1
    <3>4. QED
      BY <3>1, <3>2, <3>3 DEF WriterInv, WritersEnrolled
  <2>2. QED
    BY <1>1, <2>1 DEF WritersEnrolled
<1>11. authorized' \union KeysOf(members') \subseteq EnrolledKeys(Len(blocks))'
  BY <1>4, <1>5, <1>8, <1>9
<1>12. /\ \A row \in dBlocks' : row.height <= tip.height
       /\ tip \in dBlocks'
       /\ dAuthorized' \union KeysOf(dMembers') \subseteq EnrolledKeys(tip.height + 1)'
  BY <1>4, <1>5, <1>7, <1>8
<1>13. QED
  BY <1>8, <1>10, <1>11, <1>12 DEF WriterInv

\* A bundle that is rejected half way brings back members only.
LEMMA RejectGrantWriters ==
  ASSUME TypeInv, WriterInv, NEW h \in Handlers, RejectGrant(h)
  PROVE  WriterInv'
<1> DEFINE b == request[h].body
<1>1. b \in Bodies /\ b.op = "key_rotation_bundle"
  BY PendingTx DEF RejectGrant
<1>2. authorized' = AuthorizedAfter(authorized, b) /\ UNCHANGED <<members, blocks, disk>>
  BY DEF RejectGrant
<1>3. /\ request' = request
      /\ \A g \in Handlers : answer'[g] = "pending" => answer[g] = "pending"
  BY DEF RejectGrant, Answer, TypeInv, TypeOK
<1> HIDE DEF b
<1>4. authorized' \subseteq EnrolledKeys(Len(blocks))
  BY <1>1, <1>2, AuthorizedFrom DEF WriterInv
<1>5. \A k : EnrolledKeys(k)' = EnrolledKeys(k)
  BY <1>2 DEF EnrolledKeys, BodyAt
<1>6. WritersEnrolled'
  BY <1>2 DEF WriterInv, WritersEnrolled, EnrolledKeys, BodyAt
<1>7. EnrolledKeys(Len(blocks))' = EnrolledKeys(Len(blocks))
  BY <1>2 DEF EnrolledKeys, BodyAt
<1>8. \A g \in Handlers :
        (request'[g] # NoTx /\ answer'[g] = "pending") =>
          request'[g].body.author \in EnrolledKeys(Len(blocks))'
  BY <1>3, <1>7 DEF WriterInv
<1>9. \E tip \in dBlocks' :
         /\ \A row \in dBlocks' : row.height <= tip.height
         /\ dAuthorized' \union KeysOf(dMembers') \subseteq EnrolledKeys(tip.height + 1)'
  BY <1>2, <1>5 DEF WriterInv, disk
<1>10. QED
  BY <1>2, <1>4, <1>6, <1>7, <1>8, <1>9 DEF WriterInv

\* A handler whose author may write now has an enrolled author.
LEMMA PostWriters ==
  ASSUME TypeInv, WriterInv, NEW h \in Handlers, NEW t \in Tx, Post(h, t)
  PROVE  WriterInv'
<1>1. UNCHANGED <<memory, disk>>
  BY DEF Post
<1>2. \A g \in Handlers :
        (request'[g] # NoTx /\ answer'[g] = "pending") =>
          \/ g = h /\ request'[g] = t /\ t.body.author \in authorized
          \/ request'[g] = request[g] /\ answer'[g] = answer[g]
  BY DEF Post, TypeInv, TypeOK
<1>3. \A g \in Handlers :
        (request'[g] # NoTx /\ answer'[g] = "pending") =>
          request'[g].body.author \in EnrolledKeys(Len(blocks))
  BY <1>2 DEF WriterInv
<1>4. QED
  BY <1>1, <1>3 DEF memory, disk, WriterInv, WritersEnrolled, EnrolledKeys, BodyAt, KeysOf

\* The other steps move no key, and no handler back to tryAccept.
LEMMA OtherWriters ==
  ASSUME TypeInv, WriterInv, UNCHANGED <<memory, disk>>,
         \A g \in Handlers : (request'[g] # NoTx /\ answer'[g] = "pending") =>
           request'[g] = request[g] /\ answer[g] = "pending"
  PROVE  WriterInv'
BY DEF memory, disk, WriterInv, WritersEnrolled, EnrolledKeys, BodyAt, KeysOf

\* Nobody writes whom the chain below does not name.
THEOREM WriterTheorem == Spec => []WritersEnrolled
<1>1. Init => WriterInv
  <2> SUFFICES ASSUME Init PROVE WriterInv
    OBVIOUS
  <2>1. Len(blocks) = 1 /\ dBlocks = {GenesisBlock} /\ GenesisBlock.height = 0
    BY DEF Init, GenesisBlock
  <2>2. authorized = SeedKeys /\ dAuthorized = SeedKeys /\ KeysOf(members) = {} /\ KeysOf(dMembers) = {}
    BY DEF Init, KeysOf
  <2>3. \A n : SeedKeys \subseteq EnrolledKeys(n)
    BY DEF EnrolledKeys
  <2>4. \A h \in Handlers : request[h] = NoTx
    BY DEF Init
  <2>5. QED
    BY <2>1, <2>2, <2>3, <2>4 DEF WriterInv, WritersEnrolled
<1>2. TypeInv /\ Mirror /\ WriterInv /\ [Next]_vars => WriterInv'
  <2> SUFFICES ASSUME TypeInv, Mirror, WriterInv, [Next]_vars PROVE WriterInv'
    OBVIOUS
  <2>1. ASSUME NEW h \in Handlers, NEW t \in Tx, Post(h, t) PROVE WriterInv'
    BY <2>1, PostWriters
  <2>2. ASSUME NEW h \in Handlers, AcceptDuplicate(h) \/ Reject(h) \/ Reply(h) PROVE WriterInv'
    <3>1. UNCHANGED <<memory, disk>>
      BY <2>2 DEF AcceptDuplicate, Reject, Reply
    <3>2. request \in [Handlers -> Tx \union {NoTx}] /\ answer \in [Handlers -> Codes \union {"pending"}]
      BY DEF TypeInv, TypeOK
    <3>3. \A g \in Handlers : (request'[g] # NoTx /\ answer'[g] = "pending") =>
            request'[g] = request[g] /\ answer[g] = "pending"
      BY <2>2, <3>2 DEF AcceptDuplicate, Reject, Reply, Answer, Pending
    <3>4. QED
      BY <3>1, <3>3, OtherWriters
  <2>3. ASSUME NEW h \in Handlers, RejectGrant(h) PROVE WriterInv'
    BY <2>3, RejectGrantWriters
  <2>4. ASSUME NEW h \in Handlers, Accept(h) PROVE WriterInv'
    BY <2>4, AcceptWriters
  <2>5. CASE Restart
    BY <2>5, RestartWriters
  <2>6. CASE RestartFails
    BY <2>6, OtherWriters DEF RestartFails, DropHandlers
  <2>7. CASE UNCHANGED vars
    BY <2>7, OtherWriters DEF vars
  <2>8. QED
    BY <2>1, <2>2, <2>3, <2>4, <2>5, <2>6, <2>7 DEF Next, TryAccept
<1>3. WriterInv => WritersEnrolled
  BY DEF WriterInv
<1>4. QED
  BY <1>1, <1>2, <1>3, TypeInvInvariant, MirrorInvariant, PTL DEF Spec

-----------------------------------------------------------------------------
(***************************************************************************)
(* What the deduplication sets remember.                                   *)
(***************************************************************************)

\* Everything on the chain is in the sets of the same place, memory or disk.
Remembered ==
  /\ \A i \in 2..Len(blocks) :
       BodyAt(i).id \in txIDs /\ NotesOf(BodyAt(i)) \subseteq noteIDs
  /\ \A row \in dBlocks :
       row.height > 0 => row.leaf.body.id \in dTxIDs /\ NotesOf(row.leaf.body) \subseteq dNoteIDs

LEMMA AcceptOnce ==
  ASSUME TypeInv, Mirror, Remembered, NothingTwice, NEW h \in Handlers, Accept(h)
  PROVE  Remembered' /\ NothingTwice'
<1> DEFINE t == request[h]
           b == t.body
           blk == NewBlock(t)
           n == Len(blocks)
<1>1. /\ blocks' = Append(blocks, blk)
      /\ dBlocks' \in {dBlocks, dBlocks \union {blk}}
  BY AcceptAppends
<1>2. /\ txIDs' = txIDs \union {b.id}
      /\ noteIDs' = noteIDs \union NotesOf(b)
      /\ b.id \notin txIDs
      /\ NotesOf(b) \intersect noteIDs = {}
  BY DEF Accept, Admissible, Duplicate, NoteTaken
<1>3. \/ UNCHANGED <<dBlocks, dTxIDs, dNoteIDs>>
      \/ dBlocks' = dBlocks \union {blk} /\ dTxIDs' = dTxIDs \union {b.id}
           /\ dNoteIDs' = dNoteIDs \union NotesOf(b)
  <2>1. blk.leaf = t
    BY DEF NewBlock
  <2>2. QED
    BY <2>1 DEF Accept, PersistCommits, PersistFails, disk
<1>4. blk.leaf.body = b
  BY DEF NewBlock
<1> HIDE DEF t, b, blk
<1>5. n \in Nat \ {0} /\ Len(blocks') = n + 1
  BY <1>1 DEF TypeInv, TypeOK
<1>6. /\ \A i \in 1..n : blocks'[i] = blocks[i]
      /\ blocks'[n + 1] = blk
  BY <1>1, <1>5 DEF TypeInv, TypeOK
<1> HIDE DEF n
<1>7. /\ \A i \in 2..n : blocks'[i].leaf.body = BodyAt(i)
      /\ blocks'[n + 1].leaf.body = b
  BY <1>4, <1>5, <1>6 DEF BodyAt
<1>9. \A i \in 2..n : BodyAt(i).id \in txIDs /\ NotesOf(BodyAt(i)) \subseteq noteIDs
  BY DEF Remembered, n
<1>10. \A i \in 2..(n + 1) : i \in 2..n \/ i = n + 1
  BY <1>5
<1>11. \A i \in 2..Len(blocks') :
         blocks'[i].leaf.body.id \in txIDs' /\ NotesOf(blocks'[i].leaf.body) \subseteq noteIDs'
  BY <1>2, <1>5, <1>7, <1>9, <1>10
<1>12. \A row \in dBlocks' : row.height > 0 =>
         row.leaf.body.id \in dTxIDs' /\ NotesOf(row.leaf.body) \subseteq dNoteIDs'
  BY <1>3, <1>4 DEF Remembered
<1>13. Remembered'
  BY <1>11, <1>12 DEF Remembered, BodyAt, NotesOf
<1>14. ASSUME NEW i \in 2..Len(blocks'), NEW j \in 2..Len(blocks'), i # j
       PROVE  /\ blocks'[i].leaf.body.id # blocks'[j].leaf.body.id
              /\ NotesOf(blocks'[i].leaf.body) \intersect NotesOf(blocks'[j].leaf.body) = {}
  <2>1. CASE i \in 2..n /\ j \in 2..n
    BY <1>7, <1>14, <2>1 DEF NothingTwice, n
  <2>2. CASE i = n + 1 /\ j \in 2..n
    BY <1>2, <1>7, <1>9, <2>2
  <2>3. CASE i \in 2..n /\ j = n + 1
    BY <1>2, <1>7, <1>9, <2>3
  <2>4. QED
    BY <1>5, <1>10, <1>14, <2>1, <2>2, <2>3
<1>15. NothingTwice'
  BY <1>14 DEF NothingTwice, BodyAt, NotesOf
<1>16. QED
  BY <1>13, <1>15

LEMMA RestartOnce ==
  ASSUME TypeInv, Mirror, Remembered, NothingTwice, Restart
  PROVE  Remembered' /\ NothingTwice'
<1>1. PICK n \in 1..Len(blocks) :
        /\ Len(blocks') = n
        /\ \A i \in 1..n : blocks'[i] = blocks[i] /\ blocks[i] \in dBlocks
  BY RestartIsPrefix
<1>2. /\ txIDs' = dTxIDs
      /\ noteIDs' = dNoteIDs
      /\ UNCHANGED <<dBlocks, dTxIDs, dNoteIDs>>
  BY DEF Restart, disk
<1>3. \A i \in 2..n : i \in 1..n /\ i \in 1..Len(blocks) /\ i \in 2..Len(blocks)
  BY DEF TypeInv, TypeOK
<1>4. \A i \in 2..n : blocks'[i].leaf.body = BodyAt(i) /\ BodyAt(i) = blocks[i].leaf.body
  BY <1>1, <1>3 DEF BodyAt
<1>5. \A i \in 2..n : blocks[i].height > 0
  BY <1>3 DEF Mirror, ChainLinked
<1>6. \A i \in 2..n : BodyAt(i).id \in dTxIDs /\ NotesOf(BodyAt(i)) \subseteq dNoteIDs
  BY <1>1, <1>3, <1>4, <1>5 DEF Remembered
<1>7. \A i \in 2..Len(blocks') :
        blocks'[i].leaf.body.id \in txIDs' /\ NotesOf(blocks'[i].leaf.body) \subseteq noteIDs'
  BY <1>1, <1>2, <1>4, <1>6
<1>8. \A row \in dBlocks' : row.height > 0 =>
        row.leaf.body.id \in dTxIDs' /\ NotesOf(row.leaf.body) \subseteq dNoteIDs'
  BY <1>2 DEF Remembered
<1>9. Remembered'
  BY <1>7, <1>8 DEF Remembered, BodyAt, NotesOf
<1>10. \A i, j \in 2..Len(blocks') : i # j =>
         /\ blocks'[i].leaf.body.id # blocks'[j].leaf.body.id
         /\ NotesOf(blocks'[i].leaf.body) \intersect NotesOf(blocks'[j].leaf.body) = {}
  BY <1>1, <1>3, <1>4 DEF NothingTwice
<1>11. NothingTwice'
  BY <1>10 DEF NothingTwice, BodyAt, NotesOf
<1>12. QED
  BY <1>9, <1>11

\* The sets remember the chain, and nothing is on it twice.
LEMMA OnceInvariant == Spec => [](Remembered /\ NothingTwice)
<1>1. Init => Remembered /\ NothingTwice
  <2> SUFFICES ASSUME Init PROVE Remembered /\ NothingTwice
    OBVIOUS
  <2>1. Len(blocks) = 1 /\ dBlocks = {GenesisBlock} /\ GenesisBlock.height = 0
    BY DEF Init, GenesisBlock
  <2>2. QED
    BY <2>1 DEF Remembered, NothingTwice
<1>2. TypeInv /\ Mirror /\ (Remembered /\ NothingTwice) /\ [Next]_vars
        => (Remembered /\ NothingTwice)'
  <2> SUFFICES ASSUME TypeInv, Mirror, Remembered, NothingTwice, [Next]_vars
               PROVE  (Remembered /\ NothingTwice)'
    OBVIOUS
  <2>1. CASE UNCHANGED <<blocks, leafHashes, txIDs, noteIDs, count, disk, anchors>>
    BY <2>1 DEF Remembered, NothingTwice, BodyAt, NotesOf, disk
  <2>2. QED
    BY <2>1, AcceptOnce, RestartOnce, OtherSteps
<1>3. QED
  BY <1>1, <1>2, TypeInvInvariant, MirrorInvariant, PTL DEF Spec

\* No transaction and no note is on the chain twice.
THEOREM OnceTheorem == Spec => []NothingTwice
<1>1. Remembered /\ NothingTwice => NothingTwice
  OBVIOUS
<1>2. QED
  BY <1>1, OnceInvariant, PTL

-----------------------------------------------------------------------------
(***************************************************************************)
(* Key epochs.                                                             *)
(***************************************************************************)

IsBundle(b) == b.op = "key_rotation_bundle"

\* The epoch, in memory and on disk, is at least that of every bundle there.
EpochsReached ==
  /\ \A i \in 2..Len(blocks) : IsBundle(BodyAt(i)) => BodyAt(i).epoch \in 0..keyEpoch
  /\ \A row \in dBlocks :
       (row.height > 0 /\ IsBundle(row.leaf.body)) => row.leaf.body.epoch \in 0..dKeyEpoch

\* A stored row is the body of a block in memory.
LEMMA RowIsBody ==
  ASSUME TypeInv, Mirror, NEW row \in dBlocks, row.height > 0
  PROVE  row.height + 1 \in 2..Len(blocks) /\ BodyAt(row.height + 1) = row.leaf.body
<1>1. row.height \in Nat
  BY DEF TypeInv, TypeOK, Block
<1>2. row.height + 1 \in 1..Len(blocks) /\ blocks[row.height + 1] = row
  BY DEF Mirror, DiskWithinMemory
<1>3. QED
  BY <1>1, <1>2 DEF BodyAt, TypeInv, TypeOK

LEMMA AcceptFences ==
  ASSUME TypeInv, Mirror, EpochsReached, RotationFences, NEW h \in Handlers, Accept(h)
  PROVE  EpochsReached' /\ RotationFences'
<1> DEFINE t == request[h]
           b == t.body
           blk == NewBlock(t)
           n == Len(blocks)
<1>1. /\ blocks' = Append(blocks, blk)
      /\ b \in Bodies
  BY AcceptAppends
<1>2. /\ b.epoch \in Nat
      /\ keyEpoch \in Nat
      /\ b.op = "create" => b.epoch = keyEpoch
      /\ IsBundle(b) => b.epoch > keyEpoch
      /\ keyEpoch' = EpochAfter(keyEpoch, b)
  BY <1>1, BodyFields, VerdictOK DEF Accept, TypeInv, TypeOK, IsBundle
<1>3. \/ UNCHANGED <<dBlocks, dKeyEpoch>>
      \/ dBlocks' = dBlocks \union {blk} /\ dKeyEpoch' = EpochAfter(dKeyEpoch, b)
  <2>1. blk.leaf = t
    BY DEF NewBlock
  <2>2. QED
    BY <2>1 DEF Accept, PersistCommits, PersistFails, disk
<1>4. blk.leaf.body = b
  BY DEF NewBlock
<1> HIDE DEF t, b, blk
<1>5. n \in Nat \ {0} /\ Len(blocks') = n + 1
  BY <1>1 DEF TypeInv, TypeOK
<1>6. /\ \A i \in 1..n : blocks'[i] = blocks[i]
      /\ blocks'[n + 1] = blk
  BY <1>1, <1>5 DEF TypeInv, TypeOK
<1> HIDE DEF n
<1>7. /\ \A i \in 2..n : blocks'[i].leaf.body = BodyAt(i)
      /\ blocks'[n + 1].leaf.body = b
  BY <1>4, <1>5, <1>6 DEF BodyAt
<1>8. \A i \in 2..(n + 1) : i \in 2..n \/ i = n + 1
  BY <1>5
<1>9. \A i \in 2..n : IsBundle(BodyAt(i)) => BodyAt(i).epoch \in 0..keyEpoch
  BY DEF EpochsReached, n
<1>10. /\ keyEpoch' \in Nat
       /\ keyEpoch' >= keyEpoch
       /\ IsBundle(b) => b.epoch = keyEpoch' /\ b.epoch > keyEpoch
  BY <1>2 DEF EpochAfter, IsBundle
<1>11. EpochsReached'
  <2>1. ASSUME NEW i \in 2..Len(blocks'), IsBundle(blocks'[i].leaf.body)
        PROVE  blocks'[i].leaf.body.epoch \in 0..keyEpoch'
    <3>1. CASE i \in 2..n
      <4>1. BodyAt(i).epoch \in 0..keyEpoch
        BY <1>7, <1>9, <2>1, <3>1
      <4>2. QED
        BY <1>2, <1>7, <1>10, <3>1, <4>1
    <3>2. CASE i = n + 1
      BY <1>2, <1>7, <1>10, <2>1, <3>2
    <3>3. QED
      BY <1>5, <1>8, <3>1, <3>2
  <2>2. ASSUME NEW row \in dBlocks', row.height > 0, IsBundle(row.leaf.body)
        PROVE  row.leaf.body.epoch \in 0..dKeyEpoch'
    <3>1. CASE UNCHANGED <<dBlocks, dKeyEpoch>>
      BY <2>2, <3>1 DEF EpochsReached
    <3>2. CASE /\ dBlocks' = dBlocks \union {blk}
               /\ dKeyEpoch' = EpochAfter(dKeyEpoch, b)
      <4>1. CASE row = blk
        BY <1>2, <1>4, <2>2, <3>2, <4>1 DEF EpochAfter, IsBundle
      <4>2. CASE row \in dBlocks /\ IsBundle(b)
        <5>1. row.leaf.body.epoch \in 0..keyEpoch
          BY <2>2, <4>2, RowIsBody DEF EpochsReached
        <5>2. dKeyEpoch' = b.epoch
          BY <3>2, <4>2 DEF EpochAfter, IsBundle
        <5>3. QED
          BY <1>2, <4>2, <5>1, <5>2
      <4>3. CASE row \in dBlocks /\ ~IsBundle(b)
        BY <2>2, <3>2, <4>3 DEF EpochsReached, EpochAfter, IsBundle
      <4>4. QED
        BY <3>2, <4>1, <4>2, <4>3
    <3>3. QED
      BY <1>3, <3>1, <3>2
  <2>3. QED
    BY <2>1, <2>2 DEF EpochsReached, BodyAt, IsBundle
<1>12. ASSUME NEW i \in 2..Len(blocks'), NEW j \in 2..Len(blocks'), i < j,
              IsBundle(blocks'[i].leaf.body)
       PROVE  LET x == blocks'[i].leaf.body
                  y == blocks'[j].leaf.body
              IN  /\ y.op = "create" => y.epoch >= x.epoch
                  /\ IsBundle(y) => y.epoch > x.epoch
  <2>1. CASE j \in 2..n
    <3>1. i \in 2..n
      BY <1>5, <1>12, <2>1
    <3>2. blocks'[i].leaf.body = BodyAt(i) /\ blocks'[j].leaf.body = BodyAt(j)
      BY <1>7, <2>1, <3>1
    <3>3. QED
      BY <1>12, <2>1, <3>1, <3>2 DEF RotationFences, IsBundle, n
  <2>2. CASE j = n + 1
    <3>1. i \in 2..n
      BY <1>5, <1>12, <2>2
    <3>2. BodyAt(i).epoch \in 0..keyEpoch
      BY <1>7, <1>9, <1>12, <3>1
    <3>3. QED
      BY <1>2, <1>7, <2>2, <3>1, <3>2
  <2>3. QED
    BY <1>5, <1>8, <2>1, <2>2
<1>13. RotationFences'
  BY <1>12 DEF RotationFences, BodyAt, IsBundle
<1>14. QED
  BY <1>11, <1>13

LEMMA RestartFences ==
  ASSUME TypeInv, Mirror, EpochsReached, RotationFences, Restart
  PROVE  EpochsReached' /\ RotationFences'
<1>1. PICK n \in 1..Len(blocks) :
        /\ Len(blocks') = n
        /\ \A i \in 1..n : blocks'[i] = blocks[i] /\ blocks[i] \in dBlocks
  BY RestartIsPrefix
<1>2. keyEpoch' = dKeyEpoch /\ UNCHANGED <<dBlocks, dKeyEpoch>>
  BY DEF Restart, disk
<1>3. \A i \in 2..n : i \in 1..n /\ i \in 1..Len(blocks) /\ i \in 2..Len(blocks)
  BY DEF TypeInv, TypeOK
<1>4. \A i \in 2..n : blocks'[i].leaf.body = BodyAt(i) /\ BodyAt(i) = blocks[i].leaf.body
  BY <1>1, <1>3 DEF BodyAt
<1>5. \A i \in 2..n : blocks[i].height > 0
  BY <1>3 DEF Mirror, ChainLinked
<1>6. \A i \in 2..Len(blocks') :
        IsBundle(blocks'[i].leaf.body) => blocks'[i].leaf.body.epoch \in 0..keyEpoch'
  BY <1>1, <1>2, <1>3, <1>4, <1>5 DEF EpochsReached
<1>7. EpochsReached'
  BY <1>2, <1>6 DEF EpochsReached, BodyAt, IsBundle
<1>8. \A i, j \in 2..Len(blocks') :
        (i < j /\ IsBundle(blocks'[i].leaf.body)) =>
          /\ blocks'[j].leaf.body.op = "create" =>
               blocks'[j].leaf.body.epoch >= blocks'[i].leaf.body.epoch
          /\ IsBundle(blocks'[j].leaf.body) =>
               blocks'[j].leaf.body.epoch > blocks'[i].leaf.body.epoch
  BY <1>1, <1>3, <1>4 DEF RotationFences, IsBundle
<1>9. RotationFences'
  BY <1>8 DEF RotationFences, BodyAt, IsBundle
<1>10. QED
  BY <1>7, <1>9

\* A rotation fences the old epoch off, and only a later one follows it.
THEOREM RotationTheorem == Spec => []RotationFences
<1>1. Init => EpochsReached /\ RotationFences
  <2> SUFFICES ASSUME Init PROVE EpochsReached /\ RotationFences
    OBVIOUS
  <2>1. Len(blocks) = 1 /\ dBlocks = {GenesisBlock} /\ GenesisBlock.height = 0
    BY DEF Init, GenesisBlock
  <2>2. QED
    BY <2>1 DEF EpochsReached, RotationFences
<1>2. TypeInv /\ Mirror /\ (EpochsReached /\ RotationFences) /\ [Next]_vars
        => (EpochsReached /\ RotationFences)'
  <2> SUFFICES ASSUME TypeInv, Mirror, EpochsReached, RotationFences, [Next]_vars
               PROVE  (EpochsReached /\ RotationFences)'
    OBVIOUS
  <2>1. ASSUME NEW h \in Handlers, RejectGrant(h)
        PROVE  (EpochsReached /\ RotationFences)'
    <3>1. blocks' = blocks /\ dBlocks' = dBlocks /\ dKeyEpoch' = dKeyEpoch
      BY <2>1 DEF RejectGrant, disk
    <3>2. /\ keyEpoch \in Nat
          /\ keyEpoch' \in Nat
          /\ keyEpoch' > keyEpoch
      BY <2>1, PendingTx, BodyFields, VerdictOK DEF RejectGrant, TypeInv, TypeOK
    <3>3. 0..keyEpoch \subseteq 0..keyEpoch'
      BY <3>2
    <3>4. QED
      BY <3>1, <3>3 DEF EpochsReached, RotationFences, BodyAt, IsBundle
  <2>2. CASE UNCHANGED <<blocks, dBlocks, dKeyEpoch, keyEpoch>>
    BY <2>2 DEF EpochsReached, RotationFences, BodyAt, IsBundle
  <2>3. QED
    BY <2>1, <2>2, AcceptFences, RestartFences
    DEF Next, TryAccept, Post, AcceptDuplicate, Reject, Reply, RestartFails, vars, memory, disk
<1>3. QED
  BY <1>1, <1>2, TypeInvInvariant, MirrorInvariant, PTL DEF Spec

-----------------------------------------------------------------------------
(***************************************************************************)
(* The anchor log.                                                         *)
(***************************************************************************)

\* The anchor log checkpoints stored blocks only, in height order.
THEOREM AnchorTheorem == Spec => []AnchorsMatchDisk
<1>1. Init => AnchorsMatchDisk
  <2> SUFFICES ASSUME Init PROVE AnchorsMatchDisk
    OBVIOUS
  <2>1. /\ anchors = <<[height |-> 0, hash |-> GenesisHash]>>
        /\ dBlocks = {GenesisBlock}
        /\ AnchorOf(GenesisBlock) = [height |-> 0, hash |-> GenesisHash]
    BY DEF Init, AnchorOf, GenesisBlock
  <2>2. DOMAIN anchors = {1} /\ anchors[1] = AnchorOf(GenesisBlock)
    BY <2>1
  <2>3. QED
    BY <2>1, <2>2 DEF AnchorsMatchDisk
<1>2. TypeInv /\ Mirror /\ AnchorsMatchDisk /\ [Next]_vars => AnchorsMatchDisk'
  <2> SUFFICES ASSUME TypeInv, Mirror, AnchorsMatchDisk, [Next]_vars
               PROVE  AnchorsMatchDisk'
    OBVIOUS
  <2>1. ASSUME NEW h \in Handlers, Accept(h) PROVE AnchorsMatchDisk'
    <3> DEFINE blk == NewBlock(request[h])
               m == Len(anchors)
    <3>1. \/ UNCHANGED <<dBlocks, anchors>>
          \/ dBlocks' = dBlocks \union {blk}
             /\ anchors' \in {anchors, Append(anchors, AnchorOf(blk))}
      BY <2>1 DEF Accept, PersistCommits, PersistFails, disk
    <3>2. blk.height = Len(blocks) /\ AnchorOf(blk).height = Len(blocks)
      BY DEF NewBlock, AnchorOf
    <3> HIDE DEF blk
    <3>3. CASE anchors' = anchors
      BY <3>1, <3>3 DEF AnchorsMatchDisk
    <3>4. CASE /\ dBlocks' = dBlocks \union {blk}
               /\ anchors' = Append(anchors, AnchorOf(blk))
      <4>1. /\ m \in Nat
            /\ DOMAIN anchors = 1..m
            /\ DOMAIN anchors' = 1..(m + 1)
            /\ \A i \in 1..m : anchors'[i] = anchors[i]
            /\ anchors'[m + 1] = AnchorOf(blk)
        BY <3>4 DEF TypeInv, TypeOK
      <4> HIDE DEF m
      <4>2. \A i \in 1..m : \E row \in dBlocks : anchors[i] = AnchorOf(row)
        BY <4>1 DEF AnchorsMatchDisk
      <4>3. \A i \in 1..m : anchors[i].height < Len(blocks)
        <5> SUFFICES ASSUME NEW i \in 1..m PROVE anchors[i].height < Len(blocks)
          OBVIOUS
        <5>1. PICK row \in dBlocks : anchors[i] = AnchorOf(row)
          BY <4>2
        <5>2. row.height + 1 \in 1..Len(blocks) /\ row.height \in Nat
          BY DEF Mirror, DiskWithinMemory, TypeInv, TypeOK, Block
        <5>3. QED
          BY <5>1, <5>2 DEF AnchorOf, TypeInv, TypeOK
      <4>4. \A i \in 1..(m + 1) : i \in 1..m \/ i = m + 1
        BY <4>1
      <4>5. \A i \in DOMAIN anchors' : \E row \in dBlocks' : anchors'[i] = AnchorOf(row)
        BY <3>4, <4>1, <4>2, <4>4
      <4>6. ASSUME NEW i \in 1..(m + 1), NEW j \in 1..(m + 1), i < j
            PROVE  anchors'[i].height < anchors'[j].height
        <5>1. i \in 1..m
          BY <4>1, <4>6
        <5>2. CASE j \in 1..m
          BY <4>1, <4>6, <5>1, <5>2 DEF AnchorsMatchDisk
        <5>3. CASE j = m + 1
          BY <3>2, <4>1, <4>3, <5>1, <5>3
        <5>4. QED
          BY <4>4, <5>2, <5>3
      <4>7. QED
        BY <4>1, <4>5, <4>6 DEF AnchorsMatchDisk, AnchorOf
    <3>5. QED
      BY <3>1, <3>3, <3>4
  <2>2. CASE UNCHANGED <<dBlocks, anchors>>
    BY <2>2 DEF AnchorsMatchDisk
  <2>3. QED
    BY <2>1, <2>2, OtherSteps DEF Restart, disk
<1>3. QED
  BY <1>1, <1>2, TypeInvInvariant, MirrorInvariant, PTL DEF Spec

-----------------------------------------------------------------------------
(***************************************************************************)
(* The count of accepted transactions, which fixes the proof-of-work       *)
(* epoch. A restart counts the rows of tx_ids instead.                     *)
(***************************************************************************)
Counted ==
  /\ count = Len(blocks) - 1
  /\ IsFiniteSet(dBlocks)
  /\ Cardinality(dBlocks) = Cardinality(dTxIDs) + 1

\* Stored blocks have distinct heights, so that a gapless database has as many
\* blocks as its height says.
LEMMA GaplessDatabase ==
  ASSUME Mirror, IsFiniteSet(dBlocks), NEW n \in Nat \ {0}, Heights = 0..(n - 1)
  PROVE  Cardinality(dBlocks) = n
<1> DEFINE f == [row \in dBlocks |-> row.height]
<1>1. f \in [dBlocks -> 0..(n - 1)]
  BY DEF Heights
<1>2. \A r, s \in dBlocks : f[r] = f[s] => r = s
  BY DEF Mirror, DiskWithinMemory
<1>3. \A k \in 0..(n - 1) : \E r \in dBlocks : f[r] = k
  BY DEF Heights
<1> HIDE DEF f
<1>4. f \in Bijection(dBlocks, 0..(n - 1))
  BY <1>1, <1>2, <1>3, Fun_IsBij
<1>5. ExistsBijection(dBlocks, 0..(n - 1))
  BY <1>4 DEF ExistsBijection
<1>6. Cardinality(0..(n - 1)) = Cardinality(dBlocks)
  BY <1>5, FS_Bijection
<1>7. Cardinality(0..(n - 1)) = n
  BY FS_Interval
<1>8. QED
  BY <1>6, <1>7

LEMMA AcceptCounted ==
  ASSUME TypeInv, Mirror, Counted, PowEpochByPosition, NEW h \in Handlers, Accept(h)
  PROVE  Counted' /\ PowEpochByPosition'
<1> DEFINE t == request[h]
           blk == NewBlock(t)
           n == Len(blocks)
<1>1. blocks' = Append(blocks, blk) /\ count' = count + 1
  BY DEF Accept
<1>2. blk.leaf = t /\ t.pow = count \div PowEpochLength
  BY DEF NewBlock, Accept, Admissible
<1>3. \/ UNCHANGED <<dBlocks, dTxIDs>>
      \/ /\ dBlocks' = dBlocks \union {blk}
         /\ dTxIDs' = dTxIDs \union {t.body.id}
         /\ t.body.id \notin dTxIDs
         /\ blk \notin dBlocks
  BY <1>2 DEF Accept, PersistCommits, PersistFails, RowsFree, disk
<1> HIDE DEF t, blk
<1>4. /\ n \in Nat \ {0}
      /\ Len(blocks') = n + 1
      /\ \A i \in 1..n : blocks'[i] = blocks[i]
      /\ blocks'[n + 1] = blk
  BY <1>1 DEF TypeInv, TypeOK
<1>5. count = n - 1
  BY DEF Counted
<1> HIDE DEF n
<1>6. count' = Len(blocks') - 1
  BY <1>1, <1>4, <1>5
<1>7. IsFiniteSet(dBlocks') /\ Cardinality(dBlocks') = Cardinality(dTxIDs') + 1
  <2>1. CASE UNCHANGED <<dBlocks, dTxIDs>>
    BY <2>1 DEF Counted
  <2>2. CASE /\ dBlocks' = dBlocks \union {blk}
             /\ dTxIDs' = dTxIDs \union {t.body.id}
             /\ t.body.id \notin dTxIDs
             /\ blk \notin dBlocks
    <3>1. IsFiniteSet(dBlocks) /\ IsFiniteSet(dTxIDs)
      BY DEF Counted, TypeInv, FiniteIds
    <3>2. IsFiniteSet(dBlocks') /\ Cardinality(dBlocks') = Cardinality(dBlocks) + 1
      BY <2>2, <3>1, FS_AddElement
    <3>3. Cardinality(dTxIDs') = Cardinality(dTxIDs) + 1
      BY <2>2, <3>1, FS_AddElement
    <3>4. QED
      BY <3>2, <3>3 DEF Counted
  <2>3. QED
    BY <1>3, <2>1, <2>2
<1>8. ASSUME NEW i \in 2..Len(blocks')
      PROVE  blocks'[i].leaf.pow = (i - 2) \div PowEpochLength
  <2>1. CASE i \in 2..n
    BY <1>4, <2>1 DEF PowEpochByPosition, n
  <2>2. CASE i = n + 1
    <3>1. i - 2 = count
      BY <1>4, <1>5, <2>2
    <3>2. QED
      BY <1>2, <1>4, <2>2, <3>1
  <2>3. QED
    BY <1>4, <2>1, <2>2
<1>9. QED
  BY <1>6, <1>7, <1>8 DEF Counted, PowEpochByPosition

LEMMA RestartCounted ==
  ASSUME TypeInv, Mirror, Counted, PowEpochByPosition, Restart
  PROVE  Counted' /\ PowEpochByPosition'
<1>1. PICK n \in 1..Len(blocks) :
        /\ Len(blocks') = n
        /\ \A i \in 1..n : blocks'[i] = blocks[i]
        /\ Heights = 0..(n - 1)
  BY RestartIsPrefix
<1>2. n \in Nat \ {0} /\ \A i \in 2..n : i \in 1..n /\ i \in 2..Len(blocks)
  BY DEF TypeInv, TypeOK
<1>3. count' = Cardinality(dTxIDs) /\ UNCHANGED <<dBlocks, dTxIDs>>
  BY DEF Restart, disk
<1>4. Cardinality(dBlocks) = n
  BY <1>1, <1>2, GaplessDatabase DEF Counted
<1>5. Cardinality(dTxIDs) \in Nat
  BY FS_CardinalityType DEF TypeInv, FiniteIds
<1>6. count' = Len(blocks') - 1
  BY <1>1, <1>2, <1>3, <1>4, <1>5 DEF Counted
<1>7. Counted'
  BY <1>3, <1>6 DEF Counted
<1>8. PowEpochByPosition'
  BY <1>1, <1>2 DEF PowEpochByPosition
<1>9. QED
  BY <1>7, <1>8

\* The count is that of the chain, and so are the epochs of its blocks.
LEMMA CountedInvariant == Spec => [](Counted /\ PowEpochByPosition)
<1>1. Init => Counted /\ PowEpochByPosition
  <2> SUFFICES ASSUME Init PROVE Counted /\ PowEpochByPosition
    OBVIOUS
  <2>1. Len(blocks) = 1 /\ dBlocks = {GenesisBlock} /\ dTxIDs = {} /\ count = 0
    BY DEF Init
  <2>2. /\ IsFiniteSet(dBlocks)
        /\ Cardinality(dBlocks) = 1
        /\ Cardinality(dTxIDs) = 0
    BY <2>1, FS_Singleton, FS_EmptySet
  <2>3. QED
    BY <2>1, <2>2 DEF Counted, PowEpochByPosition
<1>2. TypeInv /\ Mirror /\ (Counted /\ PowEpochByPosition) /\ [Next]_vars
        => (Counted /\ PowEpochByPosition)'
  <2> SUFFICES ASSUME TypeInv, Mirror, Counted, PowEpochByPosition, [Next]_vars
               PROVE  (Counted /\ PowEpochByPosition)'
    OBVIOUS
  <2>1. CASE UNCHANGED <<blocks, leafHashes, txIDs, noteIDs, count, disk, anchors>>
    BY <2>1 DEF Counted, PowEpochByPosition, disk
  <2>2. QED
    BY <2>1, AcceptCounted, RestartCounted, OtherSteps
<1>3. QED
  BY <1>1, <1>2, TypeInvInvariant, MirrorInvariant, PTL DEF Spec

\* The epoch a block was mined for follows from its place on the chain.
THEOREM PowEpochTheorem == Spec => []PowEpochByPosition
<1>1. Counted /\ PowEpochByPosition => PowEpochByPosition
  OBVIOUS
<1>2. QED
  BY <1>1, CountedInvariant, PTL

=============================================================================
