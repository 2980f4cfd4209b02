--------------------------- MODULE LedgerLogProofs ---------------------------
(***************************************************************************)
(* What LedgerLog promises of a careful stream, for any number of          *)
(* handlers, devices and transactions: memory and database are one, what a *)
(* client was told is on disk, the memberships are those of the chain, and *)
(* the handler with its crashes and restarts implements the append-only    *)
(* log of StreamLog.                                                       *)
(***************************************************************************)
EXTENDS LedgerLog, LedgerChainProofs, NumberLemmas

-----------------------------------------------------------------------------
(***************************************************************************)
(* The inductive invariant.                                                *)
(***************************************************************************)

\* A restart would read what is in memory.
MemoryIsDisk ==
  /\ \A i \in 1..Len(blocks) : blocks[i] \in dBlocks
  /\ dTxIDs = txIDs
  /\ dNoteIDs = noteIDs
  /\ dAuthorized = authorized
  /\ dMembers = members
  /\ dKeyEpoch = keyEpoch

\* The deduplication set holds nothing but the ids on the chain.
IdsOnChain == \A id \in txIDs : \E i \in 2..Len(blocks) : BodyAt(i).id = id

\* A device is a member because of an enrolment on the chain.
EnrolledOnChain ==
  \A d \in Devices : members[d] # NoKey =>
    \E i \in 2..Len(blocks) : BodyAt(i).op = "member_add" /\ BodyAt(i).device = d

\* What was within the owner's reach when it submitted a bundle still is.
BundlesWithinReach ==
  \A h \in Handlers :
    request[h] # NoTx /\ request[h].body.op = "key_rotation_bundle"
      => AllGrantsKnown(request[h].body)

\* "OK" is answered only to a transaction that is on the chain.
AnsweredOnChain ==
  \A h \in Handlers : answer[h] = "OK" => request[h] # NoTx /\ request[h].body.id \in txIDs

\* A receipt names a transaction that is on the chain, at most as high.
ReceiptsOnChain ==
  \A r \in receipts : \E i \in 2..Len(blocks) : i - 1 <= r.seq /\ BodyAt(i).id = r.id

\* Every block after genesis holds a transaction of a client.
TransactionsOnChain == \A i \in 2..Len(blocks) : blocks[i].leaf \in Tx

CarefulInv ==
  /\ MemoryIsDisk
  /\ TransactionsOnChain
  /\ IdsOnChain
  /\ EnrolledOnChain
  /\ BundlesWithinReach
  /\ AnsweredOnChain
  /\ ReceiptsOnChain

\* What Ledger's own invariants say of the same states.
LedgerInv == TypeInv /\ Mirror /\ Remembered /\ NothingTwice /\ Counted

LEMMA LedgerInvariant == Spec => []LedgerInv
<1>1. TypeInv /\ Mirror /\ (Remembered /\ NothingTwice) /\ (Counted /\ PowEpochByPosition)
        => LedgerInv
  BY DEF LedgerInv
<1>2. QED
  BY <1>1, TypeInvInvariant, MirrorInvariant, OnceInvariant, CountedInvariant, PTL

-----------------------------------------------------------------------------
(***************************************************************************)
(* What the invariant says of each step.                                   *)
(***************************************************************************)

\* The owner enrols a device that is enrolled already only with the transaction
\* that enrolled it, which is a duplicate.
LEMMA EnrolsOnce ==
  ASSUME CarefulStream, LedgerInv, CarefulInv,
         NEW b \in Bodies, b.op = "member_add", b.id \notin txIDs
  PROVE  members[b.device] = NoKey
<1> SUFFICES ASSUME members[b.device] # NoKey PROVE FALSE
  OBVIOUS
<1>1. b.device \in Devices
  BY BodyFields
<1>2. PICK i \in 2..Len(blocks) : BodyAt(i).op = "member_add" /\ BodyAt(i).device = b.device
  BY <1>1 DEF CarefulInv, EnrolledOnChain
<1>3. BodyAt(i) \in Bodies
  BY <1>2 DEF CarefulInv, TransactionsOnChain, Tx, BodyAt
<1>4. BodyAt(i) = b
  BY <1>2, <1>3 DEF CarefulStream
<1>5. BodyAt(i).id \in txIDs
  BY <1>2 DEF LedgerInv, Remembered
<1> QED BY <1>4, <1>5

\* What tryAccept found free in memory is free in the tables.
LEMMA RowsAreFree ==
  ASSUME CarefulStream, LedgerInv, CarefulInv, NEW h \in Handlers,
         Pending(h), Admissible(request[h])
  PROVE  RowsFree(NewBlock(request[h]))
<1> DEFINE t == request[h]
           b == t.body
<1>1. t \in Tx /\ b \in Bodies
  BY PendingTx DEF LedgerInv
<1>2. /\ NewBlock(t).height = Len(blocks)
      /\ NewBlock(t).leaf = t
  BY DEF NewBlock
<1>3. b.id \notin txIDs /\ NotesOf(b) \intersect noteIDs = {}
  BY DEF Admissible, Duplicate, NoteTaken
<1>4. \A row \in dBlocks : row.height # Len(blocks)
  <2> SUFFICES ASSUME NEW row \in dBlocks PROVE row.height # Len(blocks)
    OBVIOUS
  <2>1. row.height + 1 \in 1..Len(blocks) /\ row.height \in Nat
    BY DEF LedgerInv, Mirror, DiskWithinMemory, TypeInv, TypeOK, Block
  <2> QED BY <2>1
<1>5. b.op = "member_add" => members[b.device] = NoKey
  BY <1>1, <1>3, EnrolsOnce
<1> HIDE DEF t
<1>6. b.id \notin dTxIDs /\ NotesOf(b) \intersect dNoteIDs = {} /\ dMembers = members
  BY <1>3 DEF CarefulInv, MemoryIsDisk
<1>7. RowsFree(NewBlock(t))
  BY <1>2, <1>4, <1>5, <1>6 DEF RowsFree
<1> QED BY <1>7 DEF t

\* So an acceptance is stored, and leaves memory and tables equal.
LEMMA AcceptCommits ==
  ASSUME CarefulStream, LedgerInv, CarefulInv, NEW h \in Handlers, Accept(h)
  PROVE  /\ PersistCommits(h, NewBlock(request[h]))
         /\ request[h] \in Tx
         /\ request[h].body \in Bodies
         /\ Len(blocks) \in Nat \ {0}
         /\ Len(blocks') = Len(blocks) + 1
         /\ \A i \in 1..Len(blocks) : blocks'[i] = blocks[i]
         /\ blocks'[Len(blocks) + 1] = NewBlock(request[h])
         /\ NewBlock(request[h]).leaf = request[h]
<1>1. RowsFree(NewBlock(request[h]))
  BY RowsAreFree DEF Accept
<1>2. PersistCommits(h, NewBlock(request[h]))
  BY <1>1 DEF Accept, PersistFails, CarefulStream
<1>3. /\ request[h] \in Tx
      /\ request[h].body \in Bodies
      /\ blocks' = Append(blocks, NewBlock(request[h]))
      /\ NewBlock(request[h]) \in Block
  BY AcceptAppends DEF LedgerInv
<1>4. blocks \in Seq(Block) /\ Len(blocks) \in Nat \ {0}
  BY DEF LedgerInv, TypeInv, TypeOK
<1>5. NewBlock(request[h]).leaf = request[h]
  BY DEF NewBlock
<1> QED BY <1>2, <1>3, <1>4, <1>5

\* A bundle is never rejected half way.
LEMMA NoHalfRejection ==
  ASSUME CarefulInv, NEW h \in Handlers
  PROVE  ~RejectGrant(h)
BY DEF CarefulInv, BundlesWithinReach, RejectGrant, Pending

\* A restart finds everything it had.
LEMMA RestartKeepsAll ==
  ASSUME LedgerInv, CarefulInv, Restart
  PROVE  UNCHANGED <<memory, disk>>
<1>1. PICK n \in 1..Len(blocks) :
        /\ Len(blocks') = n
        /\ Len(leafHashes') = n
        /\ \A i \in 1..n : blocks'[i] = blocks[i] /\ leafHashes'[i] = leafHashes[i]
        /\ Heights = 0..(n - 1)
  BY RestartIsPrefix DEF LedgerInv
<1>2. blocks \in Seq(Block) /\ leafHashes \in Seq(Leaf) /\ Len(blocks) \in Nat \ {0}
  BY DEF LedgerInv, TypeInv, TypeOK
<1>3. blocks' \in Seq(Block) /\ leafHashes' \in Seq(Leaf)
  BY RestartTypeInv DEF LedgerInv, TypeInv, TypeOK
<1>4. n = Len(blocks)
  <2>1. blocks[Len(blocks)] \in dBlocks /\ blocks[Len(blocks)].height = Len(blocks) - 1
    BY <1>2 DEF CarefulInv, MemoryIsDisk, LedgerInv, Mirror, ChainLinked
  <2>2. Len(blocks) - 1 \in Heights
    BY <2>1 DEF Heights
  <2> QED BY <1>1, <1>2, <2>2
<1>5. Len(leafHashes) = Len(blocks)
  BY DEF LedgerInv, Mirror, ChainLinked
<1>6. blocks' = blocks /\ leafHashes' = leafHashes
  BY <1>1, <1>2, <1>3, <1>4, <1>5
<1>7. count' = Cardinality(dTxIDs) /\ Cardinality(dTxIDs) \in Nat
  BY FS_CardinalityType DEF Restart, LedgerInv, TypeInv, FiniteIds
<1>8. count = Cardinality(dTxIDs)
  <2>1. Cardinality(dBlocks) = n
    BY <1>1, <1>2, GaplessDatabase DEF LedgerInv, Counted
  <2> QED BY <1>2, <1>4, <1>7, <2>1 DEF LedgerInv, Counted
<1> QED BY <1>6, <1>7, <1>8 DEF Restart, CarefulInv, MemoryIsDisk, memory, disk

-----------------------------------------------------------------------------
(***************************************************************************)
(* The invariant is inductive: one lemma per action.                       *)
(***************************************************************************)
LEMMA InitCareful == Init => CarefulInv
<1> SUFFICES ASSUME Init PROVE CarefulInv
  OBVIOUS
<1>1. blocks = <<GenesisBlock>> /\ dBlocks = {GenesisBlock}
  BY DEF Init
<1>2. Len(blocks) = 1 /\ blocks[1] = GenesisBlock
  BY <1>1
<1>3. MemoryIsDisk
  BY <1>1, <1>2 DEF MemoryIsDisk, Init
<1>4. TransactionsOnChain /\ ReceiptsOnChain /\ IdsOnChain
  BY <1>2 DEF TransactionsOnChain, ReceiptsOnChain, IdsOnChain, Init
<1>5. EnrolledOnChain
  BY DEF EnrolledOnChain, Init
<1>6. BundlesWithinReach /\ AnsweredOnChain
  BY DEF BundlesWithinReach, AnsweredOnChain, Init
<1> QED BY <1>3, <1>4, <1>5, <1>6 DEF CarefulInv

\* The parts that speak of the chain, while the chain stands.
LEMMA ChainParts ==
  ASSUME CarefulInv, UNCHANGED <<memory, disk>>
  PROVE  /\ MemoryIsDisk'
         /\ TransactionsOnChain'
         /\ IdsOnChain'
         /\ EnrolledOnChain'
         /\ UNCHANGED <<members, txIDs>>
BY DEF CarefulInv, memory, disk, MemoryIsDisk, TransactionsOnChain, IdsOnChain,
       EnrolledOnChain, BodyAt

\* The receipts, while they and the chain stand.
LEMMA ReceiptsStay ==
  ASSUME CarefulInv, UNCHANGED <<memory, receipts>>
  PROVE  ReceiptsOnChain'
BY DEF CarefulInv, memory, ReceiptsOnChain, BodyAt

LEMMA PostCareful ==
  ASSUME CarefulStream, LedgerInv, CarefulInv, NEW h \in Handlers, NEW t \in Tx, Post(h, t)
  PROVE  CarefulInv'
<1>1. UNCHANGED <<memory, disk, receipts>>
  BY DEF Post
<1>2. /\ request' = [request EXCEPT ![h] = t]
      /\ answer'[h] # "OK"
      /\ \A g \in Handlers \ {h} : answer'[g] = answer[g]
      /\ t.body.op = "key_rotation_bundle" => AllGrantsKnown(t.body)
  BY DEF Post, WithinReach, CarefulStream, LedgerInv, TypeInv, TypeOK
<1>3. /\ request'[h] = t
      /\ \A g \in Handlers \ {h} : request'[g] = request[g]
  BY <1>2 DEF LedgerInv, TypeInv, TypeOK
<1>4. BundlesWithinReach'
  BY <1>1, <1>2, <1>3
  DEF CarefulInv, BundlesWithinReach, AllGrantsKnown, KnownRecipient, memory
<1>5. AnsweredOnChain'
  BY <1>1, <1>2, <1>3 DEF CarefulInv, AnsweredOnChain, memory
<1> QED BY <1>1, <1>4, <1>5, ChainParts, ReceiptsStay DEF CarefulInv

\* A handler that gets its answer while the chain stands.
LEMMA AnswerCareful ==
  ASSUME CarefulStream, LedgerInv, CarefulInv, NEW h \in Handlers,
         AcceptDuplicate(h) \/ Reject(h)
  PROVE  CarefulInv'
<1>1. UNCHANGED <<memory, disk, receipts, request>>
  BY DEF AcceptDuplicate, Reject, Answer
<1>2. \A g \in Handlers \ {h} : answer'[g] = answer[g]
  BY DEF AcceptDuplicate, Reject, Answer, LedgerInv, TypeInv, TypeOK
<1>3. answer'[h] = "OK" => request[h] # NoTx /\ request[h].body.id \in txIDs
  BY DEF AcceptDuplicate, Reject, Answer, Pending, Duplicate, LedgerInv, TypeInv, TypeOK
<1>4. BundlesWithinReach'
  BY <1>1 DEF CarefulInv, BundlesWithinReach, AllGrantsKnown, KnownRecipient, memory
<1>5. AnsweredOnChain'
  BY <1>1, <1>2, <1>3 DEF CarefulInv, AnsweredOnChain, memory
<1> QED BY <1>1, <1>4, <1>5, ChainParts, ReceiptsStay DEF CarefulInv

\* All ids on the chain are counted by len(txIDs).
LEMMA ChainCounted ==
  ASSUME LedgerInv, CarefulInv
  PROVE  Cardinality(txIDs) = Len(blocks) - 1
<1> DEFINE n == Len(blocks)
<1>1. n \in Nat \ {0}
  BY DEF LedgerInv, TypeInv, TypeOK
<1>2. Heights = 0..(n - 1)
  <2>1. \A row \in dBlocks : row.height \in 0..(n - 1)
    <3> SUFFICES ASSUME NEW row \in dBlocks PROVE row.height \in 0..(n - 1)
      OBVIOUS
    <3>1. row.height \in Nat /\ row.height + 1 \in 1..n
      BY DEF LedgerInv, Mirror, DiskWithinMemory, TypeInv, TypeOK, Block
    <3> QED BY <1>1, <3>1
  <2>2. \A k \in 0..(n - 1) : k \in Heights
    <3> SUFFICES ASSUME NEW k \in 0..(n - 1) PROVE k \in Heights
      OBVIOUS
    <3>1. k + 1 \in 1..n /\ (k + 1) - 1 = k
      BY <1>1
    <3>2. blocks[k + 1] \in dBlocks /\ blocks[k + 1].height = (k + 1) - 1
      BY <3>1 DEF CarefulInv, MemoryIsDisk, LedgerInv, Mirror, ChainLinked
    <3> QED BY <3>1, <3>2 DEF Heights
  <2> QED BY <2>1, <2>2 DEF Heights
<1>3. Cardinality(dBlocks) = n
  BY <1>1, <1>2, GaplessDatabase DEF LedgerInv, Counted
<1>4. Cardinality(dTxIDs) \in Nat
  BY FS_CardinalityType DEF LedgerInv, TypeInv, FiniteIds
<1> QED BY <1>1, <1>3, <1>4 DEF LedgerInv, Counted, CarefulInv, MemoryIsDisk

LEMMA ReplyCareful ==
  ASSUME CarefulStream, LedgerInv, CarefulInv, NEW h \in Handlers, Reply(h)
  PROVE  CarefulInv'
<1>1. UNCHANGED <<memory, disk>>
  BY DEF Reply
<1>2. /\ \A g \in Handlers \ {h} : request'[g] = request[g] /\ answer'[g] = answer[g]
      /\ request'[h] = NoTx /\ answer'[h] # "OK"
  BY DEF Reply, LedgerInv, TypeInv, TypeOK
<1>3. BundlesWithinReach'
  BY <1>1, <1>2 DEF CarefulInv, BundlesWithinReach, AllGrantsKnown, KnownRecipient, memory
<1>4. AnsweredOnChain'
  BY <1>1, <1>2 DEF CarefulInv, AnsweredOnChain, memory
<1>5. ReceiptsOnChain'
  <2> SUFFICES ASSUME NEW r \in receipts'
               PROVE  \E i \in 2..Len(blocks) : i - 1 <= r.seq /\ BodyAt(i).id = r.id
    BY <1>1 DEF ReceiptsOnChain, BodyAt, memory
  <2>1. CASE r \in receipts
    BY <2>1 DEF CarefulInv, ReceiptsOnChain
  <2>2. CASE r \notin receipts
    <3>1. /\ answer[h] = "OK"
          /\ r = [id |-> request[h].body.id, seq |-> Cardinality(txIDs)]
      BY <2>2 DEF Reply
    <3>2. r.id \in txIDs
      BY <3>1 DEF CarefulInv, AnsweredOnChain
    <3>3. PICK i \in 2..Len(blocks) : BodyAt(i).id = r.id
      BY <3>2 DEF CarefulInv, IdsOnChain
    <3>4. r.seq = Len(blocks) - 1 /\ Len(blocks) \in Nat
      BY <3>1, ChainCounted DEF LedgerInv, TypeInv, TypeOK
    <3> QED BY <3>3, <3>4
  <2> QED BY <2>1, <2>2
<1> QED BY <1>1, <1>3, <1>4, <1>5, ChainParts DEF CarefulInv

LEMMA RestartCareful ==
  ASSUME CarefulStream, LedgerInv, CarefulInv, Restart \/ RestartFails
  PROVE  CarefulInv'
<1>1. UNCHANGED <<memory, disk, receipts>>
  BY RestartKeepsAll DEF Restart, RestartFails
<1>2. \A h \in Handlers : request'[h] = NoTx /\ answer'[h] = "pending"
  BY DEF Restart, RestartFails, DropHandlers
<1>3. BundlesWithinReach' /\ AnsweredOnChain'
  BY <1>2 DEF BundlesWithinReach, AnsweredOnChain
<1> QED BY <1>1, <1>3, ChainParts, ReceiptsStay DEF CarefulInv

\* An acceptance is stored, adds its block and leaves the bundles within reach.
LEMMA AcceptCareful ==
  ASSUME CarefulStream, LedgerInv, CarefulInv, NEW h \in Handlers, Accept(h)
  PROVE  CarefulInv'
<1> DEFINE t == request[h]
           b == t.body
           blk == NewBlock(t)
           n == Len(blocks)
           Later(i) == blocks'[i].leaf.body
<1>1. /\ t \in Tx /\ b \in Bodies
      /\ n \in Nat \ {0}
      /\ Len(blocks') = n + 1
      /\ \A i \in 1..n : blocks'[i] = blocks[i]
      /\ blocks'[n + 1] = blk
      /\ blk.leaf = t
  BY AcceptCommits
<1>2. /\ dBlocks' = dBlocks \union {blk}
      /\ dTxIDs' = dTxIDs \union {b.id}
      /\ dNoteIDs' = dNoteIDs \union NotesOf(b)
      /\ dAuthorized' = AuthorizedAfter(dAuthorized, b)
      /\ dMembers' = MembersAfter(dMembers, b)
      /\ dKeyEpoch' = EpochAfter(dKeyEpoch, b)
      /\ Answer(h, "OK")
  BY AcceptCommits DEF PersistCommits
<1>3. /\ authorized' = AuthorizedAfter(authorized, b)
      /\ members' = MembersAfter(members, b)
      /\ keyEpoch' = EpochAfter(keyEpoch, b)
      /\ txIDs' = txIDs \union {b.id}
      /\ noteIDs' = noteIDs \union NotesOf(b)
      /\ UNCHANGED receipts
  BY DEF Accept
<1> HIDE DEF t, blk, n
<1>4. /\ \A i \in 2..n : i \in 2..(n + 1) /\ Later(i) = blocks[i].leaf.body
      /\ n + 1 \in 2..(n + 1)
      /\ Later(n + 1) = b
  BY <1>1
<1>5. MemoryIsDisk'
  <2>1. \A i \in 1..n : blocks[i] \in dBlocks
    BY DEF CarefulInv, MemoryIsDisk, n
  <2>2. \A i \in 1..Len(blocks') : blocks'[i] \in dBlocks'
    <3> SUFFICES ASSUME NEW i \in 1..(n + 1) PROVE blocks'[i] \in dBlocks'
      BY <1>1
    <3>1. CASE i \in 1..n
      BY <1>1, <1>2, <2>1, <3>1
    <3>2. CASE i = n + 1
      BY <1>1, <1>2, <3>2
    <3> QED BY <1>1, <3>1, <3>2
  <2> QED BY <1>2, <1>3, <2>2 DEF CarefulInv, MemoryIsDisk
<1>6. TransactionsOnChain'
  <2> SUFFICES ASSUME NEW i \in 2..(n + 1) PROVE blocks'[i].leaf \in Tx
    BY <1>1 DEF TransactionsOnChain
  <2>1. CASE i \in 2..n
    BY <1>1, <2>1 DEF CarefulInv, TransactionsOnChain, n
  <2>2. CASE i = n + 1
    BY <1>1, <2>2
  <2> QED BY <1>1, <2>1, <2>2
<1>7. IdsOnChain'
  <2> SUFFICES ASSUME NEW id \in txIDs' PROVE \E i \in 2..(n + 1) : Later(i).id = id
    BY <1>1 DEF IdsOnChain, BodyAt
  <2>1. CASE id \in txIDs
    BY <1>4, <2>1 DEF CarefulInv, IdsOnChain, n, BodyAt
  <2>2. CASE id = b.id
    BY <1>4, <2>2
  <2> QED BY <1>3, <2>1, <2>2
<1>8. EnrolledOnChain'
  <2> SUFFICES ASSUME NEW d \in Devices, members'[d] # NoKey
               PROVE  \E i \in 2..(n + 1) :
                        Later(i).op = "member_add" /\ Later(i).device = d
    BY <1>1 DEF EnrolledOnChain, BodyAt
  <2>1. CASE members[d] # NoKey
    BY <1>4, <2>1 DEF CarefulInv, EnrolledOnChain, n, BodyAt
  <2>2. CASE members[d] = NoKey
    <3>1. b.op = "member_add" /\ b.device = d
      BY <1>3, <2>2 DEF MembersAfter, LedgerInv, TypeInv, TypeOK
    <3> QED BY <1>4, <3>1
  <2> QED BY <2>1, <2>2
<1>9. \A d \in Devices : members[d] # NoKey => members'[d] # NoKey
  BY <1>1, <1>3, BodyFields, TransactionsAssumption
  DEF MembersAfter, LedgerInv, TypeInv, TypeOK
<1>10. BundlesWithinReach'
  BY <1>2, <1>9
  DEF CarefulInv, BundlesWithinReach, AllGrantsKnown, KnownRecipient, Answer
<1>11. AnsweredOnChain'
  <2>1. request' = request /\ \A g \in Handlers \ {h} : answer'[g] = answer[g]
    BY <1>2 DEF Answer, LedgerInv, TypeInv, TypeOK
  <2>2. request[h] # NoTx /\ request'[h].body.id \in txIDs'
    BY <1>3, <2>1 DEF Accept, Pending, t
  <2> QED BY <1>3, <2>1, <2>2 DEF CarefulInv, AnsweredOnChain
<1>12. ReceiptsOnChain'
  <2> SUFFICES ASSUME NEW r \in receipts
               PROVE  \E i \in 2..(n + 1) : i - 1 <= r.seq /\ Later(i).id = r.id
    BY <1>1, <1>3 DEF ReceiptsOnChain, BodyAt
  <2> QED BY <1>4 DEF CarefulInv, ReceiptsOnChain, n, BodyAt
<1> QED BY <1>5, <1>6, <1>7, <1>8, <1>10, <1>11, <1>12 DEF CarefulInv

\* On a careful stream the invariant holds in every reachable state.
LEMMA CarefulInvariant ==
  ASSUME CarefulStream
  PROVE  Spec => []CarefulInv
<1>1. LedgerInv /\ CarefulInv /\ [Next]_vars => CarefulInv'
  <2> SUFFICES ASSUME LedgerInv, CarefulInv, [Next]_vars PROVE CarefulInv'
    OBVIOUS
  <2>1. ASSUME NEW h \in Handlers, NEW t \in Tx, Post(h, t) PROVE CarefulInv'
    BY <2>1, PostCareful
  <2>2. ASSUME NEW h \in Handlers, TryAccept(h) PROVE CarefulInv'
    BY <2>2, AnswerCareful, AcceptCareful, NoHalfRejection DEF TryAccept
  <2>3. ASSUME NEW h \in Handlers, Reply(h) PROVE CarefulInv'
    BY <2>3, ReplyCareful
  <2>4. CASE Restart \/ RestartFails
    BY <2>4, RestartCareful
  <2>5. CASE UNCHANGED vars
    BY <2>5 DEF vars, memory, disk, CarefulInv, MemoryIsDisk, TransactionsOnChain,
               IdsOnChain, EnrolledOnChain, BundlesWithinReach, AllGrantsKnown,
               KnownRecipient, AnsweredOnChain, ReceiptsOnChain, BodyAt
  <2> QED BY <2>1, <2>2, <2>3, <2>4, <2>5 DEF Next
<1> QED BY <1>1, InitCareful, LedgerInvariant, PTL DEF Spec

-----------------------------------------------------------------------------
(***************************************************************************)
(* Receipts.                                                               *)
(***************************************************************************)

\* Whoever was told that its transaction is accepted finds it in the database, at
\* or below the sequence number of the receipt, also after crashes.
THEOREM ReceiptsTheorem ==
  ASSUME CarefulStream
  PROVE  Spec => []ReceiptsDurable
<1>1. LedgerInv /\ CarefulInv => ReceiptsDurable
  <2> SUFFICES ASSUME LedgerInv, CarefulInv, NEW r \in receipts
               PROVE  \E row \in dBlocks :
                        row.height \in 1..r.seq /\ row.leaf.body.id = r.id
    BY DEF ReceiptsDurable
  <2>1. PICK i \in 2..Len(blocks) : i - 1 <= r.seq /\ BodyAt(i).id = r.id
    BY DEF CarefulInv, ReceiptsOnChain
  <2>2. i \in 1..Len(blocks) /\ r.seq \in Nat
    BY DEF LedgerInv, TypeInv, TypeOK
  <2>3. blocks[i] \in dBlocks /\ blocks[i].height = i - 1
    BY <2>2 DEF CarefulInv, MemoryIsDisk, LedgerInv, Mirror, ChainLinked
  <2> QED BY <2>1, <2>2, <2>3 DEF BodyAt
<1> QED BY <1>1, LedgerInvariant, CarefulInvariant, PTL

-----------------------------------------------------------------------------
(***************************************************************************)
(* The refinement of StreamLog: initial states, then one lemma per kind of *)
(* step.                                                                   *)
(***************************************************************************)

\* The accepted transactions as a sequence.
LEMMA AcceptedType ==
  ASSUME LedgerInv, CarefulInv
  PROVE  /\ Accepted \in Seq(Tx)
         /\ Len(Accepted) = Len(blocks) - 1
         /\ \A i \in 1..Len(Accepted) : Accepted[i] = blocks[i + 1].leaf
<1>1. Len(blocks) \in Nat \ {0}
  BY DEF LedgerInv, TypeInv, TypeOK
<1>2. \A i \in 1..(Len(blocks) - 1) : blocks[i + 1].leaf \in Tx
  BY <1>1 DEF CarefulInv, TransactionsOnChain
<1>3. Len(blocks) - 1 \in Nat
  BY <1>1
<1> QED BY <1>2, <1>3 DEF Accepted

LEMMA InitImplements == Init => Log!Init
<1> SUFFICES ASSUME Init PROVE Log!Init
  OBVIOUS
<1>1. Len(blocks) = 1 /\ receipts = {}
  BY DEF Init
<1>2. Accepted = <<>>
  BY <1>1 DEF Accepted
<1>3. UnderWay = {}
  BY DEF Init, UnderWay
<1> QED BY <1>1, <1>2, <1>3 DEF Init, Log!Init, SeedKeys

\* What is under way shrinks when no handler comes to wait for tryAccept.
LEMMA UnderWayShrinks ==
  ASSUME \A g \in Handlers :
           (request'[g] # NoTx /\ answer'[g] = "pending") =>
             request'[g] = request[g] /\ answer[g] = "pending"
  PROVE  UnderWay' \subseteq UnderWay
BY DEF UnderWay

\* Rejections, duplicates, crashes and restarts show in what is under way only.
LEMMA QuietImplements ==
  ASSUME UNCHANGED <<memory, receipts>>, UnderWay' \subseteq UnderWay
  PROVE  [Log!Next]_Log!vars
<1>1. Log!Leave
  BY DEF Log!Leave, Accepted, memory
<1> QED BY <1>1 DEF Log!Next

\* A request that passes isAuthorized arrives, any other one is invisible.
LEMMA PostImplements ==
  ASSUME LedgerInv, NEW h \in Handlers, NEW t \in Tx, Post(h, t)
  PROVE  [Log!Next]_Log!vars
<1>1. /\ request \in [Handlers -> Tx \union {NoTx}]
      /\ answer \in [Handlers -> Codes \union {"pending"}]
      /\ t # NoTx
  BY TransactionsAssumption DEF LedgerInv, TypeInv, TypeOK
<1>2. /\ request[h] = NoTx
      /\ request' = [request EXCEPT ![h] = t]
      /\ answer' = [answer EXCEPT ![h] =
           IF t.body.author \in authorized THEN "pending" ELSE "UNAUTHORIZED_KEY"]
      /\ UNCHANGED <<memory, receipts>>
  BY DEF Post
<1>3. CASE t.body.author \in authorized
  <2>1. UnderWay' = UnderWay \union {t}
    BY <1>1, <1>2, <1>3 DEF UnderWay
  <2>2. Log!Arrive(t)
    BY <1>2, <1>3, <2>1 DEF Log!Arrive, Accepted, memory
  <2>3. t \in Log!Tx
    BY DEF Tx, Log!Tx
  <2> QED BY <2>2, <2>3 DEF Log!Next
<1>4. CASE t.body.author \notin authorized
  <2>1. \A g \in Handlers :
          (request'[g] # NoTx /\ answer'[g] = "pending") =>
            request'[g] = request[g] /\ answer[g] = "pending"
    BY <1>1, <1>2, <1>4
  <2> QED BY <1>2, <2>1, UnderWayShrinks, QuietImplements
<1> QED BY <1>3, <1>4

\* A reply acknowledges what is on the chain.
LEMMA ReplyImplements ==
  ASSUME LedgerInv, CarefulInv, NEW h \in Handlers, Reply(h)
  PROVE  [Log!Next]_Log!vars
<1>a. UnderWay' = UnderWay
  <2>1. /\ request \in [Handlers -> Tx \union {NoTx}]
        /\ answer \in [Handlers -> Codes \union {"pending"}]
    BY DEF LedgerInv, TypeInv, TypeOK
  <2> QED BY <2>1 DEF Reply, UnderWay
<1>1. CASE receipts' = receipts
  BY <1>1, <1>a, QuietImplements DEF Reply
<1>2. CASE receipts' # receipts
  <2>1. /\ answer[h] = "OK"
        /\ receipts' = receipts \union {[id |-> request[h].body.id, seq |-> Cardinality(txIDs)]}
    BY <1>2 DEF Reply
  <2>2. PICK i \in 2..Len(blocks) : BodyAt(i).id = request[h].body.id
    BY <2>1 DEF CarefulInv, AnsweredOnChain, IdsOnChain
  <2>3. i - 1 \in 1..Len(Accepted) /\ Accepted[i - 1] = blocks[i].leaf
    <3>1. Len(blocks) \in Nat
      BY DEF LedgerInv, TypeInv, TypeOK
    <3>2. i - 1 \in 1..(Len(blocks) - 1) /\ (i - 1) + 1 = i
      BY <3>1
    <3>3. /\ Len(Accepted) = Len(blocks) - 1
          /\ \A j \in 1..Len(Accepted) : Accepted[j] = blocks[j + 1].leaf
      BY AcceptedType
    <3> QED BY <3>2, <3>3
  <2> DEFINE new == [id |-> request[h].body.id, seq |-> Cardinality(txIDs)]
  <2>4. {r.id : r \in receipts'} = {r.id : r \in receipts} \union {Accepted[i - 1].body.id}
    <3>1. new.id = Accepted[i - 1].body.id /\ receipts' = receipts \union {new}
      BY <2>1, <2>2, <2>3 DEF BodyAt
    <3> HIDE DEF new
    <3> QED BY <3>1
  <2>5. UNCHANGED <<Accepted, authorized, members, keyEpoch>>
    BY DEF Reply, memory, Accepted
  <2>6. Log!Acknowledge
    BY <1>a, <2>3, <2>4, <2>5 DEF Log!Acknowledge
  <2> QED BY <2>6 DEF Log!Next
<1> QED BY <1>1, <1>2

\* An acceptance appends one transaction, which is under way, new and in its epoch.
LEMMA AcceptComesNext ==
  ASSUME CarefulStream, LedgerInv, CarefulInv, NEW h \in Handlers, Accept(h)
  PROVE  Log!ComesNext(request[h])
<1> DEFINE t == request[h]
           n == Len(blocks)
<1>1. /\ t \in Tx
      /\ n \in Nat \ {0}
      /\ Len(blocks') = n + 1
      /\ \A i \in 1..n : blocks'[i] = blocks[i]
      /\ blocks'[n + 1].leaf = t
  BY AcceptCommits
<1>2. /\ Accepted \in Seq(Tx)
      /\ Len(Accepted) = n - 1
      /\ \A i \in 1..(n - 1) : Accepted[i] = blocks[i + 1].leaf
  BY AcceptedType
<1>3. t.body.id \notin txIDs /\ t.pow = count \div PowEpochLength
  BY DEF Accept, Admissible, Duplicate
<1>4. \A i \in 1..Len(Accepted) : Accepted[i].body.id # t.body.id
  <2> SUFFICES ASSUME NEW i \in 1..(n - 1) PROVE Accepted[i].body.id # t.body.id
    BY <1>2
  <2>1. i + 1 \in 2..Len(blocks)
    BY <1>1
  <2>2. BodyAt(i + 1).id \in txIDs
    BY <2>1 DEF LedgerInv, Remembered
  <2> QED BY <1>2, <1>3, <2>2 DEF BodyAt
<1>5. t.pow = Len(Accepted) \div PowEpochLength
  BY <1>2, <1>3 DEF LedgerInv, Counted
<1>6. t \in UnderWay /\ UnderWay' \subseteq UnderWay
  <2>1. request[h] # NoTx /\ answer[h] = "pending"
    BY DEF Accept, Pending
  <2>2. /\ request' = request
        /\ \A g \in Handlers : answer'[g] = "pending" => answer[g] = "pending"
    BY DEF Accept, PersistCommits, PersistFails, Answer, LedgerInv, TypeInv, TypeOK
  <2> QED BY <2>1, <2>2, UnderWayShrinks DEF UnderWay
<1> HIDE DEF t, n
<1>7. Accepted' = Append(Accepted, t)
  <2>1. Accepted' = [i \in 1..n |-> blocks'[i + 1].leaf]
    BY <1>1 DEF Accepted
  <2>2. \A i \in 1..(n - 1) : Accepted[i] = blocks'[i + 1].leaf
    BY <1>1, <1>2
  <2> DEFINE more == Append(Accepted, t)
  <2>3. /\ more \in Seq(Tx)
        /\ Len(more) = n
        /\ more[n] = t
        /\ \A i \in 1..(n - 1) : more[i] = Accepted[i]
    BY <1>1, <1>2
  <2> HIDE DEF more
  <2>4. \A i \in 1..n : more[i] = blocks'[i + 1].leaf
    BY <1>1, <2>2, <2>3
  <2>5. more = [i \in 1..n |-> more[i]]
    BY <2>3
  <2>6. more = Accepted'
    BY <2>1, <2>4, <2>5
  <2> QED BY <2>6 DEF more
<1>8. UNCHANGED receipts
  BY DEF Accept
<1> QED BY <1>4, <1>5, <1>6, <1>7, <1>8 DEF Log!ComesNext, t

\* The grants of a bundle whose recipients are all known are those of its loop.
LEMMA GrantsOfAll ==
  ASSUME NEW b \in Bodies, AllGrantsKnown(b)
  PROVE  /\ GrantedDevices(b) = {b.grants[i] : i \in DOMAIN b.grants} \ {OwnerDevice}
         /\ \A d \in GrantedDevices(b) : d \in Devices /\ members[d] # NoKey
<1>1. b.grants \in Seq(Devices \union {OwnerDevice})
  BY BodyFields
<1>2. \A j \in DOMAIN b.grants : \A k \in 1..j : KnownRecipient(b.grants[k])
  BY <1>1 DEF AllGrantsKnown
<1>3. {j \in DOMAIN b.grants : \A k \in 1..j : KnownRecipient(b.grants[k])} = DOMAIN b.grants
  BY <1>2
<1> QED BY <1>3, GrantedAreEnrolled DEF GrantedDevices

\* The acceptance of each operation is the step of the log of that operation.
LEMMA AcceptImplements ==
  ASSUME CarefulStream, LedgerInv, CarefulInv, NEW h \in Handlers, Accept(h)
  PROVE  Log!Next
<1> DEFINE t == request[h]
           b == t.body
<1>1. t \in Tx /\ b \in Bodies
  BY AcceptCommits
<1>2. t \in Log!Tx
  BY <1>1 DEF Tx, Log!Tx
<1>3. Log!ComesNext(t)
  BY AcceptComesNext
<1>4. /\ authorized' = AuthorizedAfter(authorized, b)
      /\ members' = MembersAfter(members, b)
      /\ keyEpoch' = EpochAfter(keyEpoch, b)
      /\ Verdict(b) = "OK"
      /\ b.op = "key_rotation_bundle" => AllGrantsKnown(b)
      /\ NotesOf(b) \intersect noteIDs = {}
  BY DEF Accept, Admissible, NoteTaken
<1>5. b.op \in {"create", "member_add", "key_grant", "key_rotation_bundle"}
  BY <1>1, <1>4, BodyFields DEF Verdict, Operations, OwnerOperations
<1>6. CASE b.op = "create"
  <2>1. b.epoch = keyEpoch
    BY <1>1, <1>4, <1>6, VerdictOK
  <2>2. UNCHANGED <<authorized, members, keyEpoch>>
    BY <1>4, <1>6 DEF AuthorizedAfter, DelAuth, AddAuth, MembersAfter, EpochAfter
  <2>3. ASSUME NEW i \in 1..Len(Accepted), Accepted[i].body.op = "create"
        PROVE  Accepted[i].body.note # b.note
    <3>1. i + 1 \in 2..Len(blocks) /\ Accepted[i].body = BodyAt(i + 1)
      BY AcceptedType DEF BodyAt, LedgerInv, TypeInv, TypeOK
    <3>2. NotesOf(BodyAt(i + 1)) \subseteq noteIDs
      BY <3>1 DEF LedgerInv, Remembered
    <3> QED BY <1>4, <1>6, <2>3, <3>1, <3>2 DEF NotesOf
  <2>4. Log!AppendCreate(t)
    BY <1>3, <1>6, <2>1, <2>2, <2>3 DEF Log!AppendCreate
  <2> QED BY <1>2, <2>4 DEF Log!Next
<1>7. CASE b.op = "member_add"
  <2>1. b.author = Owner
    BY <1>1, <1>4, <1>7, VerdictOK
  <2>2. /\ authorized' = authorized \union {b.key}
        /\ members' = [members EXCEPT ![b.device] = b.key]
        /\ keyEpoch' = keyEpoch
    BY <1>4, <1>7 DEF AuthorizedAfter, DelAuth, AddAuth, MembersAfter, EpochAfter
  <2>3. Log!AppendMemberAdd(t)
    BY <1>3, <1>7, <2>1, <2>2 DEF Log!AppendMemberAdd
  <2> QED BY <1>2, <2>3 DEF Log!Next
<1>8. CASE b.op = "key_grant"
  <2>1. b.author = Owner
    BY <1>1, <1>4, <1>8, VerdictOK
  <2>2. UNCHANGED <<authorized, members, keyEpoch>>
    BY <1>4, <1>8 DEF AuthorizedAfter, DelAuth, AddAuth, MembersAfter, EpochAfter
  <2>3. Log!AppendKeyGrant(t)
    BY <1>3, <1>8, <2>1, <2>2 DEF Log!AppendKeyGrant
  <2> QED BY <1>2, <2>3 DEF Log!Next
<1>9. CASE b.op = "key_rotation_bundle"
  <2>1. b.author = Owner /\ b.key # Owner /\ b.epoch > keyEpoch
    BY <1>1, <1>4, <1>9, VerdictOK
  <2>2. /\ GrantedDevices(b) = {b.grants[i] : i \in DOMAIN b.grants} \ {OwnerDevice}
        /\ \A d \in GrantedDevices(b) : members[d] # NoKey
    BY <1>1, <1>4, <1>9, GrantsOfAll
  <2>3. /\ authorized' = (authorized \ {b.key}) \union {members[d] : d \in GrantedDevices(b)}
        /\ members' = members
        /\ keyEpoch' = b.epoch
    BY <1>4, <1>9 DEF AuthorizedAfter, DelAuth, AddAuth, MembersAfter, EpochAfter
  <2>4. Log!AppendKeyRotationBundle(t)
    BY <1>3, <1>9, <2>1, <2>2, <2>3 DEF Log!AppendKeyRotationBundle
  <2> QED BY <1>2, <2>4 DEF Log!Next
<1> QED BY <1>5, <1>6, <1>7, <1>8, <1>9

\* On a careful stream the two-phase handler, its crashes and its restarts
\* implement the append-only log: each step is a step of the log or invisible.
THEOREM LogRefinement ==
  ASSUME CarefulStream
  PROVE  Spec => ImplementsStreamLog
<1>1. LedgerInv /\ CarefulInv /\ [Next]_vars => [Log!Next]_Log!vars
  <2> SUFFICES ASSUME LedgerInv, CarefulInv, [Next]_vars PROVE [Log!Next]_Log!vars
    OBVIOUS
  <2>1. ASSUME NEW h \in Handlers, NEW t \in Tx, Post(h, t) PROVE [Log!Next]_Log!vars
    BY <2>1, PostImplements
  <2>2. ASSUME NEW h \in Handlers, TryAccept(h) PROVE [Log!Next]_Log!vars
    <3>1. CASE AcceptDuplicate(h) \/ Reject(h)
      <4>1. /\ request' = request
            /\ \A g \in Handlers : answer'[g] = "pending" => answer[g] = "pending"
        BY <3>1 DEF AcceptDuplicate, Reject, Pending, Answer, LedgerInv, TypeInv, TypeOK
      <4>2. UNCHANGED <<memory, receipts>>
        BY <3>1 DEF AcceptDuplicate, Reject
      <4> QED BY <4>1, <4>2, UnderWayShrinks, QuietImplements
    <3>2. CASE Accept(h)
      BY <3>2, AcceptImplements
    <3> QED BY <2>2, <3>1, <3>2, NoHalfRejection DEF TryAccept
  <2>3. ASSUME NEW h \in Handlers, Reply(h) PROVE [Log!Next]_Log!vars
    BY <2>3, ReplyImplements
  <2>4. CASE Restart \/ RestartFails
    <3>1. UnderWay' = {}
      BY <2>4 DEF Restart, RestartFails, DropHandlers, UnderWay
    <3>2. UNCHANGED <<memory, receipts>>
      BY <2>4, RestartKeepsAll DEF Restart, RestartFails
    <3> QED BY <3>1, <3>2, QuietImplements
  <2>5. CASE UNCHANGED vars
    <3>1. UnderWay' = UnderWay /\ UNCHANGED <<memory, receipts>>
      BY <2>5 DEF vars, UnderWay
    <3> QED BY <3>1, QuietImplements
  <2> QED BY <2>1, <2>2, <2>3, <2>4, <2>5 DEF Next
<1> QED
  BY <1>1, InitImplements, LedgerInvariant, CarefulInvariant, PTL
  DEF Spec, ImplementsStreamLog, Log!Spec

-----------------------------------------------------------------------------
(***************************************************************************)
(* Memberships from the chain. The recursive function of ChainView is the  *)
(* only one that satisfies its equation, and every step of the server      *)
(* extends it.                                                             *)
(***************************************************************************)
SeedView ==
  [authorized |-> SeedKeys, keyEpoch |-> InitialKeyEpoch, members |-> [d \in Devices |-> NoKey]]

\* view[i] is what the first i blocks say.
IsReplay(view) ==
  view = [i \in 1..Len(blocks) |->
            IF i = 1 THEN SeedView ELSE ApplyBlock(view[i - 1], BodyAt(i))]

Memberships == [authorized |-> authorized, keyEpoch |-> keyEpoch, members |-> members]

\* Some replay of the chain ends in the memberships of the memory.
ReplayKnown == \E view : IsReplay(view) /\ view[Len(blocks)] = Memberships

LEMMA OneReplay ==
  ASSUME NEW v, NEW w, IsReplay(v), IsReplay(w)
  PROVE  v = w
<1> DEFINE T == {i \in Int : i \in 1..Len(blocks) => v[i] = w[i]}
<1>1. 1 \in T
  BY DEF IsReplay
<1>2. ASSUME NEW i \in Int, i >= 1 /\ i \in T
      PROVE  i + 1 \in T
  <2> SUFFICES ASSUME i + 1 \in 1..Len(blocks) PROVE v[i + 1] = w[i + 1]
    OBVIOUS
  <2>1. i \in 1..Len(blocks) /\ (i + 1) - 1 = i /\ i + 1 # 1
    BY <1>2
  <2>2. v[i] = w[i]
    BY <1>2, <2>1
  <2>3. v[i + 1] = ApplyBlock(v[i], BodyAt(i + 1)) /\ w[i + 1] = ApplyBlock(w[i], BodyAt(i + 1))
    BY <2>1 DEF IsReplay
  <2> QED BY <2>2, <2>3
<1> HIDE DEF T
<1>3. \A i \in Int : i >= 1 => i \in T
  BY <1>1, <1>2, SetInductionFrom
<1>4. \A i \in 1..Len(blocks) : v[i] = w[i]
  BY <1>3 DEF T
<1>5. v = [i \in 1..Len(blocks) |-> v[i]] /\ w = [i \in 1..Len(blocks) |-> w[i]]
  BY DEF IsReplay
<1> QED BY <1>4, <1>5

\* So ChainView is the end of any replay.
LEMMA ReplayIsView ==
  ASSUME NEW view, IsReplay(view)
  PROVE  ChainView = view[Len(blocks)]
<1> DEFINE chosen == CHOOSE v : IsReplay(v)
<1>1. IsReplay(chosen)
  OBVIOUS
<1> HIDE DEF chosen
<1>2. chosen = view
  BY <1>1, OneReplay
<1>3. ChainView = chosen[Len(blocks)]
  BY DEF ChainView, IsReplay, SeedView, chosen
<1> QED BY <1>2, <1>3

LEMMA InitReplay == Init => ReplayKnown
<1> SUFFICES ASSUME Init PROVE ReplayKnown
  OBVIOUS
<1> DEFINE view == [i \in 1..1 |-> SeedView]
<1>1. Len(blocks) = 1 /\ Memberships = SeedView
  BY DEF Init, Memberships, SeedView
<1>2. IsReplay(view)
  BY <1>1 DEF IsReplay
<1>3. view[Len(blocks)] = Memberships
  BY <1>1
<1> QED BY <1>2, <1>3 DEF ReplayKnown

\* A block changes the memberships of a reader of the chain as tryAccept changed
\* those of the memory.
LEMMA BlockAppliesDelta ==
  ASSUME LedgerInv, NEW b \in Bodies, b.op = "key_rotation_bundle" => AllGrantsKnown(b),
         Verdict(b) = "OK"
  PROVE  ApplyBlock(Memberships, b) =
           [authorized |-> AuthorizedAfter(authorized, b),
            keyEpoch |-> EpochAfter(keyEpoch, b),
            members |-> MembersAfter(members, b)]
<1>1. b.op \in {"create", "member_add", "key_grant", "key_rotation_bundle"}
  BY BodyFields DEF Verdict, Operations, OwnerOperations
<1>2. CASE b.op = "member_add"
  BY <1>2 DEF ApplyBlock, Memberships, AuthorizedAfter, DelAuth, AddAuth, EpochAfter, MembersAfter
<1>3. CASE b.op = "key_rotation_bundle"
  <2>1. Enrolled(members, b) = GrantedDevices(b)
    <3>1. /\ GrantedDevices(b) = {b.grants[i] : i \in DOMAIN b.grants} \ {OwnerDevice}
          /\ \A d \in GrantedDevices(b) : d \in Devices /\ members[d] # NoKey
      BY <1>3, GrantsOfAll
    <3>2. OwnerDevice \notin Devices
      BY TransactionsAssumption
    <3> QED BY <3>1, <3>2 DEF Enrolled
  <2>2. ApplyBlock(Memberships, b) =
          [Memberships EXCEPT !.keyEpoch = b.epoch,
                              !.authorized = (@ \ {b.key}) \union
                                 {Memberships.members[d] : d \in Enrolled(Memberships.members, b)}]
    BY <1>3 DEF ApplyBlock
  <2>3. /\ AuthorizedAfter(authorized, b)
             = (authorized \ {b.key}) \union {members[d] : d \in GrantedDevices(b)}
        /\ EpochAfter(keyEpoch, b) = b.epoch
        /\ MembersAfter(members, b) = members
    BY <1>3 DEF AuthorizedAfter, DelAuth, AddAuth, EpochAfter, MembersAfter
  <2>4. /\ Memberships.authorized = authorized
        /\ Memberships.members = members
    BY DEF Memberships
  <2>5. ApplyBlock(Memberships, b) =
          [Memberships EXCEPT !.keyEpoch = EpochAfter(keyEpoch, b),
                              !.authorized = AuthorizedAfter(authorized, b)]
    BY <2>1, <2>2, <2>3, <2>4
  <2> QED BY <2>3, <2>5 DEF Memberships
<1>4. CASE b.op \in {"create", "key_grant"}
  BY <1>4 DEF ApplyBlock, Memberships, AuthorizedAfter, DelAuth, AddAuth, EpochAfter, MembersAfter
<1> QED BY <1>1, <1>2, <1>3, <1>4

LEMMA AcceptReplay ==
  ASSUME CarefulStream, LedgerInv, CarefulInv, ReplayKnown, NEW h \in Handlers, Accept(h)
  PROVE  ReplayKnown'
<1> DEFINE t == request[h]
           b == t.body
           n == Len(blocks)
<1>1. /\ t \in Tx /\ b \in Bodies
      /\ n \in Nat \ {0}
      /\ Len(blocks') = n + 1
      /\ \A i \in 1..n : blocks'[i] = blocks[i]
      /\ blocks'[n + 1].leaf = t
  BY AcceptCommits
<1>2. PICK view : IsReplay(view) /\ view[n] = Memberships
  BY DEF ReplayKnown
<1>3. Memberships' = ApplyBlock(Memberships, b)
  BY <1>1, BlockAppliesDelta DEF Accept, Memberships
<1> HIDE DEF t, n
<1>4. PICK longer : longer = [i \in 1..(n + 1) |->
                               IF i <= n THEN view[i] ELSE ApplyBlock(view[n], b)]
  OBVIOUS
<1> DEFINE equation == [i \in 1..(n + 1) |->
                          IF i = 1 THEN SeedView
                          ELSE ApplyBlock(longer[i - 1], blocks'[i].leaf.body)]
<1>5. ASSUME NEW i \in 1..(n + 1)
      PROVE  longer[i] = equation[i]
  <2>1. CASE i = 1
    BY <1>1, <1>2, <1>4, <2>1 DEF IsReplay, n
  <2>2. CASE i \in 2..n
    <3>1. i \in 1..n /\ i - 1 \in 1..n /\ i # 1
      BY <1>1, <2>2
    <3>2. view[i] = ApplyBlock(view[i - 1], blocks[i].leaf.body)
      BY <1>2, <3>1 DEF IsReplay, BodyAt, n
    <3>3. longer[i] = view[i] /\ longer[i - 1] = view[i - 1]
      BY <1>1, <1>4, <3>1
    <3> QED BY <1>1, <3>1, <3>2, <3>3
  <2>3. CASE i = n + 1
    <3>1. i # 1 /\ i - 1 = n /\ n \in 1..(n + 1) /\ ~(i <= n)
      BY <1>1, <2>3
    <3>2. longer[i] = ApplyBlock(view[n], b) /\ longer[i - 1] = view[n]
      BY <1>1, <1>4, <3>1
    <3> QED BY <1>1, <2>3, <3>1, <3>2
  <2> QED BY <1>1, <2>1, <2>2, <2>3
<1>6. longer = equation
  BY <1>5, <1>4
<1>7. longer[n + 1] = ApplyBlock(Memberships, b)
  BY <1>1, <1>2, <1>4
<1>8. IsReplay(longer)'
  BY <1>1, <1>6 DEF IsReplay, BodyAt, SeedView, SeedKeys
<1> QED BY <1>1, <1>3, <1>7, <1>8 DEF ReplayKnown

LEMMA ReplayInvariant ==
  ASSUME CarefulStream
  PROVE  Spec => []ReplayKnown
<1>1. LedgerInv /\ CarefulInv /\ ReplayKnown /\ [Next]_vars => ReplayKnown'
  <2> SUFFICES ASSUME LedgerInv, CarefulInv, ReplayKnown, [Next]_vars PROVE ReplayKnown'
    OBVIOUS
  <2>1. CASE UNCHANGED memory
    BY <2>1 DEF memory, ReplayKnown, IsReplay, Memberships, BodyAt, SeedView, SeedKeys
  <2>2. ASSUME NEW h \in Handlers, Accept(h) PROVE ReplayKnown'
    BY <2>2, AcceptReplay
  <2>3. Restart => UNCHANGED memory
    BY RestartKeepsAll
  <2>4. (~Restart /\ \A h \in Handlers : ~Accept(h)) => UNCHANGED memory
    BY NoHalfRejection
    DEF Next, TryAccept, Post, AcceptDuplicate, Reject, Reply, RestartFails, vars
  <2> QED BY <2>1, <2>2, <2>3, <2>4
<1> QED BY <1>1, InitReplay, LedgerInvariant, CarefulInvariant, PTL DEF Spec

\* On a careful stream the server authorises from the chain and nothing else:
\* keys, members and epoch, in memory and in the tables a restart reads, are what
\* replaying the chain from genesis gives.
THEOREM MembershipTheorem ==
  ASSUME CarefulStream
  PROVE  Spec => []ChainDerivedMembership
<1>1. CarefulInv /\ ReplayKnown => ChainDerivedMembership
  <2> SUFFICES ASSUME CarefulInv, ReplayKnown PROVE ChainDerivedMembership
    OBVIOUS
  <2>1. ChainView = Memberships
    BY ReplayIsView DEF ReplayKnown
  <2> QED BY <2>1 DEF ChainDerivedMembership, Memberships, CarefulInv, MemoryIsDisk
<1> QED BY <1>1, CarefulInvariant, ReplayInvariant, PTL
=============================================================================
