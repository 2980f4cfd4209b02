---------------------------- MODULE LedgerProofs ----------------------------
(***************************************************************************)
(* Theorems about the Ledger, for every set of bodies, keys, devices and   *)
(* handlers, and whatever writes fail.                                     *)
(***************************************************************************)
EXTENDS Ledger, FiniteSetTheorems, TLAPS

(***************************************************************************)
(* Lemmas about the operators of tryAccept.                                *)
(***************************************************************************)

\* The fields of the bodies, and what the assumptions say of them.
LEMMA BodyFields ==
  ASSUME NEW b \in Bodies
  PROVE  /\ b.id \in TxIds
         /\ b.op \in Operations
         /\ b.author \in Keys
         /\ b.epoch \in Nat
         /\ b.grants \in Seq(Devices \union {OwnerDevice})
         /\ NotesOf(b) \in SUBSET Notes
         /\ b.op = "member_add" => b.device \in Devices /\ b.key \in Keys
         /\ b.op = "key_rotation_bundle" => b.key \in Keys
BY TransactionsAssumption DEF Body, NotesOf

\* The devices a bundle grants the new key to are enrolled ones.
LEMMA GrantedAreEnrolled ==
  ASSUME NEW b \in Bodies
  PROVE  \A d \in GrantedDevices(b) : d \in Devices /\ members[d] # NoKey
<1> SUFFICES ASSUME NEW d \in GrantedDevices(b)
             PROVE  d \in Devices /\ members[d] # NoKey
  OBVIOUS
<1>1. PICK j \in DOMAIN b.grants :
        /\ d = b.grants[j]
        /\ \A k \in 1..j : KnownRecipient(b.grants[k])
  BY DEF GrantedDevices
<1>2. j \in 1..j
  BY BodyFields
<1>3. KnownRecipient(d)
  BY <1>1, <1>2
<1>4. QED
  BY <1>3 DEF KnownRecipient, GrantedDevices

\* Keys enter and leave the authorised set only as keys.
LEMMA AuthorizedAfterType ==
  ASSUME TypeOK, NEW b \in Bodies, NEW auth \in SUBSET Keys
  PROVE  AuthorizedAfter(auth, b) \in SUBSET Keys
<1>1. \A d \in GrantedDevices(b) : members[d] \in Keys
  BY GrantedAreEnrolled DEF TypeOK
<1>2. AddAuth(b) \in SUBSET Keys
  BY <1>1, BodyFields DEF AddAuth
<1>3. QED
  BY <1>2 DEF AuthorizedAfter

LEMMA MembersAfterType ==
  ASSUME NEW b \in Bodies, NEW m \in [Devices -> Keys \union {NoKey}]
  PROVE  MembersAfter(m, b) \in [Devices -> Keys \union {NoKey}]
BY BodyFields DEF MembersAfter

\* Every rejection carries one of the wire codes.
LEMMA RejectionType ==
  ASSUME NEW t \in Tx
  PROVE  Rejection(t) \in Codes
<1>1. t.body \in Bodies
  BY DEF Tx
<1>2. Verdict(t.body) \in Codes
  BY <1>1, BodyFields DEF Verdict, Codes, Operations, OwnerOperations
<1>3. QED
  BY <1>2 DEF Rejection, Codes

-----------------------------------------------------------------------------
(***************************************************************************)
(* Type correctness. The cardinalities that a restart and a receipt take   *)
(* are numbers because the sets of transaction ids stay finite.            *)
(***************************************************************************)
FiniteIds == IsFiniteSet(txIDs) /\ IsFiniteSet(dTxIDs)

LEMMA NewBlockType ==
  ASSUME TypeOK, Len(blocks) > 0, NEW t \in Tx
  PROVE  NewBlock(t) \in Block
<1>1. Append(leafHashes, t) \in Seq(Leaf)
  BY DEF TypeOK, Leaf
<1>2. blocks[Len(blocks)] \in Block
  BY DEF TypeOK
<1>3. QED
  BY <1>1, <1>2 DEF NewBlock, TypeOK, Block, Leaf

LEMMA InitTypeOK == Init => TypeOK /\ FiniteIds /\ Len(blocks) > 0
<1> SUFFICES ASSUME Init PROVE TypeOK /\ FiniteIds /\ Len(blocks) > 0
  OBVIOUS
<1>1. GenesisBlock \in Block
  BY DEF GenesisBlock, Block, Leaf, GenesisHash, NoHash
<1>2. blocks \in Seq(Block) /\ leafHashes \in Seq(Leaf) /\ dBlocks \in SUBSET Block
  BY <1>1 DEF Init, Leaf
<1>3. SeedKeys \in SUBSET Keys
  BY TransactionsAssumption DEF SeedKeys
<1>4. anchors \in Seq(AnchorRecord)
  BY DEF Init, GenesisHash, AnchorRecord
<1>5. FiniteIds
  BY FS_EmptySet DEF Init, FiniteIds
<1>6. QED
  BY <1>2, <1>3, <1>4, <1>5, TransactionsAssumption DEF Init, TypeOK, GenesisHash

\* The strengthening: what the type of a restart's memory and of a receipt needs.
TypeInv == TypeOK /\ FiniteIds /\ Len(blocks) > 0

\* A step that only moves requests and answers.
LEMMA QuietTypeInv ==
  ASSUME TypeInv, UNCHANGED <<memory, disk, anchors, up, mined, receipts>>,
         request' \in [Handlers -> Tx \union {NoTx}],
         answer' \in [Handlers -> Codes \union {"pending"}]
  PROVE  TypeInv'
BY DEF TypeInv, TypeOK, FiniteIds, memory, disk

LEMMA PendingTx ==
  ASSUME TypeInv, NEW h \in Handlers, Pending(h)
  PROVE  request[h] \in Tx /\ request[h].body \in Bodies
BY DEF TypeInv, TypeOK, Pending, Tx

LEMMA AnswerType ==
  ASSUME TypeInv, NEW h \in Handlers, NEW code \in Codes, Answer(h, code)
  PROVE  /\ request' \in [Handlers -> Tx \union {NoTx}]
         /\ answer' \in [Handlers -> Codes \union {"pending"}]
BY DEF TypeInv, TypeOK, Answer

LEMMA PostTypeInv ==
  ASSUME TypeInv, NEW h \in Handlers, NEW t \in Tx, Post(h, t)
  PROVE  TypeInv'
<1>1. request' \in [Handlers -> Tx \union {NoTx}]
  BY DEF Post, TypeInv, TypeOK
<1>2. answer' \in [Handlers -> Codes \union {"pending"}]
  BY DEF Post, TypeInv, TypeOK, Codes
<1>3. QED
  BY <1>1, <1>2, QuietTypeInv DEF Post

LEMMA AcceptDuplicateTypeInv ==
  ASSUME TypeInv, NEW h \in Handlers, AcceptDuplicate(h)
  PROVE  TypeInv'
<1>1. "OK" \in Codes
  BY DEF Codes
<1>2. QED
  BY <1>1, AnswerType, QuietTypeInv DEF AcceptDuplicate

LEMMA RejectTypeInv ==
  ASSUME TypeInv, NEW h \in Handlers, Reject(h)
  PROVE  TypeInv'
<1>1. Rejection(request[h]) \in Codes
  BY PendingTx, RejectionType DEF Reject
<1>2. QED
  BY <1>1, AnswerType, QuietTypeInv DEF Reject

LEMMA RejectGrantTypeInv ==
  ASSUME TypeInv, NEW h \in Handlers, RejectGrant(h)
  PROVE  TypeInv'
<1>1. request[h] \in Tx /\ request[h].body \in Bodies
  BY PendingTx DEF RejectGrant
<1>2. authorized' \in SUBSET Keys
  BY <1>1, AuthorizedAfterType DEF RejectGrant, TypeInv, TypeOK
<1>3. keyEpoch' \in Nat
  BY <1>1, BodyFields DEF RejectGrant
<1>4. /\ request' \in [Handlers -> Tx \union {NoTx}]
      /\ answer' \in [Handlers -> Codes \union {"pending"}]
  BY AnswerType DEF RejectGrant, Codes
<1>5. QED
  BY <1>2, <1>3, <1>4 DEF RejectGrant, TypeInv, TypeOK, FiniteIds, disk

LEMMA AcceptTypeInv ==
  ASSUME TypeInv, NEW h \in Handlers, Accept(h)
  PROVE  TypeInv'
<1> DEFINE t == request[h]
           b == t.body
           blk == NewBlock(t)
<1>1. t \in Tx /\ b \in Bodies
  BY PendingTx DEF Accept
<1>2. blk \in Block /\ blk.leaf = t
  BY <1>1, NewBlockType DEF TypeInv, NewBlock
<1> HIDE DEF t, b, blk
<1>3. b.id \in TxIds /\ NotesOf(b) \in SUBSET Notes /\ b.epoch \in Nat
  BY <1>1, BodyFields
<1>a. blocks' = Append(blocks, blk) /\ leafHashes' = Append(leafHashes, t)
  BY DEF Accept, t, blk
<1>b. blocks \in Seq(Block) /\ leafHashes \in Seq(Leaf) /\ t \in Leaf
  BY <1>1 DEF TypeInv, TypeOK, Leaf
<1>c. blocks' \in Seq(Block) /\ Len(blocks') > 0 /\ leafHashes' \in Seq(Leaf)
  BY <1>2, <1>a, <1>b
<1>4. /\ txIDs' \in SUBSET TxIds
      /\ noteIDs' \in SUBSET Notes
      /\ count' \in Nat
      /\ mined' \in Nat
      /\ up' \in BOOLEAN
      /\ receipts' \subseteq [id : TxIds, seq : Nat]
  BY <1>1, <1>2, <1>3 DEF Accept, TypeInv, TypeOK, t, b, blk
<1>5. /\ authorized' \in SUBSET Keys
      /\ members' \in [Devices -> Keys \union {NoKey}]
      /\ keyEpoch' \in Nat
  BY <1>1, <1>3, AuthorizedAfterType, MembersAfterType
  DEF Accept, TypeInv, TypeOK, EpochAfter, t, b
<1>6. IsFiniteSet(txIDs')
  BY FS_AddElement DEF Accept, TypeInv, FiniteIds
<1>7. CASE PersistCommits(h, blk)
  <2>1. /\ dBlocks' \in SUBSET Block
        /\ dTxIDs' \in SUBSET TxIds
        /\ dNoteIDs' \in SUBSET Notes
        /\ dKeyEpoch' \in Nat
    BY <1>2, <1>3, <1>7 DEF PersistCommits, TypeInv, TypeOK, EpochAfter, b
  <2>2. /\ dAuthorized' \in SUBSET Keys
        /\ dMembers' \in [Devices -> Keys \union {NoKey}]
    BY <1>1, <1>2, <1>7, AuthorizedAfterType, MembersAfterType
    DEF PersistCommits, TypeInv, TypeOK, b
  <2>3. anchors' \in Seq(AnchorRecord)
    <3>1. AnchorOf(blk) \in AnchorRecord
      BY <1>2 DEF AnchorOf, AnchorRecord, Block
    <3>2. anchors \in Seq(AnchorRecord)
      BY DEF TypeInv, TypeOK
    <3>3. anchors' = Append(anchors, AnchorOf(blk)) \/ anchors' = anchors
      BY <1>7 DEF PersistCommits
    <3>4. QED
      BY <3>1, <3>2, <3>3
  <2>4. IsFiniteSet(dTxIDs')
    BY <1>7, FS_AddElement DEF PersistCommits, TypeInv, FiniteIds
  <2>5. /\ request' \in [Handlers -> Tx \union {NoTx}]
        /\ answer' \in [Handlers -> Codes \union {"pending"}]
    BY <1>7, AnswerType DEF PersistCommits, Codes
  <2>6. QED
    BY <1>c, <1>4, <1>5, <1>6, <2>1, <2>2, <2>3, <2>4, <2>5 DEF TypeInv, TypeOK, FiniteIds
<1>8. CASE PersistFails(h, blk)
  <2>1. /\ request' \in [Handlers -> Tx \union {NoTx}]
        /\ answer' \in [Handlers -> Codes \union {"pending"}]
    BY <1>8, AnswerType DEF PersistFails, Codes
  <2>2. UNCHANGED <<disk, anchors>>
    BY <1>8 DEF PersistFails
  <2>3. QED
    BY <1>c, <1>4, <1>5, <1>6, <2>1, <2>2 DEF TypeInv, TypeOK, FiniteIds, disk
<1>9. QED
  BY <1>7, <1>8 DEF Accept, t, blk

LEMMA ReplyTypeInv ==
  ASSUME TypeInv, NEW h \in Handlers, Reply(h)
  PROVE  TypeInv'
<1>1. request[h] \in Tx
  BY DEF Reply, TypeInv, TypeOK
<1>2. request[h].body.id \in TxIds
  BY <1>1, BodyFields DEF Tx
<1>3. Cardinality(txIDs) \in Nat
  BY FS_CardinalityType DEF TypeInv, FiniteIds
<1>4. receipts' \subseteq [id : TxIds, seq : Nat]
  BY <1>2, <1>3 DEF Reply, TypeInv, TypeOK
<1>5. /\ request' \in [Handlers -> Tx \union {NoTx}]
      /\ answer' \in [Handlers -> Codes \union {"pending"}]
  BY DEF Reply, TypeInv, TypeOK
<1>6. QED
  BY <1>4, <1>5 DEF Reply, TypeInv, TypeOK, FiniteIds, memory, disk

LEMMA RestartTypeInv ==
  ASSUME TypeInv, Restart
  PROVE  TypeInv'
<1>1. PICK tip \in dBlocks :
        /\ Heights = 0..tip.height
        /\ blocks' = [i \in 1..(tip.height + 1) |-> RowAt(i - 1)]
        /\ leafHashes' = [i \in 1..(tip.height + 1) |-> RowAt(i - 1).leaf]
  BY DEF Restart
<1>2. tip.height \in Nat
  BY DEF TypeInv, TypeOK, Block
<1>3. \A n \in 0..tip.height : RowAt(n) \in dBlocks
  BY <1>1 DEF Heights, RowAt
<1>4. \A i \in 1..(tip.height + 1) : RowAt(i - 1) \in Block
  BY <1>2, <1>3 DEF TypeInv, TypeOK
<1>a. \A i \in 1..(tip.height + 1) : RowAt(i - 1).leaf \in Leaf
  BY <1>4 DEF Block
<1>b. tip.height + 1 \in Nat \ {0}
  BY <1>2
<1>c. blocks' \in Seq(Block) /\ leafHashes' \in Seq(Leaf)
  BY <1>1, <1>4, <1>a, <1>b
<1>d. Len(blocks') = tip.height + 1
  BY <1>1, <1>b
<1>5. blocks' \in Seq(Block) /\ Len(blocks') > 0 /\ leafHashes' \in Seq(Leaf)
  BY <1>b, <1>c, <1>d
<1>6. count' \in Nat
  BY FS_CardinalityType DEF Restart, TypeInv, FiniteIds
<1>7. QED
  BY <1>5, <1>6 DEF Restart, DropHandlers, TypeInv, TypeOK, FiniteIds, disk

LEMMA RestartFailsTypeInv ==
  ASSUME TypeInv, RestartFails
  PROVE  TypeInv'
BY DEF RestartFails, DropHandlers, TypeInv, TypeOK, FiniteIds, memory, disk

LEMMA StutterTypeInv ==
  ASSUME TypeInv, UNCHANGED vars
  PROVE  TypeInv'
BY DEF vars, memory, disk, TypeInv, TypeOK, FiniteIds

\* The types hold in every reachable state.
LEMMA TypeInvInvariant == Spec => []TypeInv
<1>1. Init => TypeInv
  BY InitTypeOK DEF TypeInv
<1>2. TypeInv /\ [Next]_vars => TypeInv'
  <2> SUFFICES ASSUME TypeInv, [Next]_vars PROVE TypeInv'
    OBVIOUS
  <2>1. ASSUME NEW h \in Handlers, NEW t \in Tx, Post(h, t) PROVE TypeInv'
    BY <2>1, PostTypeInv
  <2>2. ASSUME NEW h \in Handlers, TryAccept(h) PROVE TypeInv'
    BY <2>2, AcceptDuplicateTypeInv, RejectTypeInv, RejectGrantTypeInv, AcceptTypeInv
    DEF TryAccept
  <2>3. ASSUME NEW h \in Handlers, Reply(h) PROVE TypeInv'
    BY <2>3, ReplyTypeInv
  <2>4. CASE Restart
    BY <2>4, RestartTypeInv
  <2>5. CASE RestartFails
    BY <2>5, RestartFailsTypeInv
  <2>6. CASE UNCHANGED vars
    BY <2>6, StutterTypeInv
  <2>7. QED
    BY <2>1, <2>2, <2>3, <2>4, <2>5, <2>6 DEF Next
<1>3. QED
  BY <1>1, <1>2, PTL DEF Spec

\* The types hold in every reachable state.
THEOREM TypeInvariant == Spec => []TypeOK
<1>1. TypeInv => TypeOK
  BY DEF TypeInv
<1>2. QED
  BY <1>1, TypeInvInvariant, PTL

-----------------------------------------------------------------------------
(***************************************************************************)
(* The right to write.                                                     *)
(***************************************************************************)

\* What the operation switch of tryAccept lets through.
LEMMA VerdictOK ==
  ASSUME NEW b \in Bodies, Verdict(b) = "OK"
  PROVE  /\ b.op = "create" => b.epoch = keyEpoch
         /\ b.op # "create" => b.author = Owner
         /\ b.op = "key_rotation_bundle" => b.key # Owner /\ b.epoch > keyEpoch
BY BodyFields DEF Verdict, Operations, OwnerOperations

\* A body that may revoke a key never revokes the owner's.
LEMMA OwnerStays ==
  ASSUME NEW b \in Bodies, Verdict(b) = "OK", NEW auth, Owner \in auth
  PROVE  Owner \in AuthorizedAfter(auth, b)
BY VerdictOK DEF AuthorizedAfter, DelAuth

\* The owner keeps the right to write in memory and on disk, through accepted
\* and half-way rejected bundles, failed writes and restarts.
THEOREM OwnerInvariant == Spec => []OwnerNeverLockedOut
<1>1. Init => OwnerNeverLockedOut
  BY DEF Init, SeedKeys, OwnerNeverLockedOut
<1>2. TypeInv /\ OwnerNeverLockedOut /\ [Next]_vars => OwnerNeverLockedOut'
  <2> SUFFICES ASSUME TypeInv, OwnerNeverLockedOut, [Next]_vars
               PROVE  OwnerNeverLockedOut'
    OBVIOUS
  <2>1. CASE UNCHANGED <<authorized, dAuthorized>>
    BY <2>1 DEF OwnerNeverLockedOut
  <2>2. ASSUME NEW h \in Handlers, RejectGrant(h) PROVE OwnerNeverLockedOut'
    BY <2>2, PendingTx, OwnerStays DEF RejectGrant, OwnerNeverLockedOut, disk
  <2>3. ASSUME NEW h \in Handlers, Accept(h) PROVE OwnerNeverLockedOut'
    <3> DEFINE b == request[h].body
    <3>1. b \in Bodies /\ Verdict(b) = "OK"
      BY <2>3, PendingTx DEF Accept
    <3>2. NewBlock(request[h]).leaf.body = b
      BY DEF NewBlock
    <3>3. authorized' = AuthorizedAfter(authorized, b)
      BY <2>3 DEF Accept
    <3>4. dAuthorized' \in {dAuthorized, AuthorizedAfter(dAuthorized, b)}
      BY <2>3, <3>2 DEF Accept, PersistCommits, PersistFails, disk
    <3> HIDE DEF b
    <3>5. QED
      BY <3>1, <3>3, <3>4, OwnerStays DEF OwnerNeverLockedOut
  <2>4. CASE Restart
    BY <2>4 DEF Restart, OwnerNeverLockedOut, disk
  <2>5. QED
    BY <2>1, <2>2, <2>3, <2>4
    DEF Next, TryAccept, Post, AcceptDuplicate, Reject, Reply, RestartFails, vars, memory, disk
<1>3. QED
  BY <1>1, <1>2, TypeInvInvariant, PTL DEF Spec

=============================================================================
