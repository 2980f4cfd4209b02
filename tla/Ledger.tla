------------------------------- MODULE Ledger -------------------------------
(***************************************************************************)
(* One stream of the Snapnotes server (internal/api/server.go and          *)
(* ledger_store.go): the in-memory streamState that every request reads,   *)
(* the SQLite database it is rebuilt from, the anchor log, and the         *)
(* goroutines of handlePostTransaction.                                    *)
(*                                                                         *)
(* handlePostTransaction takes the ledger's mutex twice: once in           *)
(* isAuthorized and once in tryAccept, which validates, appends to memory, *)
(* persists and anchors. Each critical section is one action; other        *)
(* handlers run between them, and the process may die between any two. A   *)
(* third critical section, sequenceFor, computes the receipt.              *)
(*                                                                         *)
(* Hashes are names: a mined block gets a hash no block had before (its    *)
(* header holds a timestamp and a nonce), an MMR root is the sequence of   *)
(* leaves it commits to.                                                   *)
(***************************************************************************)
EXTENDS Transactions

CONSTANTS
  Handlers,     \* the goroutines that may serve a POST at the same time
  Faults,       \* which writes may fail: a subset of {"persist", "anchor"}
  CarefulOwner, \* TRUE: the owner submits only what the chain it reads allows
  Watched,      \* the transaction ids whose receipts are recorded
  MaxMined      \* bound: blocks mined over the whole behaviour

ASSUME LedgerAssumption ==
  /\ Faults \subseteq {"persist", "anchor"}
  /\ CarefulOwner \in BOOLEAN
  /\ Watched \subseteq TxIds
  /\ MaxMined \in Nat

VARIABLES
  \* streamState, in memory
  blocks, leafHashes, txIDs, noteIDs, count, authorized, members, keyEpoch,
  \* the tables of ledger.db
  dBlocks, dTxIDs, dNoteIDs, dAuthorized, dMembers, dKeyEpoch,
  \* anchors.log
  anchors,
  \* the process: whether it runs, its handlers, and the last hash it mined
  up, request, answer, mined,
  \* history: the receipts clients were sent
  receipts

memory == <<blocks, leafHashes, txIDs, noteIDs, count, authorized, members, keyEpoch>>
disk == <<dBlocks, dTxIDs, dNoteIDs, dAuthorized, dMembers, dKeyEpoch>>
vars == <<memory, disk, anchors, up, request, answer, mined, receipts>>

NoHash == 0
GenesisHash == 1

Block == [height : Nat, hash : Nat, prev : Nat, leaf : Leaf, root : Seq(Leaf)]

AnchorRecord == [height : Nat, hash : Nat]

GenesisBlock ==
  [height |-> 0, hash |-> GenesisHash, prev |-> NoHash,
   leaf |-> Genesis, root |-> <<Genesis>>]

Codes == {"OK", "DUPLICATE_NOTE_ID", "STALE_POW_EPOCH", "UNAUTHORIZED_KEY",
          "INVALID_TRANSACTION", "INTERNAL_ERROR"}

-----------------------------------------------------------------------------
(***************************************************************************)
(* seedStream: genesis and the configured keys, in memory and on disk.     *)
(***************************************************************************)
SeedKeys == {Owner} \union InitialKeys

Init ==
  /\ blocks = <<GenesisBlock>>
  /\ leafHashes = <<Genesis>>
  /\ txIDs = {}
  /\ noteIDs = {}
  /\ count = 0
  /\ authorized = SeedKeys
  /\ members = [d \in Devices |-> NoKey]
  /\ keyEpoch = InitialKeyEpoch
  /\ dBlocks = {GenesisBlock}
  /\ dTxIDs = {}
  /\ dNoteIDs = {}
  /\ dAuthorized = SeedKeys
  /\ dMembers = [d \in Devices |-> NoKey]
  /\ dKeyEpoch = InitialKeyEpoch
  /\ anchors = <<[height |-> 0, hash |-> GenesisHash]>>
  /\ up = TRUE
  /\ request = [h \in Handlers |-> NoTx]
  /\ answer = [h \in Handlers |-> "pending"]
  /\ mined = GenesisHash
  /\ receipts = {}

-----------------------------------------------------------------------------
(***************************************************************************)
(* What tryAccept reads of the memberships.                                *)
(***************************************************************************)
\* Variant: a grant to a device that is not enrolled is taken for a known one.
AnyRecipient(g) == g = OwnerDevice \/ g \in Devices

KnownRecipient(g) == g = OwnerDevice \/ (g \in Devices /\ members[g] # NoKey)

AllGrantsKnown(b) == \A i \in DOMAIN b.grants : KnownRecipient(b.grants[i])

\* The devices whose grants the loop reaches before it meets an unknown one.
GrantedDevices(b) ==
  {b.grants[i] : i \in {j \in DOMAIN b.grants :
      \A k \in 1..j : KnownRecipient(b.grants[k])}} \ {OwnerDevice}

\* The delta of an operation on the authorised keys: delAuth, then addAuth.
DelAuth(b) == IF b.op = "key_rotation_bundle" THEN {b.key} ELSE {}

AddAuth(b) ==
  CASE b.op = "member_add" -> {b.key}
    [] b.op = "key_rotation_bundle" -> {members[d] : d \in GrantedDevices(b)}
    [] OTHER -> {}

\* Variant: the grants are inserted before the revoked key is deleted.
GrantedThenRevoked(auth, b) == (auth \union AddAuth(b)) \ DelAuth(b)

AuthorizedAfter(auth, b) == (auth \ DelAuth(b)) \union AddAuth(b)

MembersAfter(m, b) ==
  IF b.op = "member_add" THEN [m EXCEPT ![b.device] = b.key] ELSE m

EpochAfter(e, b) == IF b.op = "key_rotation_bundle" THEN b.epoch ELSE e

NotesOf(b) == IF b.op = "create" THEN {b.note} ELSE {}

\* Variants: a create under any epoch; a bundle that keeps the epoch; a bundle
\* that may revoke the owner.
VerdictOf(ok) == IF ok THEN "OK" ELSE "INVALID_TRANSACTION"

VerdictAnyEpoch(b) == VerdictOf(b.op = "create" \/ b.epoch > keyEpoch)

VerdictSameEpoch(b) ==
  VerdictOf(IF b.op = "key_rotation_bundle" THEN b.epoch >= keyEpoch /\ b.key # Owner
                ELSE b.op = "create" => b.epoch = keyEpoch)

VerdictAnyRevocation(b) ==
  VerdictOf(IF b.op = "key_rotation_bundle" THEN b.epoch > keyEpoch
                ELSE b.op = "create" => b.epoch = keyEpoch)

\* The operation switch of tryAccept, up to the grants loop of a bundle.
Verdict(b) ==
  CASE b.op = "create" ->
         IF b.wellFormed /\ b.epoch = keyEpoch THEN "OK" ELSE "INVALID_TRANSACTION"
    [] b.op \in OwnerOperations /\ b.author # Owner -> "UNAUTHORIZED_KEY"
    [] b.op \in {"member_add", "key_grant"} /\ b.author = Owner ->
         IF b.wellFormed THEN "OK" ELSE "INVALID_TRANSACTION"
    [] b.op = "key_rotation_bundle" /\ b.author = Owner ->
         IF b.wellFormed /\ b.key # Owner /\ b.epoch > keyEpoch
         THEN "OK" ELSE "INVALID_TRANSACTION"
    [] OTHER -> "INVALID_TRANSACTION"

-----------------------------------------------------------------------------
(***************************************************************************)
(* handlePostTransaction up to isAuthorized, which has its own critical    *)
(* section.                                                                *)
(***************************************************************************)
WithinReach(b) ==
  CarefulOwner =>
    /\ b.op = "member_add" => members[b.device] = NoKey
    /\ b.op = "key_rotation_bundle" => AllGrantsKnown(b)

Post(h, t) ==
  /\ up
  /\ request[h] = NoTx
  /\ WithinReach(t.body)
  /\ request' = [request EXCEPT ![h] = t]
  /\ answer' = [answer EXCEPT ![h] =
       IF t.body.author \in authorized THEN "pending" ELSE "UNAUTHORIZED_KEY"]
  /\ UNCHANGED <<memory, disk, anchors, up, mined, receipts>>

-----------------------------------------------------------------------------
(***************************************************************************)
(* tryAccept.                                                              *)
(***************************************************************************)
Pending(h) == up /\ request[h] # NoTx /\ answer[h] = "pending"

Answer(h, code) == answer' = [answer EXCEPT ![h] = code] /\ UNCHANGED request

\* Variant: deduplication asks the database instead of the memory.
DuplicateOnDisk(b) == b.id \in dTxIDs

Duplicate(b) == b.id \in txIDs

NoteTaken(b) == NotesOf(b) \intersect noteIDs # {}

\* Variant: the previous proof-of-work epoch is still accepted.
AdmissibleWithGrace(t) ==
  /\ ~Duplicate(t.body)
  /\ ~NoteTaken(t.body)
  /\ t.pow \in {count \div PowEpochLength, count \div PowEpochLength - 1}

Admissible(t) ==
  /\ ~Duplicate(t.body)
  /\ ~NoteTaken(t.body)
  /\ t.pow = count \div PowEpochLength

\* acceptDuplicateTx: answered like a fresh acceptance
AcceptDuplicate(h) ==
  /\ Pending(h)
  /\ Duplicate(request[h].body)
  /\ Answer(h, "OK")
  /\ UNCHANGED <<memory, disk, anchors, up, mined, receipts>>

\* The checks that reject before anything is written, in the code's order.
Rejection(t) ==
  CASE NoteTaken(t.body) -> "DUPLICATE_NOTE_ID"
    [] ~NoteTaken(t.body) /\ t.pow # count \div PowEpochLength -> "STALE_POW_EPOCH"
    [] OTHER -> Verdict(t.body)

Reject(h) ==
  /\ Pending(h)
  /\ ~Duplicate(request[h].body)
  /\ Rejection(request[h]) # "OK"
  /\ Answer(h, Rejection(request[h]))
  /\ UNCHANGED <<memory, disk, anchors, up, mined, receipts>>

\* A bundle that names an unknown recipient: the loop over the grants rejects
\* it, after the revocation, the new epoch and the grants before it took effect.
RejectGrant(h) ==
  LET b == request[h].body IN
  /\ Pending(h)
  /\ Admissible(request[h])
  /\ b.op = "key_rotation_bundle"
  /\ Verdict(b) = "OK"
  /\ ~AllGrantsKnown(b)
  /\ authorized' = AuthorizedAfter(authorized, b)
  /\ keyEpoch' = b.epoch
  /\ Answer(h, "INVALID_TRANSACTION")
  /\ UNCHANGED <<blocks, leafHashes, txIDs, noteIDs, count, members>>
  /\ UNCHANGED <<disk, anchors, up, mined, receipts>>

-----------------------------------------------------------------------------
(***************************************************************************)
(* persistDelta: one SQLite transaction. Its INSERTs have primary keys.    *)
(***************************************************************************)
RowsFree(blk) ==
  LET b == blk.leaf.body IN
  /\ \A row \in dBlocks : row.height # blk.height
  /\ b.id \notin dTxIDs
  /\ NotesOf(b) \intersect dNoteIDs = {}
  /\ b.op = "member_add" => dMembers[b.device] = NoKey

AnchorOf(blk) == [height |-> blk.height, hash |-> blk.hash]

\* Variant: the answer does not wait for the database.
PersistLater(h, blk) == RowsFree(blk) /\ Answer(h, "OK") /\ UNCHANGED <<disk, anchors>>

PersistCommits(h, blk) ==
  LET b == blk.leaf.body IN
  /\ RowsFree(blk)
  /\ dBlocks' = dBlocks \union {blk}
  /\ dTxIDs' = dTxIDs \union {b.id}
  /\ dNoteIDs' = dNoteIDs \union NotesOf(b)
  /\ dAuthorized' = AuthorizedAfter(dAuthorized, b)
  /\ dMembers' = MembersAfter(dMembers, b)
  /\ dKeyEpoch' = EpochAfter(dKeyEpoch, b)
  /\ \/ anchors' = Append(anchors, AnchorOf(blk))
     \/ "anchor" \in Faults /\ UNCHANGED anchors
  /\ Answer(h, "OK")

\* Variant: the tip is anchored before it is known to be on disk.
AnchoredFirst(h, blk) ==
  /\ "persist" \in Faults
  /\ Answer(h, "INTERNAL_ERROR")
  /\ anchors' = Append(anchors, AnchorOf(blk))
  /\ UNCHANGED disk

\* Variant: the keys are written outside the transaction that is rolled back.
PersistsKeys(h, blk) ==
  /\ "persist" \in Faults \/ ~RowsFree(blk)
  /\ Answer(h, "INTERNAL_ERROR")
  /\ dAuthorized' = AuthorizedAfter(dAuthorized, blk.leaf.body)
  /\ UNCHANGED <<dBlocks, dTxIDs, dNoteIDs, dMembers, dKeyEpoch, anchors>>

PersistFails(h, blk) ==
  /\ "persist" \in Faults \/ ~RowsFree(blk)
  /\ Answer(h, "INTERNAL_ERROR")
  /\ UNCHANGED <<disk, anchors>>

\* Variants: the root is taken before the new leaf is added; the height is that
\* of the database.
RootBeforeLeaf(t) ==
  [height |-> Len(blocks), hash |-> mined + 1, prev |-> blocks[Len(blocks)].hash,
   leaf |-> t, root |-> leafHashes]

HeightFromDisk(t) ==
  [height |-> Cardinality(dBlocks), hash |-> mined + 1, prev |-> blocks[Len(blocks)].hash,
   leaf |-> t, root |-> Append(leafHashes, t)]

NewBlock(t) ==
  [height |-> Len(blocks), hash |-> mined + 1, prev |-> blocks[Len(blocks)].hash,
   leaf |-> t, root |-> Append(leafHashes, t)]

\* The rest of tryAccept: memory first, then the database, then the anchor log.
Accept(h) ==
  LET t == request[h]
      b == t.body
      blk == NewBlock(t)
  IN
  /\ Pending(h)
  /\ Admissible(t)
  /\ Verdict(b) = "OK"
  /\ b.op = "key_rotation_bundle" => AllGrantsKnown(b)
  /\ mined < MaxMined
  /\ authorized' = AuthorizedAfter(authorized, b)
  /\ members' = MembersAfter(members, b)
  /\ keyEpoch' = EpochAfter(keyEpoch, b)
  /\ blocks' = Append(blocks, blk)
  /\ leafHashes' = Append(leafHashes, t)
  /\ txIDs' = txIDs \union {b.id}
  /\ noteIDs' = noteIDs \union NotesOf(b)
  /\ count' = count + 1
  /\ mined' = mined + 1
  /\ PersistCommits(h, blk) \/ PersistFails(h, blk)
  /\ UNCHANGED <<up, receipts>>

\* writeReceipt or writeError. The sequence number comes from sequenceFor, which
\* takes the mutex again and returns len(txIDs).
Reply(h) ==
  /\ up
  /\ request[h] # NoTx
  /\ answer[h] # "pending"
  /\ request' = [request EXCEPT ![h] = NoTx]
  /\ answer' = [answer EXCEPT ![h] = "pending"]
  /\ receipts' =
       IF answer[h] = "OK" /\ request[h].body.id \in Watched
       THEN receipts \union {[id |-> request[h].body.id, seq |-> Cardinality(txIDs)]}
       ELSE receipts
  /\ UNCHANGED <<memory, disk, anchors, up, mined>>

-----------------------------------------------------------------------------
(***************************************************************************)
(* A crash at any moment and the next start. rebuildStream reads the block *)
(* rows in height order and, for the i-th, the leaf at position i.         *)
(***************************************************************************)
Heights == {row.height : row \in dBlocks}

RowAt(n) == CHOOSE row \in dBlocks : row.height = n

DropHandlers ==
  /\ request' = [h \in Handlers |-> NoTx]
  /\ answer' = [h \in Handlers |-> "pending"]

Restart ==
  /\ up
  /\ \E tip \in dBlocks :
       /\ Heights = 0..tip.height
       /\ blocks' = [i \in 1..(tip.height + 1) |-> RowAt(i - 1)]
       /\ leafHashes' = [i \in 1..(tip.height + 1) |-> RowAt(i - 1).leaf]
  /\ txIDs' = dTxIDs
  /\ noteIDs' = dNoteIDs
  /\ count' = Cardinality(dTxIDs)
  /\ authorized' = dAuthorized
  /\ members' = dMembers
  /\ keyEpoch' = dKeyEpoch
  /\ DropHandlers
  /\ UNCHANGED <<disk, anchors, up, mined, receipts>>

\* A position without a leaf row: NewLedger returns the error and the server
\* does not start. (The variables of the lost memory keep their last values.)
RestartFails ==
  /\ up
  /\ \A tip \in dBlocks : Heights # 0..tip.height
  /\ up' = FALSE
  /\ DropHandlers
  /\ UNCHANGED <<memory, disk, anchors, mined, receipts>>

-----------------------------------------------------------------------------
TryAccept(h) == AcceptDuplicate(h) \/ Reject(h) \/ RejectGrant(h) \/ Accept(h)

Next ==
  \/ \E h \in Handlers : (\E t \in Tx : Post(h, t)) \/ TryAccept(h) \/ Reply(h)
  \/ Restart
  \/ RestartFails

Spec == Init /\ [][Next]_vars

-----------------------------------------------------------------------------
(***************************************************************************)
(* What holds whatever fails and whatever is submitted.                    *)
(***************************************************************************)

\* Every variable keeps its type.
TypeOK ==
  /\ blocks \in Seq(Block)
  /\ leafHashes \in Seq(Leaf)
  /\ txIDs \in SUBSET TxIds
  /\ noteIDs \in SUBSET Notes
  /\ count \in Nat
  /\ authorized \in SUBSET Keys
  /\ members \in [Devices -> Keys \union {NoKey}]
  /\ keyEpoch \in Nat
  /\ dBlocks \in SUBSET Block
  /\ dTxIDs \in SUBSET TxIds
  /\ dNoteIDs \in SUBSET Notes
  /\ dAuthorized \in SUBSET Keys
  /\ dMembers \in [Devices -> Keys \union {NoKey}]
  /\ dKeyEpoch \in Nat
  /\ anchors \in Seq(AnchorRecord)
  /\ up \in BOOLEAN
  /\ request \in [Handlers -> Tx \union {NoTx}]
  /\ answer \in [Handlers -> Codes \union {"pending"}]
  /\ mined \in Nat
  /\ receipts \subseteq [id : TxIds, seq : Nat]

\* The chain the server serves passes the checks a client or a peer makes of
\* it: heights count from genesis, each block names its predecessor's hash, and
\* its MMR root commits to exactly the leaves up to it. Restarts included: the
\* rows and leaves read back after a failed write never form another chain.
ChainLinked ==
  /\ Len(leafHashes) = Len(blocks)
  /\ \A i \in 1..Len(blocks) :
       /\ blocks[i].height = i - 1
       /\ i > 1 => blocks[i].prev = blocks[i - 1].hash
       /\ blocks[i].root = SubSeq(leafHashes, 1, i)
       /\ blocks[i].leaf = leafHashes[i]

\* The database never holds a block the running server does not serve: after a
\* failed write the memory is ahead of the disk, never beside it.
DiskWithinMemory ==
  \A row \in dBlocks :
    /\ row.height + 1 \in 1..Len(blocks)
    /\ blocks[row.height + 1] = row

BodyAt(i) == blocks[i].leaf.body

\* Resubmission, concurrent handlers of the same request, failed writes and
\* restarts put no transaction and no note on the chain twice.
NothingTwice ==
  \A i, j \in 2..Len(blocks) :
    i # j => /\ BodyAt(i).id # BodyAt(j).id
             /\ NotesOf(BodyAt(i)) \intersect NotesOf(BodyAt(j)) = {}

\* Only pow_epoch = floor(accepted transactions / PowEpochLength) is accepted,
\* so the epoch a block was mined for follows from its place on the chain, also
\* across a restart, which counts the rows of tx_ids instead.
PowEpochByPosition ==
  \A i \in 2..Len(blocks) : blocks[i].leaf.pow = (i - 2) \div PowEpochLength

\* A rotation fences the old key off: no create after a bundle on the chain is
\* written under an older epoch, and bundles only ever advance the epoch.
RotationFences ==
  \A i, j \in 2..Len(blocks) :
    (i < j /\ BodyAt(i).op = "key_rotation_bundle") =>
      /\ BodyAt(j).op = "create" => BodyAt(j).epoch >= BodyAt(i).epoch
      /\ BodyAt(j).op = "key_rotation_bundle" => BodyAt(j).epoch > BodyAt(i).epoch

\* No sequence of bundles, accepted, rejected half way or lost in a crash, takes
\* the owner's right to write, in memory or in the table a restart reads.
OwnerNeverLockedOut == Owner \in authorized /\ Owner \in dAuthorized

\* Every record of the anchor log checkpoints a block of the database, in height
\* order: the log an operator mirrors never contradicts the chain.
AnchorsMatchDisk ==
  /\ \A i \in DOMAIN anchors : \E row \in dBlocks : anchors[i] = AnchorOf(row)
  /\ \A i, j \in DOMAIN anchors : i < j => anchors[i].height < anchors[j].height

\* The keys that may have written by the time the chain has n blocks.
EnrolledKeys(n) ==
  SeedKeys \union {BodyAt(j).key : j \in {k \in 2..n : BodyAt(k).op = "member_add"}}

\* Nobody writes who was not configured or enrolled by an earlier block of the
\* same chain: no enrolment whose row was refused, no bundle rejected after some
\* of its grants and no restart leaves a key behind that the chain does not name.
WritersEnrolled ==
  \A i \in 2..Len(blocks) : BodyAt(i).author \in EnrolledKeys(i - 1)

=============================================================================
