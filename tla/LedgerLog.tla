------------------------------ MODULE LedgerLog -----------------------------
(***************************************************************************)
(* What the Ledger does while writes succeed and the owner submits only    *)
(* bundles and enrolments its chain allows: it implements StreamLog, and   *)
(* crashes and restarts are invisible. The properties at the end are what  *)
(* comments and documents of the repository say without that condition.    *)
(***************************************************************************)
EXTENDS Ledger

\* The condition: every write to the database succeeds (anchors may fail), the
\* owner looks at the chain before it submits, and it makes one enrolment of a
\* device, which it may submit again.
CarefulStream ==
  /\ "persist" \notin Faults
  /\ CarefulOwner
  /\ \A b, c \in Bodies :
       b.op = "member_add" /\ c.op = "member_add" /\ b.device = c.device => b = c

Accepted == [i \in 1..(Len(blocks) - 1) |-> blocks[i + 1].leaf]

\* The transactions between isAuthorized and tryAccept.
UnderWay == {request[h] : h \in {g \in Handlers : request[g] # NoTx /\ answer[g] = "pending"}}

Log == INSTANCE StreamLog WITH
         log <- Accepted,
         admitted <- UnderWay,
         acked <- {r.id : r \in receipts}

\* Every step of the two-phase handler, of a crash and of a restart is a step of
\* the append-only log or invisible: a transaction is appended under the epoch and
\* the enrolments of that very moment, by an author who might write when it
\* arrived; an answer follows an acceptance, and a restart brings back exactly
\* what was accepted.
ImplementsStreamLog == Log!Spec

-----------------------------------------------------------------------------
(***************************************************************************)
(* The memberships a reader derives from the chain alone, block by block.  *)
(***************************************************************************)
Enrolled(m, b) == {b.grants[i] : i \in DOMAIN b.grants} \intersect {d \in Devices : m[d] # NoKey}

ApplyBlock(view, b) ==
  CASE b.op = "member_add" ->
         [view EXCEPT !.authorized = @ \union {b.key}, !.members[b.device] = b.key]
    [] b.op = "key_rotation_bundle" ->
         [view EXCEPT !.keyEpoch = b.epoch,
                      !.authorized = (@ \ {b.key}) \union
                         {view.members[d] : d \in Enrolled(view.members, b)}]
    [] OTHER -> view

ChainView ==
  LET view[i \in 1..Len(blocks)] ==
        IF i = 1
        THEN [authorized |-> SeedKeys, keyEpoch |-> InitialKeyEpoch,
              members |-> [d \in Devices |-> NoKey]]
        ELSE ApplyBlock(view[i - 1], BodyAt(i))
  IN view[Len(blocks)]

\* The server authorises from what the chain says and from nothing else: the
\* keys, members and epoch in memory and those in the tables a restart reads are
\* both what replaying the chain from genesis gives.
ChainDerivedMembership ==
  /\ ChainView = [authorized |-> authorized, keyEpoch |-> keyEpoch, members |-> members]
  /\ ChainView = [authorized |-> dAuthorized, keyEpoch |-> dKeyEpoch, members |-> dMembers]

Durable(id) == \E row \in dBlocks : row.height > 0 /\ row.leaf.body.id = id

\* A client that was told its transaction is accepted finds it on disk, at or
\* below the sequence number of its receipt, whatever crashes.
ReceiptsDurable ==
  \A r \in receipts :
    \E row \in dBlocks :
      row.height \in 1..r.seq /\ row.leaf.body.id = r.id

-----------------------------------------------------------------------------
(***************************************************************************)
(* Statements of the repository that the code does not keep.               *)
(***************************************************************************)

\* server.go:331: "Persist before acknowledging so a client only learns of a
\* block once it is durable".
AcknowledgedIsDurable == \A r \in receipts : Durable(r.id)

\* server.go:265-267: a bundle with an unknown grant is "rejected rather than
\* silently skipped": what is answered INVALID_TRANSACTION changes nothing.
RejectedLeavesNoTrace ==
  [][\A h \in Handlers :
       (answer[h] = "pending" /\ answer'[h] = "INVALID_TRANSACTION")
         => UNCHANGED memory]_vars

\* docs/decisions/0001-atomic-key-rotation-and-strict-pow-epochs.md:17: the server
\* appends a bundle atomically, "then rejects both the revoked key and old-epoch
\* future writes". The author of an appended block may write at that moment.
WriterAuthorized ==
  [][Len(blocks') > Len(blocks) =>
       blocks'[Len(blocks')].leaf.body.author \in authorized]_vars

\* project-spec.md: stream_sequence is the zero-based leaf index of the
\* transaction on the chain, and resubmitting returns the original receipt.
ReceiptNamesTheLeaf ==
  \A r \in receipts : r.seq < Len(blocks) /\ BodyAt(r.seq + 1).id = r.id

\* server.go:82: every accepted block is persisted "so the server can rebuild
\* identical chain + MMR state after a restart".
AlwaysRestarts == up
=============================================================================
