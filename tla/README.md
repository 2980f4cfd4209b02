# Snapnotes in TLA+

Snapnotes is a local-first note application. Every device keeps its notes in a local
database and sends them, encrypted and signed, as transactions to a server that orders
the transactions of a *stream* on a proof-of-work chain. Other devices of the same owner
read the chain, verify it and decrypt its notes. This directory models the parts of that
program whose correctness depends on the order of events, checks them with TLC on small
instances and proves the central results with TLAPS for every instance.

## Inventory

| Part | Source | State it keeps | Operations | Hard behaviour | Correct when |
|---|---|---|---|---|---|
| Server ledger | `internal/api/server.go` | per stream: blocks, MMR peaks and leaves, transaction and note ids, count, authorised keys, members, key epoch | POST of a transaction; tip, headers, blocks and proof reads | concurrent handlers that take the mutex several times; a database write that fails after memory changed | one linked chain, nothing twice, only writers the chain enrols, a rotation fences old epochs, acknowledgement means durable |
| Ledger store | `internal/api/ledger_store.go` | nine columns of one row and six tables per stream | seed, rebuild, persist one block | crash between any two critical sections, restart from what was committed | a restart rebuilds the chain that was acknowledged |
| Anchor log | `internal/api/anchor_log.go` | an append-only file of (height, hash, root) | append after a commit | a file of its own, its errors are ignored | it never contradicts the chain |
| Peer sync | `internal/api/peer.go` | the ledger's own | fetch, validate and replace a chain at start | the peer goes on while its pages are read; blocks are replaced but not the memberships; ids and rows of another kind | what is served to a peer is one valid chain, with writers and epochs its blocks establish |
| Event hub | `internal/api/ws.go` | connections | broadcast a height | lost and reordered events | clients need no event to converge |
| Outbox and submission | `internal/sync/service.go`, `client.go`, `internal/storage/sqlite/outbox.go` | notes and pending transactions | create a note, submit, map the answer | lost answers, restarts, resubmission, several Syncs at once | no item is marked synced that the server had not taken; each item ends as synced or failed |
| Client catch-up | `internal/sync/catchup_headers.go`, `chain.go` | verified headers (rebuilt every time), saved tip | header phase, selection of the heaviest chain, finalisation, saving | the server's chain changes between requests; the saved tip may belong to another chain | the saved tip is verified, no note on it is skipped, and no Sync saves less than it resumed from |
| Legacy catch-up, Listen | `internal/sync/anchor.go` | saved tip | paged block fetch; events | paging against a hash | agrees with the headers-first path |
| Membership client | `internal/sync/membership.go` | none | build the transactions of an enrolment, a grant, a rotation, a join | a join is two transactions | a revoked device gets no later key |
| MMR, chain work | `internal/protocol/mmr.go`, `chainwork.go`, `block.go` | none | add a leaf, root, proof, verify, select | every size and position | a proof verifies exactly for its leaf |
| Notes and reminders | `internal/storage/sqlite/store.go`, `internal/reminder` | notes, full-text rows, reminders | save, ingest, acknowledge, search page by page | a note that returns from the chain; a page read after the notes changed | an acknowledged occurrence is not shown again, none is left out, pages adjoin |
| Terminal interface | `internal/tui` | the notes, reminders and count of pending items that it shows | submit, acknowledge on two screens, start Syncs | memory that copies a database which Syncs change | the copies agree with the database |
| Parser, configuration, commands | `internal/parser`, `internal/client`, `cmd` | files | parse, read and write, start the 30 second ticker | none that TLC would reach | |

The ledger is called by HTTP handlers, one goroutine per request, and shares one mutex
among all of them. Clients learn of it only by its answers: receipts, error codes, pages
of headers and blocks. Inside a client, the interface starts Syncs (at launch, after
each note, at each tick) that share the local database and nothing else.

## Modules

| Module | What it is |
|---|---|
| `Transactions` | constants and their assumptions: bodies, transactions, keys, devices |
| `Ledger` | one stream of the server: memory, database, anchor log, handlers, crashes; the properties that hold whatever fails |
| `StreamLog` | the abstract specification: an append-only log whose entries are judged by what the log itself says, the right to write on arrival and all else on appending |
| `LedgerLog` | the refinement of `StreamLog` by `Ledger`, the properties of a well-used ledger, and five statements of the repository |
| `MCLedger` | instances for TLC |
| `MCCareful` | the instance of `MCLedger` that satisfies `CarefulStream`, the hypothesis of `LedgerLogProofs` |
| `LedgerProofs` | type correctness and the owner's right to write, proved |
| `LedgerChainProofs` | the chain, its writers, the deduplication sets, epochs, anchors and the count, proved |
| `LedgerLogProofs` | the refinement of `StreamLog`, receipts and memberships of a careful stream, proved |
| `HeadersFirst` | a device's catch-up: headers, selection, finalisation and the saved tip, against a server whose chain changes between requests |
| `MCHeaders` | a tree of blocks for TLC, with two choices of their work |
| `HeadersProofs` | type correctness and the safety of the catch-up, proved |
| `Device` | one device: database, terminal, reminders, outbox and concurrent Syncs, against a server that loses answers, fails to store a block, starts again without it, rotates and ends the proof-of-work epoch |
| `MCDevice` | two instances for TLC |
| `DeviceProofs` | every safety property of `Device`, proved |
| `PeerSync` | several servers of one stream that take each other's chains when they start, with the keys, members and epoch that decide what each accepts |
| `MMR` | the Merkle mountain range as recursive functions: peaks, roots, proofs, verification |
| `Audit` | a device that audits transactions against its saved position, and the legacy catch-up, over `MMR` |
| `MCPeers` | three servers for TLC, and `Audit` beside them |
| `PeerProofs` | every property of `PeerSync`, proved |
| `AuditProofs` | the mountain range for any number of leaves, and every property of `Audit`, proved |
| `NumberLemmas` | induction over numbers, minimal elements, powers of two and ranks, for the other proofs |

`Ledger` and `HeadersFirst` meet at the chain. What `Ledger` shows of it (linked,
growing, a prefix of itself after a restart) is what the server of `HeadersFirst` does
between two requests of a client. `Device` in turn takes the catch-up for what
`HeadersFirst` shows of it, a pass over the blocks up to the tip read at its start, and
the server for the log that `StreamLog` describes, with the one fault of `Ledger` that a
client can see: a block that is in memory only. `PeerSync` and `Audit` share `MMR`: the
root in each block of `PeerSync` is made and checked by the same `AddLeaf` whose proofs
`Audit` verifies.

### How the ledger maps to the code

`handlePostTransaction` takes the ledger's mutex three times, and each critical section
is one action:

| Action | Code |
|---|---|
| `Post` | the handler up to `isAuthorized` |
| `AcceptDuplicate`, `Reject`, `RejectGrant`, `Accept` | the outcomes of `tryAccept`: the whole of it under one lock, with the append, `persistDelta` and the anchor |
| `Reply` | `writeReceipt` with `sequenceFor`, or `writeError` |
| `Restart`, `RestartFails` | the process ends at any moment and `NewLedger` rebuilds the stream, or cannot |

The lookup of the proof-of-work target before `tryAccept` also takes the mutex, but a
stream's target never changes.

`Accept` changes memory first and then chooses `PersistCommits` or `PersistFails`, as
the code does: after a failure memory keeps the block. The SQLite transaction is atomic,
so a crash inside it is a crash before or after it. A crash after the commit and before
the anchor is written is the outcome "the anchor write fails" followed by `Restart`.
`RowsFree` is the primary keys of the tables: a write fails without any fault when a row
is already there.

Data is abstracted as follows. Signatures and proofs of work are checked before any
state is read, so only transactions that pass exist. `transaction_id` is a hash of the
body: equal ids mean equal bodies. Block hashes are numbers that are never used twice,
because the header holds a timestamp and a mined nonce. An MMR root *is* the sequence of
leaves it commits to. The row of the stream and the rows of `blocks` and `leaves`,
always written together, are one set of block records. `pow_epoch` is part of the
transaction and not of its body: the same body may be mined again.

One assumption is about the clients and not about the server: a body has the fields its
operation needs (`TransactionsAssumption`). Nothing is assumed of the epoch a key may
name: `key_epoch` is a number in the clear, and a device writes any number it likes
(`LateNote` of `MCLedger` names an epoch before it begins).

### How the catch-up maps to the code

| Action | Code |
|---|---|
| `Start` | `CatchUpHeadersFirst` reads `sync_state` and seeds a new `ChainManager` with the saved tip |
| `FetchHeaders`, `FetchLastHeaders`, `RejectHeaders` | one page of `readPage`, `ApplyHeader` on each of its headers; the last page is followed by `ActiveTip` and the start of `finalizeActiveChain` |
| `SkipHeight` | a height at which the store has no active header |
| `FetchBlock`, `RejectBlock` | `fetchBlock`, `FinalizeBlock` and `ingestBlockNote` at one height, or the error that ends the Sync |
| `Persist`, `PersistAgain` | `persistActiveTip`, at the end of the loop and once more at the end of `CatchUpHeadersFirst` |
| `Stop` | a network error, an error of the server, the client quits |
| `Grow`, `Fall` | the server appends a block; it restarts with a prefix of its chain, or another peer's chain replaced it |

Each HTTP request is one action, and the server and the other Syncs move between any
two. A `memChainStore` belongs to one Sync and is rebuilt by every one; only the
`sync_state` row and the notes outlive it, and every Sync of the device writes both
without a lock.

The blocks that can ever be mined form a constant tree: `Chain[b]` is what the links of
`b` spell out. Hashes are numbers, because `SelectBestChain` breaks a tie of work by
comparing hashes. The status of a header is left out: each `ApplyHeader` recomputes all
of them from the headers the store holds, so `IsBest` and `HasActiveAt` give what
`ActiveTip` and `ActiveAt` find. A page is a contiguous piece of one chain, so
`ApplyHeaders` states in closed form what the loop over its headers does: work added to
the parent's, peaks taken over from it, a header of the same hash overwritten. A
header's own proof of work is a check without state; a block whose transaction does not
verify is one outside `Signed`.

`FinalizeBlock` reads the header inside the block it is given: `BodyRoot[b]` is the
`mmr_root` *there*, in the block served for *b*. The header that was applied for the
same hash has a root of its own, which nothing reads: neither the client nor
`DecodeBlock` recomputes the hash of a fetched block or compares its header with the
applied one, although `chain.go:284` speaks of verification "against a previously
applied header" and `protocol-v1.md:269-270` of peer data that never advances local
state. "Verified" in this module therefore means: as served, the block agrees with
itself and with the blocks before it. That the block served for a hash is the one of
that hash, at its height and on its parent, is taken from `readPage`; the client does
not ask again.

`Fall` and `Grow` let the server take any way from one branch to another, which includes
every restart that lost blocks and every replacement of the chain; replacement is
strictly by greater work in the code and is not restricted here.

### How the device maps to the code

| Action | Code |
|---|---|
| `Launch` | `NewHomeModel`: notes, reminders and the pending count are read |
| `Submit` | `HomeModel.submit`: `SaveNoteWithOutbox` (one database transaction), the memory, `refreshPending` |
| `HomeAck`, `CalendarAck` | `acknowledgeSelectedReminder` on the home screen, `acknowledgeDueReminder` on the calendar |
| `StartSync` | `syncCmd` to `ListPendingOutbox`; each item is then sent once |
| `Send`, `SendBroken`, `Lose` | the POST of one item and what the server does: judge it, accept it and fail to persist it, or no answer reaches the device |
| `Receive`, `ReceiveFails` | `syncOne` maps the answer and writes the status; the write fails and ends `submitPending` |
| `StartPull`, `PullNote` | `CatchUpHeadersFirst` from the genesis on; `SaveSyncedNote` for one block, or nothing for a block of a later key |
| `FinishSync`, `FailPull` | `syncResultMsg`: the count is read again, the notes are not |
| `Crash`, `Tick` | the process ends; the clock |
| `ServerRestart` | the server starts again and has lost the blocks it could not write |
| `Rotate`, `OtherNote` | the owner revokes this device, or rotates without a grant for it; another device writes |

Each HTTP request and each database transaction of a Sync is one action. The terminal
runs its messages one after another, so each is one action too. A note is a number:
notes are ordered by creation time and then by id. The encoding of a transaction, the
text of a note and the search language are left out: a search is the constant set
`Match`, a schedule the constants `Fire` and `Every`. `Every` is a number of ticks, so
the rules daily, weekly and `every:<n>d` are covered and monthly, which needs a
calendar, is not; nor are time zones, which change only what is displayed. A count of
pending items that cannot be read is 0 (`RefreshPending`, used by `Launch`, `Submit` and
the end of each Sync); the other reads of the terminal do not fail. The answer 429 is
left out: no handler sends it.

A block of this device that the server could not write is in `volatile` until the next
`ServerRestart`, which cuts the chain before it. Then the device's own catch-up may be
refused until the chain outweighs the saved one, as `HeadersFirst` has it; `FailPull`
then needs no fault. A restart with a stored block above a lost one is not an action:
such a server does not start (`ledger_reenrol`).

### How the servers map to the code

| Action | Code |
|---|---|
| `Accept` | `isAuthorized` at some moment since the start, then `tryAccept` with `persistDelta` |
| `Stop`, `StartAlone`, `Start` | the process ends; `NewServerWithPeer`, which rebuilds the ledger from its tables, without and with a peer |
| `FetchPage`, `FetchLast` | one round of `fetchPeerChain`; the last is followed by `ValidateAndReplaceChain` and, when heavier, `replaceChainLocked` with `rebuildStream` |
| `StartFails` | any error of these, which ends the process |

`replaceChainLocked` is translated with all it does to the ledger: rows that hold whole
blocks (`wrapped`), hashes of transactions in place of transaction ids (so that `txIDs`
is empty as far as `tryAccept` can tell), a row for the genesis, and members, keys and
key epoch left as they were. Transactions are creates of a key epoch, enrolments and
bundles that revoke one device and grant the owner. `admitted` is the first critical
section of the handler: a key that was in memory at any time since the start may have a
transaction waiting.

The members left behind have a consequence. An enrolment that is posted again to a
server that replaced its chain, as `peer.go:24-26` describes, meets its old row in
`members`; `persistDelta` fails, and the block stays in memory only (`saved`). The next
start gives a shorter chain or, with a stored block above, none at all (`Restart`). All
other write faults are left to `Ledger`.

A start holds the database but does not yet serve, so a node that fetches accepts
nothing. A server may be given its own address as peer: it does not answer itself. The
work of a chain is its length, because every server mines with the target of the
genesis. The anchor record that a replacement appends is left out.

In `Audit` the server's chain grows by a leaf or is replaced by any other, longer or
shorter, with any leaf missing: a restart that lost blocks, or another server behind the
same address (one that replaced its own chain answers 500 to a page of its wrapped
rows). `Sync` saves the tip of a chain verified by `HeadersFirst`. `CatchUpPage`,
`CatchUpEmpty`, `CatchUpGivesUp` and `CatchUpFails` are the outcomes of one request of
`CatchUp`: a page with all its checks, a page above the tip, no answer, and an error.
After an empty page the loop ends and saves what it has; `lastHeight` is by then the
next height it wanted, so the saved height is one too high if the server lost blocks
between two pages (`Exact` says that it is not). An audit is no action, because it
changes nothing: `Verified` is `VerifyLeafInclusion` for the proof that `proofFor`
gives. SHA-256 is injective in `MMR`, where a hash is the tree it commits to.

## Runs

### The ledger

All use the module `MCLedger`, `ledger_careful` through `MCCareful`, where TLC evaluates
`CarefulStream`: an owner, one further device with its key, a second key, two notes, two
handlers, proof-of-work epochs of two or three transactions instead of 1000.

| Run | Expectation | What it asks |
|---|---|---|
| `ledger_faults` | pass | what holds when database and anchor writes may fail, the process may crash at any moment and the owner submits bundles for unknown recipients |
| `ledger_careful` | pass | that without write faults, and with an owner who checks the chain before submitting, the handlers implement `StreamLog` |
| `ledger_ack` | violation | "a client only learns of a block once it is durable" |
| `ledger_receipt` | violation | a receipt names the leaf of its transaction |
| `ledger_bundle` | violation | a rejected bundle changes nothing |
| `ledger_reenrol` | violation | what was served can be rebuilt after a restart |
| `ledger_revoked` | violation | a bundle "rejects both the revoked key and old-epoch future writes" |

Bounds. Two handlers are enough for every interleaving of two critical sections of one
transaction with those of another, and for two copies of one transaction in flight;
handlers are interchangeable, so their permutations are a symmetry. The bodies are
chosen so that each property is at stake: an enrolment, a note of the owner, one of the
device, a bundle that revokes the device, a note of the device that names the epoch of
that bundle, a bundle that revokes and re-grants it, one that would revoke the owner.
`MaxMined` bounds the blocks mined over a whole behaviour, including those lost in
crashes: five leaves room for a failed write, the block on top of it, a restart and two
further blocks, across a change of the proof-of-work epoch; in `ledger_careful` eight is
more than its bodies can use. Deadlock is not checked: after `MaxMined` blocks, or once
a server did not start, nothing more happens.

Properties of `ledger_faults`: `TypeOK`; `ChainLinked` (heights, previous hashes and
roots); `DiskWithinMemory` (rows are blocks that are served); `NothingTwice`;
`PowEpochByPosition`; `RotationFences`; `OwnerNeverLockedOut`; `AnchorsMatchDisk`; and
`WritersEnrolled`: the author of every block is configured or enrolled by an earlier
block of the same chain, although an enrolment whose row was refused, a bundle rejected
half way and a restart leave memory and tables apart. Properties of `ledger_careful`:
`ChainDerivedMembership` (memory and tables are what replaying the chain gives),
`ReceiptsDurable`, and `ImplementsStreamLog`. The mutants listed in `PROJECT.json` break
each of them.

The refinement maps the log to the leaves after genesis, `admitted` to the transactions
between `isAuthorized` and `tryAccept`, and the acknowledged ids to the receipts sent,
and leaves keys, members and epoch as they are. It shows what the two-phase
authorisation amounts to: the right to write is checked when a transaction arrives, its
epoch, its novelty and the enrolments it needs at the moment it is appended, and a crash
followed by a restart is invisible. That a key revoked in between may still append is
part of `StreamLog`, for that is what the code does; `ledger_revoked` says that the
repository promises more.

The condition of `ledger_careful` is `CarefulStream`. No write of the database fails,
because after a failed one memory and database differ for good (`ledger_ack`). The owner
submits a bundle only when the chain knows all its recipients, and an enrolment only of
a device that has none (`ledger_bundle` and `ledger_reenrol` are what happens
otherwise). And it makes one enrolment of a device, which it may submit any number of
times: two different ones on the way at once could each have been allowed when they were
submitted. Crashes, restarts, lost anchors and every interleaving of handlers remain.

### What the violations show

* `ledger_ack`: `tryAccept` does not undo its changes when `persistDelta` fails. The
  first answer is INTERNAL_ERROR, but a retry of the same transaction finds its id in
  memory and is answered with a receipt, for a block that no row holds.
* `ledger_receipt`: `sequenceFor` ignores the transaction id it is given.
* `ledger_bundle`: the revocation and the new epoch are in memory before the grants are
  validated. The rejection leaves them there, and every create of the current epoch is
  then refused until the server restarts.
* `ledger_reenrol`: a second enrolment of one device id passes `tryAccept` and fails on
  the primary key of `members`; the next block is stored above a gap.
* `ledger_revoked`: a create that names the next epoch passes `isAuthorized`, the bundle
  that revokes its author is accepted, and `tryAccept` finds the epoch of the create
  current and does not ask for its author again. ADR 0001:17 says that the bundle closes
  this window, and the comment at `server_test.go:668` that it was shown to; the test
  posts the create after the bundle.

No run of the ledger states a liveness property: a handler is not obliged to be
scheduled, and nothing in the ledger waits for anything.

### The catch-up

Both use the module `MCHeaders`. Its tree has a branch of two light blocks, a branch of
one heavy block whose note was submitted to both, and a block on the second branch that
outweighs all others and is served with a wrong `mmr_root`. In the passing run the two
branches weigh the same and the greater hash decides.

| Run | Expectation | What it asks |
|---|---|---|
| `headers` | pass | two Syncs of one device over one row, on five blocks: is the saved row a chain verified as served from the genesis, are its notes complete, is every note from such a chain, does no Sync save less than it resumed from, and does the device end on the best chain once the server settles on it |
| `headers_orphans` | violation | "not presented as current until re-confirmed by the new active chain" |

Bounds. `PageSize` is 2 instead of 2000, so a chain of three blocks takes two pages and
the server can change branch between them; a page whose first header does not link, a
tip restored from another branch and a height without an active header all occur. A Sync
may be cut short at any moment, any number of times. Two Syncs are enough for one to
overwrite what the other saved: `NeverWorse` compares with the row a Sync *resumed
from*, and a later row of another Sync may be lost, which the next Sync makes good.
Deadlock is checked: a Sync can always start.

Fairness. `Settles` assumes weak fairness of every Sync's steps: a ticker makes the home
screen start a Sync every 30 seconds, and a request is answered or ends in an error. The
server owes nothing. From some moment on no Sync is cut short: the network fails
finitely often. A Sync that a refused page or block ends is not cut short; it may be
refused for ever, and that it is not is what the property says. The steps of a Sync are
enabled in every state, so the formula writes their weak fairness without ENABLED.
`Settles` says: if the server stays on the chain that is best among those that verify,
the saved tip is finally and forever that one. A server that stays on a chain worse than
the saved one is not covered, and should not be: the device keeps its tip, and the block
request of its next Sync is refused.

`headers_orphans`: the device ingests a note from the light branch; the server moves to
the heavy one, the next Sync saves it, and the note stays in the notes table, called
synced, though no block of the saved chain holds it. `MarkOrphanedFrom` is called by
tests only.

### The device

| Run | Expectation | What it asks |
|---|---|---|
| `device` | pass | eight invariants and liveness of the whole device with two Syncs, a reminder that repeats, a note from elsewhere, a fault and a rotation |
| `reminder_returns` | violation | "`last_acknowledged_at` serves to avoid showing the same occurrence again" |

`DeliveredOrKnown` and `FailedOnlyIfRefused` are about the way of a note to the chain:
every loss, retry, restart and race of two Syncs that send the same item. A note of the
device waits, was refused, or its item is synced and it is on the chain; the one
exception is a note whose write the server answered with INTERNAL_ERROR once: another
send of it was then answered with a receipt for a block that the next start of the
server loses. That is `ledger_ack` seen from the device, and nothing tells the device.
`PendingNeverHidden` and `CacheCoherent` are about the terminal's copies,
`AcknowledgedOrReset` and `OnSchedule` about reminders. `PagesAdjoin` is about two pages
of a search between which notes were added: the first page is read from any part of the
notes, the second from all. `Settled` is liveness.

`PendingNeverHidden` excepts the time after a count that could not be read, when the
status line says 0 (`home.go:287-290`) whatever waits. `CacheCoherent` excepts a note
that was on the chain: a Sync resets its stored reminder and the home screen keeps its
copy until the next launch.

Bounds. Three notes, two of them created at the same time, so that a cursor must use the
id; two written here, so that one item waits while the other is in flight. The
proof-of-work epoch ends after two blocks, so that items become stale. Two Syncs are
enough to send one item twice and to mark it in either order; one fault puts a loss, a
crash, a failed read or write, or a block the server cannot store anywhere. The clock
runs to 1: the repeating reminder fires at 1 and again at 3, after the clock's end,
which is how the acknowledgement at the very moment of an occurrence arises. That one
acknowledgement skips several occurrences never happens in the run; it is covered by
`NoOccurrenceSkipped` alone. Deadlock is not checked: a program that is not running need
not be started.

Fairness. Weak fairness of `Step` for every Sync, written without ENABLED because a step
is enabled exactly when the program runs: while it does, the ticker of `cmd/snapnotes`
starts a Sync every 30 seconds, and each request ends with an answer or an error (the
HTTP client sets no timeout: a Sync on a connection that stays open in silence for ever
is not covered, but it does not keep the ticker from starting another). Launching,
writing, acknowledging, the owner's and the other device's steps, and all faults are not
fair. `Settled` has the premise that the program finally stays up.

`Settled` also says where the code does *not* settle: an item mined for a proof-of-work
epoch that has passed stays pending for ever, for nothing mines it again, although
`project-spec.md:505` says that the client recomputes it. And after the server has lost
a block the device may know more than the chain holds, so that its catch-up is refused
until the chain outweighs what it saved. Both exceptions are written into the property.

`reminder_returns`: a note's reminder is acknowledged and dismissed; the note's own
block is read in the next Sync, and `insertReminder` writes `dismissed = 0` and the old
time over it. Since a Sync reads all blocks from the genesis, this happens every 30
seconds.

Seen while modelling, and not stated as a property: `NoteSyncStatus` asks for pending
items only, so a note whose item failed is called synced, although `store.go:196-198`
keeps that word for a note that was uploaded; and the home screen does not load the
notes a Sync brought until the next launch, although the comment at `app.go:63` says so.

### The servers

| Run | Expectation | What it asks |
|---|---|---|
| `nodes` | pass | that three servers which accept, stop, start and replace their chains each serve one valid chain, with enrolled writers and the key epochs its bundles lead to, and hand it over whole; and, for chains of up to eight leaves, that proofs, peaks, audits and the legacy catch-up agree |

`ExchangedWhole` is the hard one: a chain is read in pages from a peer that accepts
blocks, stops, starts again or replaces its own chain in between. It holds because a
replacement makes rows that `marshalBlock` cannot encode, so that a fetch in progress
gets a 500 and fails, and because only a server with such rows ever loses a block.
`WritersEnrolled` and `EpochFollowsChain` state how far the missing part of
`replaceChainLocked` reaches: the server goes on with the keys and the epoch of the
chain it gave up, which `peer.go:24-26` declares out of scope, but what it accepts on
these grounds stays on it, because it can serve no peer any more. (`peer.go:15` says
that any already synced node can be the source of a chain; a server that adopted one
cannot.) `NoteOnce` is what remains of deduplication: note ids survive a replacement.

What does not remain is no property, in either direction. `peer.go:22-23` says that the
deduplication sets converge and `protocol-v1.md:64` that a resubmission returns the
original receipt, but `peer.go:198` stores hashes of transactions where `tryAccept`
looks for ids, so an adopted enrolment or bundle is accepted again; and the row it
stores for the genesis makes the count one more than the number of distinct transactions
of `server.go:411` and `protocol-v1.md:291`. The model does as the code does, and no
passing run calls it right.

Bounds. Three servers are the least where one takes a chain from a server that took it
from a third, or tries to; they are interchangeable, which is the symmetry. The
transactions are the enrolment of a device, a note of the device in the first key epoch,
and a bundle that revokes the device and ends that epoch: every server may take the note
before the bundle and must not take it after, a chain may lack the bundle or the
enrolment, and an enrolment can be posted again after a replacement. Two blocks per page
against chains of up to four blocks give fetches of one or two pages, between which the
peer may go on, stop or start again. The proof-of-work epoch has four transactions: a
server that adopted a whole chain counts four and accepts nothing more, one that adopted
a shorter one goes on. That a block above one that could not be written keeps a server
from starting takes a fifth; `ledger_reenrol` has that case, and the theorems all of
them. Deadlock is not checked: with all transactions on the chain and no server up,
nothing has to happen.

`Audit` runs while no server has started, because the two share no state: the same
search covers both. Up to eight leaves there are one, two and three mountains, and
mountains of up to eight leaves, so that a proof has up to three siblings on either
side. A page has three blocks, so that a catch-up over eight needs three, and a server
that loses blocks leaves the next page empty. Any one leaf may be lacking in another
chain, which moves all later ones by one place.

`FailsOnlyBeyondAPage` has the limit of the legacy catch-up in it: the
`known_block_hash` of a second page belongs to the block before `from_height`
(`anchor.go:191-203` against `server.go:475`), so a chain that needs two pages is
refused with CHAIN_MISMATCH, every time, and a catch-up that starts from a height left
by an empty page likewise. Only tests call it. An audit, likewise, may fail for a
transaction that is there: the proof is made for the server's present size and verified
against the saved one. `AuditSound` is the direction that must never fail.

## Proofs

### The ledger

`LedgerProofs` and `LedgerChainProofs` hold for all sets of bodies, keys, devices, notes
and handlers, every choice of `Faults` and both values of `CarefulOwner`, under the
assumptions named in `Transactions` and `Ledger`, which TLC evaluates in every run.

* `TypeInvariant`. Inductive with two additions: the sets of ids are finite, or the
  count after a restart and the number in a receipt would be no numbers; and the chain
  is never empty.
* `OwnerInvariant`. From `VerdictOK`: a bundle that passes the switch does not revoke
  the owner, in memory or in the delta.
* `ChainInvariant`, `DiskInvariant`. Neither is inductive alone: an append links to the
  last block in memory, and a restart puts rows in its place. Their conjunction `Mirror`
  is: the rows are among the blocks in memory, so the blocks that `rebuildStream` reads
  are a prefix of them (`RestartIsPrefix`), on which all later proofs rest.
* `WriterTheorem`. With `WriterInv`: the keys and members in memory, and the author of
  every request between its two critical sections, are enrolled by the chain in memory;
  those in the tables by the chain up to the highest row, which is all that a restart
  may bring back. A bundle rejected half way adds keys of members only
  (`RejectGrantWriters`), and a restart cuts the chain at the highest row
  (`RestartWriters`).
* `OnceTheorem`. With `Remembered`: what is on the chain is in the id sets of the same
  place, memory or disk.
* `RotationTheorem`. With `EpochsReached`: the epoch of each place is at least that of
  every bundle there, a half-way rejected bundle included.
* `AnchorTheorem`. A new anchor is higher than all rows, hence than all anchors.
* `PowEpochTheorem`. With `Counted`: the count is the length of the chain less genesis,
  and the database has one more block than transaction ids. After a restart the count is
  that of ids; `GaplessDatabase` equates it with the height that was read.

`LedgerLogProofs` adds the hypothesis `CarefulStream`, in which nothing bounds the
handlers, the bundles or the crashes. Its inductive invariant `CarefulInv` says

* `MemoryIsDisk`: a restart would read exactly what is in memory. An acceptance keeps it
  because it is always stored: what `tryAccept` found free in memory is free in the
  tables (`RowsAreFree`), by `Remembered` for the ids and `EnrolsOnce` for the row in
  `members`;
* `BundlesWithinReach`: the recipients that a bundle had when it was submitted are still
  members, so that none is rejected half way (`NoHalfRejection`);
* `AnsweredOnChain`, `ReceiptsOnChain`: a handler holding the answer OK, and a receipt
  sent, speak of a transaction on the chain. The number in a receipt is high enough
  because the chain is as long as the set of ids is large (`ChainCounted`);
* `IdsOnChain`, `EnrolledOnChain`, `TransactionsOnChain`: the sets have no member
  without a block.

`ReceiptsTheorem` is read off it. `LogRefinement` takes it step by step: `Reject`,
`AcceptDuplicate` and `Restart` are invisible but for what is no longer under way
(`QuietImplements`), a `Reply` acknowledges what is on the chain (`ReplyImplements`),
and an acceptance is the step of the log for its operation (`AcceptImplements`), with a
guard that speaks of the log only (`AcceptComesNext`). A `Post` that passes
`isAuthorized` is the arrival (`PostImplements`), and what is under way only shrinks
otherwise (`UnderWayShrinks`). Nothing is assumed of revoked keys. `MembershipTheorem`
needs besides that replaying a chain has one result (`OneReplay`), so that it is enough
that *some* replay ends in the memory (`ReplayKnown`), which an acceptance extends by
one block (`BlockAppliesDelta`).

Nothing of the ledger's passing runs is model-checked only.

### The catch-up

`HeadersProofs` holds for every tree of blocks, page size and number of simultaneous
Syncs. `HeadersAssumption` asks that chains are consistent (the chain of a block on
`Chain[b]` is a prefix of it) and that a block adds work; nothing is assumed of `Signed`
and `BodyRoot`: the theorems say what follows from the checks the code makes on a block
as it was served.

No property is inductive alone, for a row is written from a store that was seeded from
an earlier row. The inductive invariant `IInv` says besides:

* `SavedOK`: the saved block's whole chain is verified, its peaks are its leaves, its
  work is its chain's, and every note on it is shown;
* `StoreOK`: the same of every *finalised* header in a Sync's store, the right work of
  all, and that a header without a parent link is finalised. This is why a Sync that
  starts from a lone restored tip, without its ancestors, is sound;
* `BaseOK`: the row a Sync resumed from is still among its headers, so the tip it
  selects is at least as good (`BestTheorem`);
* `LoopOK`: the tip is the best of the store, and all active heights below the one the
  loop has reached are finalised. When the loop has passed the tip, the tip is
  finalised: what `persistActiveTip` saves satisfies `SavedOK` (`SavedRow`).

The step that carries the weight is `AcceptedBlock`: the block that `FinalizeBlock`
accepts either was finalised, or is the genesis, or has its parent one height below
among the active headers, which the loop has finalised; then its peaks are its chain's
leaves. Notes only grow (`ShownGrows`), so Syncs do not disturb each other (`KeptSync`).
`TypeInvariant`, `SavedTheorem`, `CompletenessTheorem` and `VerifiedTheorem` follow from
`IInv`.

Model-checked only: `Settles`, which is liveness under fairness.

### The device

`DeviceProofs` holds for every finite set of notes and every choice of their times,
intervals and authors, any number of Syncs, and no bound on the clock or the faults.

No property is inductive alone. The inductive invariant `Inductive` adds:

* `AnswersTrue`: an answer that a Sync holds is still true, although the server has gone
  on since it gave it. After OK the note is on the chain or was on it in a block the
  server could not write; after a refusal the device is no longer current or the server
  broke. It needs that chains grow but for the blocks in `volatile` (`ChainGrows`,
  `RestartEffect`, `WasStays`), that nobody is made current again and that a broken note
  stays broken (`ServerMonotone`, `BrokenSteps`). `DeliveredOrKnown` and
  `FailedOnlyIfRefused` follow for `Receive` whatever two Syncs have done to the item in
  between, because `Mark` never makes it pending again (`MarkResult`);
* `ItemsOfNotes`: items belong to stored notes, and an own note that was on the chain
  has one;
* `NoRowNoReminder`: a note that is not stored has no schedule, so the upsert for a new
  note gives what `Submit` shows on the screen;
* `Asked`, `TipsOnChain`: the control state of a Sync.

`NoOccurrenceSkipped` needs the same of the schedule in the terminal's memory
(`AllOnOccurrence`), because the home screen saves its own copy over the stored one. The
arithmetic is `NextFireLater` and `AcknowledgeOnOccurrence`.

`PagesTheorem` is about every database and every two sets of notes one of which contains
the other, for any limit. A page is the *k* newest of what lies behind the cursor, and
the cursor of the next one the oldest note of the page (`CursorIsOldest`), which exists
because a finite set has a minimum in a strict order (`FiniteMinimal`) and which
separates what was shown from what was not.

Model-checked only: `Settled`, liveness.

### The servers

`PeerProofs` holds for any number of servers and transactions and every page size.
`Inductive` has per server `Consistent`, the properties themselves with what the tables
must say for the next acceptance to keep them: every note id on the chain is refused;
and a server that has not replaced its chain has saved every block, refuses every id on
it, accepts only keys that its blocks enrol, takes for current the epoch that its
bundles lead to, and has a member only with a block that enrols it (`AcceptSaves`). A
restart cuts a chain that was replaced at its first unsaved block and leaves every other
as it is (`RestartConsistent`). And `Ahead`: a server that fetches holds a proper prefix
of its peer's chain, without a wrapped row, *or* the peer's next row is wrapped, so that
the fetch will fail. This is what makes a chain that was read page by page one that the
peer has at the end (`PageFacts`), and `AdoptedWhole`, `ChainsAreValid`,
`WritersAreEnrolled` and `RotationsFence` rest on it: the validation in `peer.go` checks
heights, links and peaks, but no signature, no membership and no epoch, so that these
hold of an adopted chain only because the server it comes from checked them. Nothing is
assumed of `AddLeaf`: that roots agree follows from the checks alone.

Model-checked only: nothing.

### The mountain range and the audits

`AuditProofs` holds for any number of leaves and any page limit but 0. Hashes are
injective, as everywhere in `MMR`.

`PeaksAreSummits` says that the peaks kept leaf by leaf are those that `mountainSummits`
computes at once. The argument is that of a carry. If *t* is the lowest bit that *n*
lacks, then *n* + 1 has the bits of *n* above *t* and, of the rest, *t* alone (`Carry`,
`NoCarry`, `NextBits`); the mountains above *t* stay where they are, those below stand
one after another in front of the new leaf (`NextStarts`) and are the first *t* peaks
(`NextPlaces`); and the climb of `AddLeaf` over them makes the root of the perfect tree
of 2^*t* leaves (`SummitsGrow`).

A proof is verified by climbing from a leaf to the summit of its mountain. `ClimbUp`
says that the right siblings lead to the root of that mountain, `ClimbDown` that a climb
that ends in it had the right leaf and the right siblings, because equal roots have
equal leaves (`RootOfLeaves`). `ProofVerifies` and `ProofSound` combine them with the
place of the summit among the peaks, and the theorems `ProofsAgreeTheorem` and
`AuditSoundTheorem` with the invariant `Inv`: the leaves are in the order they were
made, hence distinct, and the saved root is that of the saved leaves. The theorem of
`AuditSound` has the premise `Exact`; for a height left by an empty page it is
model-checked only, up to eight leaves.

`Inv` says the same of the position that a catch-up has reached (`RequestOK`), and that
this is the saved one unless the chain is longer than a page. Then the peaks the device
computes are those of the server's leaves for all blocks of a page (`GrownIs`, an
induction over the page), `RootsMatch` follows from `Known`, and `CatchUpTheorem` is
left with the server's refusal.

Model-checked only: `AuditSound` when the saved height is off by one.

### Induction

The library's induction theorems take a predicate and none of the provers can
instantiate it. `NumberLemmas` takes the *set* of the numbers that have the property
instead (`SetInduction`, `SetInductionFrom`), and proves the principle by counting: a
set of naturals without a least member would give an injection of a finite set into
itself less one element. A recursive function is by definition a `CHOOSE` of a function
that satisfies its equation; that there is one is shown by induction over its domain
where it is needed (`RootsExist`, `PeaksAfterExists`, `ClimbedExists`,
`ClimbNodesExist`), and what it computes by a second induction. This is why `MerkleRoot`
is a function of the height, and no module declares a `RECURSIVE` operator.

### What stays with TLC

`Settles` and `Settled`, liveness under fairness, and `AuditSound` against a saved
height that is one too high. Everything else that a passing run checks is a theorem.

## Plan

In the order they were built: `Ledger` with `StreamLog`, `HeadersFirst`, `Device`, `MMR`
with `Audit`, `PeerSync`, and the proofs of each. What could follow:

1. `PeerSync` with all the write faults of `Ledger`: a server that has not replaced its
   chain and whose memory runs ahead of its database serves a peer.
2. `Device` over `Ledger` itself in place of the log it implements.
3. The calendar of a monthly reminder (`schedule.go:110`).
4. A catch-up from a server that answers with another block than the one asked for
   (`chain.go:293`), which the client could not tell.

## Not modelled

* The event hub and `Listen`. An event makes a client run a Sync, and `Device` starts
  Syncs at any moment. Two handlers may write to one connection at once, which the
  websocket library answers with a panic; for the client this is a lost answer (`Lose`).
* Several streams, which share the mutex of the server and nothing else.
* `MineBlock`: the nonce search is a property of the hash function. (Its limit of trials
  is never enforced: `block.go:78-90` goes on past it until a nonce is found or wraps
  around, although `block.go:32` and `:55-59` say otherwise.)
* CBOR, encryption, key derivation and the builders of membership transactions are
  functions; what the other modules need of them is in their assumptions.
* The note parser, full-text matching, monthly repetition, layout and input handling,
  configuration and backup files: sequential code over data, which unit tests reach.
* `SelectReviews`, `SeedGenesis`, `SetTargetSchedule`, `MarkOrphanedFrom`, which only
  tests call.
* The anchor record after a replacement (`peer.go:238`), whose error is ignored like
  that of `server.go:338`.
* A file system that reports a commit and loses it, and an administrator who edits the
  database.
