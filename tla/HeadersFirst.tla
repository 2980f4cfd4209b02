---------------------------- MODULE HeadersFirst ----------------------------
(***************************************************************************)
(* The client's catch-up: CatchUpHeadersFirst (internal/sync/              *)
(* catchup_headers.go) over the ChainManager and the memChainStore of      *)
(* internal/sync/chain.go, against a server whose chain grows and, across  *)
(* a restart, falls back to a prefix and grows elsewhere.                  *)
(*                                                                         *)
(* A Sync fetches the headers page by page, applies them to a store it     *)
(* builds afresh, fetches and finalises the blocks of the chain the store  *)
(* holds active, and saves that chain's tip. Every HTTP request is one     *)
(* action; the server moves between any two. Nothing keeps two Syncs of    *)
(* one device apart (the home screen starts one at launch, one per note    *)
(* and one per tick), and all of them write the same sync_state row and    *)
(* the same notes.                                                         *)
(*                                                                         *)
(* The blocks that may ever be mined form a tree: Chain[b] is the chain    *)
(* that the previous_block_hash links of b spell out, genesis first. A     *)
(* hash is a number, for SelectBestChain compares hashes; the peaks of an  *)
(* MMR are the leaves it was fed, and an mmr_root the leaves it claims.    *)
(*                                                                         *)
(* FinalizeBlock reads the header inside the block it is given. Its root   *)
(* is BodyRoot; the root in the header that was applied is compared with   *)
(* nothing and therefore is no part of the model. That the block fetched   *)
(* for a hash is the one of that hash, at its height and on its parent, is *)
(* what the server's readPage does; the client does not ask again.         *)
(***************************************************************************)
EXTENDS Integers, Sequences, Functions

CONSTANTS
  Syncs,     \* the Syncs of the device that may run at the same time
  Hashes,    \* the blocks, each by its block_hash
  Genesis,   \* the trust anchor's genesis_block_hash
  Chain,     \* Chain[b]: the blocks from the genesis to b
  Total,     \* Total[b]: the cumulative work of Chain[b]
  BodyRoot,  \* BodyRoot[b]: the leaves that the mmr_root in the header of the
             \* block served for b commits to
  Signed,    \* the blocks served with a transaction that verifies: its id, its
             \* signature and its stream
  Notes,     \* the note ids
  NoteIn,    \* NoteIn[b]: the note of a create block the device can decrypt
  NoNote,    \* NoteIn of every other block
  PageSize   \* catchUpHeaderPageSize

Prev(b) == Chain[b][Len(Chain[b]) - 1]
Height(b) == Len(Chain[b]) - 1

ASSUME HeadersAssumption ==
  /\ Hashes \subseteq Nat \ {0}
  /\ Genesis \in Hashes
  /\ Chain \in [Hashes -> Seq(Hashes)]
  /\ Total \in [Hashes -> Nat]
  /\ BodyRoot \in [Hashes -> Seq(Hashes)]
  /\ Signed \subseteq Hashes
  /\ NoNote \notin Notes
  /\ NoteIn \in [Hashes -> Notes \cup {NoNote}]
  /\ PageSize \in Nat \ {0}
  /\ \A b \in Hashes :
       /\ Len(Chain[b]) > 0 /\ Chain[b][1] = Genesis /\ Chain[b][Len(Chain[b])] = b
       /\ \A i \in 1 .. Len(Chain[b]) : Chain[Chain[b][i]] = SubSeq(Chain[b], 1, i)
  /\ \A b \in Hashes \ {Genesis} : Total[b] > Total[Prev(b)]

VARIABLES
  head,    \* the last block the server holds
  saved,   \* the sync_state row of the stream
  notes,   \* notes[n]: the block note n was ingested from, or NoHash
  pc, state, store, tip, next \* each Sync: where it is, the row it read, the
                              \* headers it knows, their active tip once all
                              \* are applied, the height it asks for next

vars == <<head, saved, notes, pc, state, store, tip, next>>

NoHash == 0

\* The row before the device ever synced.
NoState == [hash |-> NoHash, work |-> 0, peaks |-> <<>>]

SyncState == [hash : Hashes \cup {NoHash}, work : Nat, peaks : Seq(Hashes)]

\* A VerifiedHeader. linked says that it has a PrevHash, which the tip
\* restored from sync_state has not. Its Status is left out: each ApplyHeader
\* computes every Status anew, from nothing but the headers the store holds.
VerifiedHeader ==
  [linked : BOOLEAN, work : Nat, final : BOOLEAN, peaks : Seq(Hashes)]

EmptyStore == [b \in {} |-> {}]

-----------------------------------------------------------------------------
\* SelectBestChain: greater work, or equal work and a greater tip hash.
SelectBestChain(aWork, aTip, bWork, bTip) ==
  aWork > bWork \/ (aWork = bWork /\ aTip > bTip)

\* Variant of IsBest: the highest chain is the best one.
Highest(st, b) ==
  \A c \in DOMAIN st \ {b} :
    \/ Height(b) > Height(c)
    \/ Height(b) = Height(c) /\ SelectBestChain(st[b].work, b, st[c].work, c)

\* Variant of IsBest: among chains of equal work the smallest hash wins.
SmallestHash(st, b) ==
  \A c \in DOMAIN st \ {b} : SelectBestChain(st[b].work, c, st[c].work, b)

\* recomputeActive selects b among all the headers of the store.
IsBest(st, b) ==
  \A c \in DOMAIN st \ {b} : SelectBestChain(st[b].work, b, st[c].work, c)

\* recomputeActive walks from the best header back, to the genesis or to the
\* first header that has no PrevHash or whose parent is unknown. With best
\* header b the store has an active header at height h, Chain[b][h + 1].
HasActiveAt(st, b, h) ==
  LET c == Chain[b] IN
  /\ \A i \in (h + 1) .. Len(c) : c[i] \in DOMAIN st
  /\ \A i \in (h + 2) .. Len(c) : st[c[i]].linked

\* What ApplyHeader asks of a header whose own hash and work are in order.
Links(st, b) == b # Genesis => Prev(b) \in DOMAIN st

\* What the first header of a page inherits from its parent.
Parent(st, b) ==
  IF b = Genesis THEN [work |-> 0, total |-> 0, peaks |-> <<>>]
  ELSE [work |-> st[Prev(b)].work, total |-> Total[Prev(b)], peaks |-> st[Prev(b)].peaks]

\* Variant: the work of a page is taken from its parent's, not added to it.
ApplyLess(st, page) ==
  LET parent == Parent(st, page[1]) IN
  [b \in DOMAIN st \cup Range(page) |->
     IF b \in Range(page)
     THEN [linked |-> TRUE, final |-> FALSE, peaks |-> parent.peaks,
           work |-> parent.work - (Total[b] - parent.total)]
     ELSE st[b]]

\* ApplyHeader on every header of a page that links. A page is a piece of one
\* chain: each header adds its own work to its parent's and takes over its
\* parent's peaks, and it replaces a header of the same hash.
ApplyHeaders(st, page) ==
  LET parent == Parent(st, page[1]) IN
  [b \in DOMAIN st \cup Range(page) |->
     IF b \in Range(page)
     THEN [linked |-> TRUE, final |-> FALSE, peaks |-> parent.peaks,
           work |-> parent.work + (Total[b] - parent.total)]
     ELSE st[b]]

\* What a restored tip looks like to the new ChainManager (SeedActive).
Seeded(row) ==
  IF row = NoState THEN EmptyStore
  ELSE [b \in {row.hash} |->
          [linked |-> FALSE, work |-> row.work, final |-> TRUE, peaks |-> row.peaks]]

\* The peaks FinalizeBlock computes for block b of the store.
GrownPeaks(st, b) ==
  Append(IF b = Genesis THEN <<>> ELSE st[Prev(b)].peaks, b)

\* Variant: the transaction is verified and the mmr_root is not.
VerifiesBody(st, b) == st[b].final \/ (b \in Signed /\ Links(st, b))

\* FinalizeBlock accepts the block served for b: it did before, or the transaction
\* verifies and the leaf, added to the parent's peaks, gives the mmr_root of the
\* block's own header.
Verifies(st, b) ==
  \/ st[b].final
  \/ /\ b \in Signed
     /\ Links(st, b)
     /\ GrownPeaks(st, b) = BodyRoot[b]

\* Variant: the header keeps the peaks of the header phase.
FinalizeStale(st, b) == [st EXCEPT ![b].final = TRUE]

FinalizeBlock(st, b) ==
  IF st[b].final THEN st
  ELSE [st EXCEPT ![b].final = TRUE, ![b].peaks = GrownPeaks(st, b)]

\* ingestBlockNote and SaveSyncedNote: INSERT OR IGNORE.
Ingest(b) ==
  [n \in Notes |-> IF n = NoteIn[b] /\ notes[n] = NoHash THEN b ELSE notes[n]]

-----------------------------------------------------------------------------
Init ==
  /\ head = Genesis
  /\ saved = NoState
  /\ notes = [n \in Notes |-> NoHash]
  /\ pc = [s \in Syncs |-> "idle"]
  /\ state = [s \in Syncs |-> NoState]
  /\ store = [s \in Syncs |-> EmptyStore]
  /\ tip = [s \in Syncs |-> NoHash]
  /\ next = [s \in Syncs |-> 0]

\* The Sync returns, with or without an error; its store is garbage.
Return(s) ==
  /\ pc' = [pc EXCEPT ![s] = "idle"]
  /\ state' = [state EXCEPT ![s] = NoState]
  /\ store' = [store EXCEPT ![s] = EmptyStore]
  /\ tip' = [tip EXCEPT ![s] = NoHash]
  /\ next' = [next EXCEPT ![s] = 0]

\* Variant: the first height is the saved one.
SavedHeight(s) == IF state[s] = NoState THEN 0 ELSE Height(state[s].hash)

\* The first height to finalise: the store is new, so always the genesis.
FirstHeight(s) == 0

\* CatchUpHeadersFirst reads the row and seeds the store with it.
Start(s) ==
  /\ pc[s] = "idle"
  /\ pc' = [pc EXCEPT ![s] = "headers"]
  /\ state' = [state EXCEPT ![s] = saved]
  /\ store' = [store EXCEPT ![s] = Seeded(saved)]
  /\ UNCHANGED <<head, saved, notes, tip, next>>

\* The headers of one answer: readPage, clipped to the server's chain.
Page(s) ==
  LET last == next[s] + PageSize IN
  SubSeq(Chain[head], next[s] + 1, IF last < Len(Chain[head]) THEN last ELSE Len(Chain[head]))

\* The store after a page, and the page a header of which does not link.
Applied(s) == IF Page(s) = <<>> THEN store[s] ELSE ApplyHeaders(store[s], Page(s))

Unlinked(s) == Page(s) # <<>> /\ ~ Links(store[s], Page(s)[1])

\* A page of headers, and more of them follow.
FetchHeaders(s) ==
  /\ pc[s] = "headers" /\ ~ Unlinked(s)
  /\ next[s] + PageSize < Len(Chain[head])
  /\ store' = [store EXCEPT ![s] = Applied(s)]
  /\ next' = [next EXCEPT ![s] = next[s] + PageSize]
  /\ UNCHANGED <<head, saved, notes, pc, state, tip>>

\* The last page: the active tip is known and the blocks come next.
FetchLastHeaders(s) ==
  /\ pc[s] = "headers" /\ ~ Unlinked(s)
  /\ next[s] + PageSize >= Len(Chain[head])
  /\ store' = [store EXCEPT ![s] = Applied(s)]
  /\ \E b \in DOMAIN Applied(s) : IsBest(Applied(s), b) /\ tip' = [tip EXCEPT ![s] = b]
  /\ next' = [next EXCEPT ![s] = FirstHeight(s)]
  /\ pc' = [pc EXCEPT ![s] = "blocks"]
  /\ UNCHANGED <<head, saved, notes, state>>

\* ErrMissingParent.
RejectHeaders(s) ==
  /\ pc[s] = "headers" /\ Unlinked(s)
  /\ Return(s)
  /\ UNCHANGED <<head, saved, notes>>

\* Variant: the loop stops before the tip.
StopsShort(s) == next[s] >= Height(tip[s])

\* finalizeActiveChain has passed the height of the active tip.
Finished(s) == next[s] > Height(tip[s])

\* A height at which the store has no active header.
SkipHeight(s) ==
  /\ pc[s] = "blocks" /\ ~ Finished(s)
  /\ ~ HasActiveAt(store[s], tip[s], next[s])
  /\ next' = [next EXCEPT ![s] = next[s] + 1]
  /\ UNCHANGED <<head, saved, notes, pc, state, store, tip>>

\* readPage answers the request for b at its height, which names b as the
\* known_block_hash, with b or with CHAIN_MISMATCH.
Serves(b) == Height(b) < Len(Chain[head]) /\ Chain[head][Height(b) + 1] = b

\* The active block at the height the Sync has reached.
Current(s) == Chain[tip[s]][next[s] + 1]

\* fetchBlock, FinalizeBlock and ingestBlockNote at one height.
FetchBlock(s) ==
  /\ pc[s] = "blocks" /\ ~ Finished(s)
  /\ HasActiveAt(store[s], tip[s], next[s])
  /\ Serves(Current(s)) /\ Verifies(store[s], Current(s))
  /\ store' = [store EXCEPT ![s] = FinalizeBlock(store[s], Current(s))]
  /\ notes' = Ingest(Current(s))
  /\ next' = [next EXCEPT ![s] = next[s] + 1]
  /\ UNCHANGED <<head, saved, pc, state, tip>>

\* CHAIN_MISMATCH, an empty page, or a block that does not verify.
RejectBlock(s) ==
  /\ pc[s] = "blocks" /\ ~ Finished(s)
  /\ HasActiveAt(store[s], tip[s], next[s])
  /\ ~ (Serves(Current(s)) /\ Verifies(store[s], Current(s)))
  /\ Return(s)
  /\ UNCHANGED <<head, saved, notes>>

\* persistActiveTip overwrites the row, whatever it has become meanwhile.
PersistActiveTip(s) ==
  LET b == tip[s] IN
  saved' = [hash |-> b, work |-> store[s][b].work, peaks |-> store[s][b].peaks]

\* finalizeActiveChain saves the tip, and CatchUpHeadersFirst saves it again.
Persist(s) ==
  /\ pc[s] = "blocks" /\ Finished(s)
  /\ PersistActiveTip(s)
  /\ pc' = [pc EXCEPT ![s] = "again"]
  /\ UNCHANGED <<head, notes, state, store, tip, next>>

PersistAgain(s) ==
  /\ pc[s] = "again"
  /\ PersistActiveTip(s)
  /\ Return(s)
  /\ UNCHANGED <<head, notes>>

\* The network fails, the server answers an error, the client quits.
Stop(s) ==
  /\ pc[s] # "idle"
  /\ Return(s)
  /\ UNCHANGED <<head, saved, notes>>

\* The server appends a block; after a fall it may mine another branch.
Grow ==
  /\ \E b \in Hashes : Len(Chain[b]) > 1 /\ Prev(b) = head /\ head' = b
  /\ UNCHANGED <<saved, notes, pc, state, store, tip, next>>

\* The server restarts with a prefix of its chain.
Fall ==
  /\ \E b \in Hashes \ {head} : (\E i \in 1 .. Len(Chain[head]) : Chain[head][i] = b) /\ head' = b
  /\ UNCHANGED <<saved, notes, pc, state, store, tip, next>>

Step(s) ==
  \/ Start(s) \/ FetchHeaders(s) \/ FetchLastHeaders(s) \/ RejectHeaders(s)
  \/ SkipHeight(s) \/ FetchBlock(s) \/ RejectBlock(s)
  \/ Persist(s) \/ PersistAgain(s)

Next == Grow \/ Fall \/ \E s \in Syncs : Step(s) \/ Stop(s)

Spec == Init /\ [][Next]_vars

\* The tick starts a Sync again and again, and at last Syncs are no longer cut
\* short, other than where a Step itself ends one; nothing makes the server move.
\* A Sync can always take a Step, so that its fairness is WF_vars(Step(s)).
FairSpec ==
  /\ Spec
  /\ \A s \in Syncs : []<><<Step(s)>>_vars
  /\ <>[][\A s \in Syncs : Stop(s) => Step(s)]_vars

-----------------------------------------------------------------------------
TypeOK ==
  /\ head \in Hashes
  /\ saved \in SyncState
  /\ notes \in [Notes -> Hashes \cup {NoHash}]
  /\ pc \in [Syncs -> {"idle", "headers", "blocks", "again"}]
  /\ state \in [Syncs -> SyncState]
  /\ DOMAIN store = Syncs
  /\ \A s \in Syncs : /\ DOMAIN store[s] \subseteq Hashes
                      /\ store[s] \in [DOMAIN store[s] -> VerifiedHeader]
  /\ tip \in [Syncs -> Hashes \cup {NoHash}]
  /\ next \in [Syncs -> Nat]

\* A block all of whose chain, as it is served, agrees with itself.
Sound(b) ==
  \A i \in 1 .. Len(Chain[b]) :
    Chain[b][i] \in Signed /\ BodyRoot[Chain[b][i]] = Chain[Chain[b][i]]

\* The row the device resumes from is a chain verified from the genesis on:
\* its peaks are that chain's leaves and its work that chain's work, whatever
\* forks, falls and half-finished Syncs it was reached through.
SavedIsChain ==
  saved # NoState =>
    /\ Sound(saved.hash)
    /\ saved.peaks = Chain[saved.hash]
    /\ saved.work = Total[saved.hash]

\* Every note the device can read on the chain it saved is among its notes:
\* no fork and no resumption skips a block.
NotesComplete ==
  saved # NoState =>
    \A i \in 1 .. Len(Chain[saved.hash]) :
      LET n == NoteIn[Chain[saved.hash][i]] IN n # NoNote => notes[n] # NoHash

\* A note is shown only from a block whose body, as it was served, agreed with its
\* own mmr_root, and so did all the blocks before it: never from one that failed,
\* and never from a fork verified in part.
NotesVerified ==
  \A n \in Notes : notes[n] # NoHash => NoteIn[notes[n]] = n /\ Sound(notes[n])

Better(row, other) ==
  \/ row.work > other.work
  \/ row.work = other.work /\ row.hash > other.hash

\* A Sync never saves a chain worse than the one it resumed from, even when
\* the server fell back, though it may overwrite what another Sync saved.
NeverWorse ==
  [][\A s \in Syncs :
       Persist(s) \/ PersistAgain(s) => ~ Better(state[s], saved')]_vars

\* The best of the chains the device can verify.
Best ==
  CHOOSE b \in Hashes :
    /\ Sound(b)
    /\ \A c \in Hashes \ {b} : Sound(c) => SelectBestChain(Total[b], b, Total[c], c)

\* When the server settles on the best chain there is, the device ends there.
Settles == <>[](head = Best) => <>[](saved.hash = Best)

\* protocol-v1.md:266-269: the transactions of displaced blocks "are not
\* presented as current until re-confirmed by the new active chain". When no
\* Sync runs, a note of a block that lost to the saved chain is on that chain.
OrphansHidden ==
  (\A s \in Syncs : pc[s] = "idle") =>
    \A n \in Notes :
      notes[n] # NoHash /\ Total[notes[n]] < saved.work =>
        \E i \in 1 .. Len(Chain[saved.hash]) : NoteIn[Chain[saved.hash][i]] = n
=============================================================================
