------------------------------ MODULE PeerSync ------------------------------
(***************************************************************************)
(* Several servers of one stream: each accepts transactions of its own,    *)
(* and one that starts may first take the chain of a peer if that carries  *)
(* more work (internal/api/peer.go).                                       *)
(*                                                                         *)
(* Ledger has the handlers, faults and restarts of one server. The one     *)
(* write that fails here is the one that a replacement causes: a device    *)
(* that is enrolled again has a row already, and the block stays in memory *)
(* only. A start reads the peer page by page while the peer goes on.       *)
(*                                                                         *)
(* All servers mine with the target of the genesis: every block adds the   *)
(* same work, and the work of a chain is its length. A block hash is the   *)
(* list of the transactions up to it and of who mined each. Only a server  *)
(* that replaced its chain loses a block and may mine it again, and that   *)
(* one can serve no peer, which would tell the two apart.                  *)
(***************************************************************************)
EXTENDS MMR, FiniteSets

CONSTANTS
  Nodes,          \* the servers
  NoNode,
  Genesis,        \* the transaction of the genesis block
  Creates,        \* creates; each has its own note id
  Enrolments,     \* member_adds, each of a device of its own
  Bundles,        \* key_rotation_bundles; they grant the new key to the owner
  Enrols,         \* Enrols[e]: the device that e enrols
  Revokes,        \* Revokes[b]: the device whose key b revokes
  Epoch,          \* Epoch[x]: the key epoch of a create, the new one of a bundle
  Author,         \* Author[x]: the device that signs x, or the owner
  Owner,
  PowEpochLength, \* 1000 in the code; clients mine for the first epoch
  PageLimit       \* blocks per page: 1000 are asked for and 100 served

Txs == Creates \cup Enrolments \cup Bundles

InitialEpoch == 1

ASSUME PeerAssumption ==
  /\ NoNode \notin Nodes
  /\ Genesis \notin Txs
  /\ Creates \cap (Enrolments \cup Bundles) = {} /\ Enrolments \cap Bundles = {}
  /\ \A x \in Enrolments \cup Bundles : Author[x] = Owner
  /\ \A e \in Enrolments : Enrols[e] # Owner
  /\ \A e, f \in Enrolments : Enrols[e] = Enrols[f] => e = f
  /\ \A b \in Bundles : Revokes[b] # Owner
  /\ \A x \in Creates \cup Bundles : Epoch[x] \in Nat
  /\ PowEpochLength \in Nat /\ PageLimit \in Nat \ {0}

VARIABLES
  chain,      \* the blocks of each node, from the genesis, as it serves them
  txIDs,      \* the transaction ids it refuses as duplicates
  count,      \* the number that decides the proof-of-work epoch
  noteIDs,    \* the note ids it refuses
  keyEpoch,   \* the key epoch it takes for current
  members,    \* the devices in its table of members
  authorized, \* the devices in its table of keys, besides the owner
  admitted,   \* the devices whose keys were in memory at some moment since the
              \* start: isAuthorized may have let a transaction of theirs through
  mode,       \* "up", "fetching" from a peer, or "down"
  peer,       \* the peer it fetches from
  fetched     \* the blocks it has from it

memory == <<chain, txIDs, count, noteIDs, admitted>>
tables == <<keyEpoch, members, authorized>>
ledger == <<memory, tables>>
vars == <<ledger, mode, peer, fetched>>

\* A block. It is wrapped when its row holds a whole block where a transaction
\* should be: replaceChainLocked stores MarshalBlock(b) as tx_cbor. It is not
\* saved when its row could not be written.
GenesisBlock ==
  [prev |-> <<>>, hash |-> <<>>, tx |-> Genesis,
   root |-> AddLeaf(<<>>, LeafHash(Genesis), 0), wrapped |-> FALSE, saved |-> TRUE]

Tip(c) == c[Len(c)]
Work(c) == Len(c)

\* Variant: the replacement leaves note_ids empty.
OwnNotesOn(c) == {x \in Creates : \E i \in DOMAIN c : c[i].tx = x /\ ~ c[i].wrapped}

\* The rows of note_ids and tx_ids behind a chain. A replacement fills tx_ids with
\* the hashes of the transactions, which equal no transaction id, and gives the
\* genesis a row as well.
NotesOn(c) == {x \in Creates : \E i \in DOMAIN c : c[i].tx = x}

IDsOn(c) == {x \in Txs : \E i \in DOMAIN c : c[i].tx = x /\ ~ c[i].wrapped}
IDRows(c) == Cardinality({i \in DOMAIN c : i > 1 \/ c[i].wrapped})

Init ==
  /\ chain = [v \in Nodes |-> <<GenesisBlock>>]
  /\ txIDs = [v \in Nodes |-> {}]
  /\ count = [v \in Nodes |-> 0]
  /\ noteIDs = [v \in Nodes |-> {}]
  /\ keyEpoch = [v \in Nodes |-> InitialEpoch]
  /\ members = [v \in Nodes |-> {}]
  /\ authorized = [v \in Nodes |-> {}]
  /\ admitted = [v \in Nodes |-> {}]
  /\ mode = [v \in Nodes |-> "down"]
  /\ peer = [v \in Nodes |-> NoNode]
  /\ fetched = [v \in Nodes |-> <<>>]

(***************************************************************************)
(* A transaction that isAuthorized lets through at some moment and that    *)
(* tryAccept accepts then.                                                 *)
(***************************************************************************)
\* persistDelta fails: INSERT INTO members has no OR IGNORE.
Saves(v, x) == ~ (x \in Enrolments /\ Enrols[x] \in members[v])

\* Variant: the header is linked to the first block.
NewBlockOnGenesis(v, x) ==
  [prev |-> <<>>, hash |-> Append(Tip(chain[v]).hash, <<x, v>>), tx |-> x,
   root |-> AddLeaf(Tip(chain[v]).root, LeafHash(x), Len(chain[v])),
   wrapped |-> FALSE, saved |-> Saves(v, x)]

NewBlock(v, x) ==
  [prev |-> Tip(chain[v]).hash, hash |-> Append(Tip(chain[v]).hash, <<x, v>>), tx |-> x,
   root |-> AddLeaf(Tip(chain[v]).root, LeafHash(x), Len(chain[v])),
   wrapped |-> FALSE, saved |-> Saves(v, x)]

\* Variant: a create may name any key epoch.
AnyEpoch(v, x) == x \in Bundles => Epoch[x] > keyEpoch[v]

EpochFits(v, x) ==
  /\ x \in Creates => Epoch[x] = keyEpoch[v]
  /\ x \in Bundles => Epoch[x] > keyEpoch[v]

Admissible(v, x) ==
  /\ Author[x] = Owner \/ Author[x] \in admitted[v]
  /\ x \notin txIDs[v] /\ x \notin noteIDs[v]
  /\ count[v] < PowEpochLength
  /\ EpochFits(v, x)

\* The tables after a block that could be written.
Persist(v, x) ==
  /\ keyEpoch' = [keyEpoch EXCEPT ![v] = IF x \in Bundles THEN Epoch[x] ELSE @]
  /\ members' = [members EXCEPT ![v] = IF x \in Enrolments THEN @ \cup {Enrols[x]} ELSE @]
  /\ authorized' = [authorized EXCEPT ![v] =
       IF x \in Enrolments THEN @ \cup {Enrols[x]}
       ELSE IF x \in Bundles THEN @ \ {Revokes[x]} ELSE @]

Accept(v, x) ==
  /\ mode[v] = "up" /\ Admissible(v, x)
  /\ chain' = [chain EXCEPT ![v] = Append(@, NewBlock(v, x))]
  /\ txIDs' = [txIDs EXCEPT ![v] = @ \cup {x}]
  /\ count' = [count EXCEPT ![v] = @ + 1]
  /\ noteIDs' = [noteIDs EXCEPT ![v] = @ \cup ({x} \cap Creates)]
  /\ admitted' = [admitted EXCEPT ![v] =
       IF x \in Enrolments THEN @ \cup {Enrols[x]} ELSE @]
  /\ IF Saves(v, x) THEN Persist(v, x) ELSE UNCHANGED tables
  /\ UNCHANGED <<mode, peer, fetched>>

(***************************************************************************)
(* Stopping and starting. NewServerWithPeer rebuilds the ledger from its   *)
(* tables and then, before it serves, calls SyncFromPeer.                  *)
(***************************************************************************)
Stop(v) ==
  /\ mode[v] = "up"
  /\ mode' = [mode EXCEPT ![v] = "down"]
  /\ UNCHANGED <<ledger, peer, fetched>>

\* rebuildStream, from tables that hold the blocks of c.
RebuildStream(v, c) ==
  /\ chain' = [chain EXCEPT ![v] = c]
  /\ txIDs' = [txIDs EXCEPT ![v] = IDsOn(c)]
  /\ count' = [count EXCEPT ![v] = IDRows(c)]
  /\ noteIDs' = [noteIDs EXCEPT ![v] = NotesOn(c)]
  /\ admitted' = [admitted EXCEPT ![v] = authorized[v]]
  /\ UNCHANGED tables

\* A start reads the rows, up to the blocks in memory only. It fails, now and ever
\* after, if a block above one of those was saved: a leaf is missing.
Restart(v) ==
  \E k \in DOMAIN chain[v] :
    /\ \A i \in DOMAIN chain[v] : chain[v][i].saved <=> i <= k
    /\ RebuildStream(v, SubSeq(chain[v], 1, k))

StartAlone(v) ==
  /\ mode[v] = "down"
  /\ Restart(v)
  /\ mode' = [mode EXCEPT ![v] = "up"]
  /\ UNCHANGED <<peer, fetched>>

\* The peer may be anyone, the server itself included, which does not answer.
Start(v, w) ==
  /\ mode[v] = "down"
  /\ Restart(v)
  /\ mode' = [mode EXCEPT ![v] = "fetching"]
  /\ peer' = [peer EXCEPT ![v] = w]
  /\ UNCHANGED fetched

\* readPage of the peer, at the height after the blocks fetched so far.
Page(v) ==
  LET c == chain[peer[v]]
      from == Len(fetched[v])
  IN SubSeq(c, from + 1, IF from + PageLimit < Len(c) THEN from + PageLimit ELSE Len(c))

\* Variant: the first page is taken for the whole chain.
OnePage(v) == TRUE

LastPage(v) == Len(fetched[v]) + PageLimit >= Len(chain[peer[v]])

\* Variant: a page is served whatever its rows hold.
AnyPage(v) == mode[peer[v]] = "up"

\* marshalBlock decodes each row as a transaction: a wrapped one is a 500.
Served(v) ==
  mode[peer[v]] = "up" /\ \A i \in DOMAIN Page(v) : ~ Page(v)[i].wrapped

\* ValidateAndReplaceChain: the genesis anchor, heights, linkage, and the peaks
\* that each leaf leads to from those of the block before.
Valid(c) ==
  /\ c[1].hash = <<>>
  /\ \A i \in DOMAIN c : Len(c[i].hash) = i - 1
  /\ \A i \in 2..Len(c) : c[i].prev = c[i - 1].hash
  /\ c[1].root = AddLeaf(<<>>, LeafHash(c[1].tx), 0)
  /\ \A i \in 2..Len(c) : c[i].root = AddLeaf(c[i - 1].root, LeafHash(c[i].tx), i - 1)

Heavier(c, k) == Work(c) > Work(k)

\* Variant: the row of the genesis is kept.
WrappedAbove(c) == [i \in DOMAIN c |-> [c[i] EXCEPT !.wrapped = i > 1]]

Wrapped(c) == [i \in DOMAIN c |-> [c[i] EXCEPT !.wrapped = TRUE]]

\* replaceChainLocked: the chain and what goes with it; keys, members and the key
\* epoch are left alone.
ReplaceChain(v, c) == RebuildStream(v, Wrapped(c))

FetchPage(v) ==
  /\ mode[v] = "fetching" /\ Served(v) /\ ~ LastPage(v)
  /\ fetched' = [fetched EXCEPT ![v] = @ \o Page(v)]
  /\ UNCHANGED <<ledger, mode, peer>>

FetchLast(v) ==
  /\ mode[v] = "fetching" /\ Served(v) /\ LastPage(v)
  /\ LET c == fetched[v] \o Page(v) IN
       /\ Valid(c)
       /\ IF Heavier(c, chain[v]) THEN ReplaceChain(v, c) ELSE UNCHANGED ledger
  /\ mode' = [mode EXCEPT ![v] = "up"]
  /\ peer' = [peer EXCEPT ![v] = NoNode]
  /\ fetched' = [fetched EXCEPT ![v] = <<>>]

\* Any error ends the process: the peer is down or answers 500, or the pages do
\* not make a chain.
StartFails(v) ==
  /\ mode[v] = "fetching"
  /\ ~ Served(v) \/ (LastPage(v) /\ ~ Valid(fetched[v] \o Page(v)))
  /\ mode' = [mode EXCEPT ![v] = "down"]
  /\ peer' = [peer EXCEPT ![v] = NoNode]
  /\ fetched' = [fetched EXCEPT ![v] = <<>>]
  /\ UNCHANGED ledger

Next ==
  \E v \in Nodes :
    \/ \E x \in Txs : Accept(v, x)
    \/ \E w \in Nodes : Start(v, w)
    \/ Stop(v) \/ StartAlone(v)
    \/ FetchPage(v) \/ FetchLast(v) \/ StartFails(v)

Spec == Init /\ [][Next]_vars

-----------------------------------------------------------------------------
BlockOK(b) ==
  /\ b.prev \in Seq(Txs \X Nodes) /\ b.hash \in Seq(Txs \X Nodes)
  /\ b.tx \in Txs \cup {Genesis} /\ b.wrapped \in BOOLEAN /\ b.saved \in BOOLEAN

Replaced(v) == chain[v][1].wrapped

\* Types; the rows of an adopted chain are wrapped from the genesis on without a gap,
\* and the only block that cannot be written is an enrolment repeated after one.
TypeOK ==
  /\ \A v \in Nodes : Len(chain[v]) > 0 /\ \A i \in DOMAIN chain[v] : BlockOK(chain[v][i])
  /\ txIDs \in [Nodes -> SUBSET Txs] /\ noteIDs \in [Nodes -> SUBSET Creates]
  /\ count \in [Nodes -> Nat] /\ keyEpoch \in [Nodes -> Nat]
  /\ mode \in [Nodes -> {"up", "fetching", "down"}]
  /\ \A v \in Nodes : mode[v] = "fetching" => peer[v] \in Nodes
  /\ \A v \in Nodes : \A i \in DOMAIN chain[v] :
       /\ chain[v][i].wrapped => \A j \in 1..i : chain[v][j].wrapped
       /\ ~ chain[v][i].saved =>
            Replaced(v) /\ ~ chain[v][i].wrapped /\ chain[v][i].tx \in Enrolments

\* Whatever was accepted, fetched and replaced, the blocks a node serves form one
\* chain from the genesis and each root is that of the leaves up to it.
ChainsLinked ==
  \A v \in Nodes : Valid(chain[v])

\* No note is twice on a chain, although a replacement forgets every transaction
\* id and the same note is submitted to many servers.
NoteOnce ==
  \A v \in Nodes : \A j \in DOMAIN chain[v] : \A i \in 1..(j - 1) :
    chain[v][j].tx \in Creates => chain[v][i].tx # chain[v][j].tx

\* What a node accepted after a replacement, with the keys and the epoch of the
\* chain it gave up (peer.go:24-26). Such blocks stay on that node, because it can
\* serve no peer.
AfterReplacement(v, i) == Replaced(v) /\ ~ chain[v][i].wrapped

\* A create was written by a device that an earlier block of the same chain
\* enrols.
WritersEnrolled ==
  \A v \in Nodes : \A i \in DOMAIN chain[v] :
    chain[v][i].tx \in Creates =>
      \/ Author[chain[v][i].tx] = Owner
      \/ \E j \in 1..(i - 1) : chain[v][j].tx \in Enrolments
                               /\ Enrols[chain[v][j].tx] = Author[chain[v][i].tx]
      \/ AfterReplacement(v, i)

\* A create was written for the key epoch that the bundles before it on the same
\* chain lead to: whichever server accepted it, a rotation fences the old key.
EpochFollowsChain ==
  \A v \in Nodes : \A i \in DOMAIN chain[v] : LET x == chain[v][i].tx IN
    x \in Creates =>
      \/ /\ \A j \in 1..(i - 1) : chain[v][j].tx \in Bundles => Epoch[chain[v][j].tx] <= Epoch[x]
         /\ \/ Epoch[x] = InitialEpoch
            \/ \E j \in 1..(i - 1) : /\ chain[v][j].tx \in Bundles
                                     /\ Epoch[chain[v][j].tx] = Epoch[x]
      \/ AfterReplacement(v, i)

Hashes(c) == [i \in DOMAIN c |-> c[i].hash]

\* An adopted chain is exactly the one that another node serves at that moment,
\* although it was read page by page while that one moved.
ExchangedWhole ==
  [][\A v \in Nodes :
       mode[v] = "fetching" /\ chain'[v] # chain[v]
         => \E w \in Nodes \ {v} : Hashes(chain'[v]) = Hashes(chain[w])]_vars
=============================================================================
