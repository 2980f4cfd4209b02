-------------------------------- MODULE Audit --------------------------------
(***************************************************************************)
(* A device that keeps the position of its last Sync and checks single     *)
(* transactions against it (VerifyLeafInclusion in internal/sync/client.go *)
(* and handleProof in internal/api/server.go), and the older catch-up that *)
(* moves the position page by page (CatchUp in internal/sync/anchor.go),   *)
(* while the server's chain grows or becomes another one.                  *)
(*                                                                         *)
(* A block hash is the list of the leaves up to the block, and a root the  *)
(* list of the peaks. Transactions are numbers in the order they were      *)
(* made. Another chain may lack one of them, so that later ones lie one    *)
(* place earlier, and it may be shorter: a server that starts again has    *)
(* lost the blocks that it could not write.                                *)
(***************************************************************************)
EXTENDS MMR

CONSTANTS
  CatchUpPageSize, \* blocks per page, catchUpPageSize in the code
  MaxLeaves        \* bound: the leaves of a chain

ASSUME AuditAssumption == CatchUpPageSize \in Nat \ {0} /\ MaxLeaves \in Nat

VARIABLES
  leaves,    \* the server's leafHashes, in order
  peaks,     \* the server's peaks, and the mmr_root of its tip
  saved,     \* the position in sync_state, its height as a number of leaves, with
             \* the leaves that its block stands for
  request,   \* the position a catch-up has reached, and the next height it asks for
  failed     \* the last catch-up returned an error

server == <<leaves, peaks>>
auditVars == <<server, saved, request, failed>>

NoPosition == [hash |-> <<>>, root |-> <<>>, total |-> 0]
NoRequest == [hash |-> <<>>, root |-> <<>>, from |-> -1]

Position(hash, root) == [hash |-> hash, root |-> root, total |-> Len(hash)]

\* The leaves of the blocks 0 to n - 1 of a stream, in order of height.
Chain(n, lacking) == [i \in 1..n |-> LeafHash(IF i < lacking THEN i ELSE i + 1)]

AuditInit ==
  /\ leaves = Chain(1, 2)
  /\ peaks = AddLeaf(<<>>, LeafHash(1), 0)
  /\ saved = NoPosition /\ request = NoRequest /\ failed = FALSE

\* tryAccept appends the leaf of a transaction.
AcceptLeaf ==
  /\ Len(leaves) < MaxLeaves
  /\ LET leaf == LeafHash(leaves[Len(leaves)][1] + 1) IN
       /\ leaves' = Append(leaves, leaf)
       /\ peaks' = AddLeaf(peaks, leaf, Len(leaves))
  /\ UNCHANGED <<saved, request, failed>>

\* The server starts again, without what it could not write, or is another one.
Replace ==
  \E n \in 1..MaxLeaves : \E lacking \in 2..(n + 1) :
    /\ leaves' = Chain(n, lacking)
    /\ peaks' = Peaks(leaves')
    /\ UNCHANGED <<saved, request, failed>>

\* A Sync saves the tip it read.
Sync ==
  /\ request = NoRequest
  /\ saved' = Position(leaves, peaks)
  /\ UNCHANGED <<server, request, failed>>

(***************************************************************************)
(* CatchUp: one action per request.                                        *)
(***************************************************************************)
\* The height that a catch-up starts from.
SavedHeight == IF saved.total = 0 THEN 0 ELSE saved.total - 1

StartCatchUp ==
  /\ request = NoRequest
  /\ request' = [hash |-> saved.hash, root |-> saved.root,
                 from |-> SavedHeight]
  /\ failed' = FALSE
  /\ UNCHANGED <<server, saved>>

\* readPage answers an empty page, and compares nothing, above the tip.
PageEmpty == request.from >= Len(leaves)

\* known_block_hash is compared with the block at from_height.
Known == request.hash = <<>> \/ request.hash = SubSeq(leaves, 1, request.from + 1)

PageEnd ==
  IF request.from + CatchUpPageSize < Len(leaves) THEN request.from + CatchUpPageSize
                                                  ELSE Len(leaves)

\* Variant: the block that the position is at adds its leaf again.
FirstAlways == request.from + 1

\* The first block of a page whose leaf is new: the one that the position is at
\* comes again.
FirstNew == IF request.hash = <<>> THEN request.from + 1 ELSE request.from + 2

\* The peaks after each block of the page.
Grown ==
  LET root[i \in (FirstNew - 1)..PageEnd] ==
        IF i = FirstNew - 1 THEN request.root ELSE AddLeaf(root[i - 1], leaves[i], i - 1)
  IN root

\* The root in each header is the one the device computes.
RootsMatch == \A i \in FirstNew..PageEnd : Grown[i] = Peaks(SubSeq(leaves, 1, i))

CatchUpPage ==
  /\ request # NoRequest /\ ~ PageEmpty /\ Known /\ RootsMatch
  /\ IF PageEnd < Len(leaves)
     THEN /\ request' = [hash |-> SubSeq(leaves, 1, PageEnd), root |-> Grown[PageEnd],
                         from |-> PageEnd]
          /\ UNCHANGED saved
     ELSE /\ saved' = Position(leaves, Grown[PageEnd])
          /\ request' = NoRequest
  /\ UNCHANGED <<server, failed>>

\* After an empty page the position is saved as it is: the height is the one that
\* was asked for.
CatchUpEmpty ==
  /\ request # NoRequest /\ PageEmpty
  /\ saved' = [hash |-> request.hash, root |-> request.root, total |-> request.from + 1]
  /\ request' = NoRequest
  /\ UNCHANGED <<server, failed>>

\* The server does not answer.
CatchUpGivesUp ==
  /\ request # NoRequest
  /\ request' = NoRequest
  /\ UNCHANGED <<server, saved, failed>>

\* The server answers CHAIN_MISMATCH, or a root differs.
CatchUpFails ==
  /\ request # NoRequest /\ ~ PageEmpty /\ ~ (Known /\ RootsMatch)
  /\ request' = NoRequest
  /\ failed' = TRUE
  /\ UNCHANGED <<server, saved>>

AuditNext ==
  \/ AcceptLeaf \/ Replace \/ Sync
  \/ StartCatchUp \/ CatchUpPage \/ CatchUpEmpty \/ CatchUpGivesUp \/ CatchUpFails

AuditSpec == AuditInit /\ [][AuditNext]_auditVars

-----------------------------------------------------------------------------
Verified(p) == saved # NoPosition /\ VerifyInclusionProof(p, saved.root, saved.total)

\* The height saved is that of the block saved. When the server has lost blocks
\* between two pages of a catch-up, it is one too high: CatchUp has put it to
\* next_from_height by then.
Exact == saved.total = Len(saved.hash)

\* Right after a Sync or a catch-up, the peaks kept leaf by leaf (AddLeaf) are the
\* summits that the server computes for a proof (mountainSummits), and, unless the
\* height is off, the proof it makes verifies, at its own position and for its own
\* leaf only.
ProofsAgree ==
  saved.hash = leaves =>
    /\ MountainSummits(leaves) = saved.root
    /\ Exact => \A pos, at \in 0..(saved.total - 1) :
         \A leaf \in {LeafHash(i) : i \in 1..(MaxLeaves + 1)} :
           LET p == GenerateInclusionProof(leaves, pos) IN
           Verified([p EXCEPT !.index = at, !.leaf = leaf])
             <=> at = pos /\ leaf = leaves[pos + 1]

\* Whatever the server's present chain has in common with the saved one, however
\* many leaves it has, and even if the saved height is off, an audit succeeds only
\* for a leaf that both have at the same place. (It may fail for such a leaf: a
\* proof is for one size.)
AuditSound ==
  \A pos \in 0..(Len(leaves) - 1) :
    Verified(GenerateInclusionProof(leaves, pos))
      => pos < Len(saved.hash) /\ saved.hash[pos + 1] = leaves[pos + 1]

OnPrefix == saved.hash = SubSeq(leaves, 1, Len(saved.hash))

\* A catch-up never mistakes the chain it is on for another one, as long as one
\* page reaches its end. (A second page is always refused: CatchUp sends the hash
\* of the last block of the first page with the height after it; and so is the
\* first after an empty page has left that height.)
FailsOnlyBeyondAPage ==
  [][~ failed /\ failed' =>
       ~ OnPrefix \/ ~ Exact \/ Len(leaves) > SavedHeight + CatchUpPageSize]_auditVars
=============================================================================
