----------------------------- MODULE PeerProofs -----------------------------
(***************************************************************************)
(* What PeerSync guarantees for any number of servers, every set of        *)
(* transactions, and pages of every size.                                  *)
(***************************************************************************)
EXTENDS PeerSync, FiniteSetTheorems, SequenceTheorems, TLAPS

-----------------------------------------------------------------------------
(***************************************************************************)
(* Chains as sequences of blocks. Nothing is asked of a root, so that each *)
(* chain brings a set R of its own.                                        *)
(***************************************************************************)
Hash == Seq(Txs \X Nodes)

Blocks(R) ==
  [prev : Hash, hash : Hash, tx : Txs \cup {Genesis}, root : R, wrapped : BOOLEAN,
   saved : BOOLEAN]

IsChain(c) == \E R : c \in Seq(Blocks(R))

\* More roots make more blocks.
LEMMA BlocksGrow ==
  ASSUME NEW R, NEW S, R \subseteq S, NEW c \in Seq(Blocks(R))
  PROVE  c \in Seq(Blocks(S))
<1>1. Blocks(R) \subseteq Blocks(S)
  BY DEF Blocks
<1> QED BY <1>1, SeqDef

\* A chain has a length and blocks with the fields that a block has.
LEMMA ChainFields ==
  ASSUME NEW c, IsChain(c)
  PROVE  /\ Len(c) \in Nat /\ DOMAIN c = 1..Len(c)
         /\ \A i \in 1..Len(c) :
              /\ c[i].prev \in Hash /\ c[i].hash \in Hash /\ c[i].tx \in Txs \cup {Genesis}
              /\ c[i].wrapped \in BOOLEAN /\ c[i].saved \in BOOLEAN
<1>1. PICK R : c \in Seq(Blocks(R))
  BY DEF IsChain
<1>2. \A i \in 1..Len(c) : c[i] \in Blocks(R)
  BY <1>1
<1> QED BY <1>1, <1>2 DEF Blocks

\* A chain and one block more.
LEMMA AppendChain ==
  ASSUME NEW c, IsChain(c), NEW b, IsChain(<<b>>)
  PROVE  /\ IsChain(Append(c, b))
         /\ Len(Append(c, b)) = Len(c) + 1
         /\ Append(c, b)[Len(c) + 1] = b
         /\ \A i \in 1..Len(c) : Append(c, b)[i] = c[i]
<1>1. PICK R : c \in Seq(Blocks(R))
  BY DEF IsChain
<1>2. PICK S : <<b>> \in Seq(Blocks(S))
  BY DEF IsChain
<1>3. c \in Seq(Blocks(R \cup S)) /\ <<b>> \in Seq(Blocks(R \cup S))
  BY <1>1, <1>2, BlocksGrow
<1>4. b \in Blocks(R \cup S)
  BY <1>3
<1>5. Append(c, b) \in Seq(Blocks(R \cup S))
  BY <1>3, <1>4
<1> QED BY <1>3, <1>4, <1>5 DEF IsChain

\* A part of a chain.
LEMMA PartOfChain ==
  ASSUME NEW c, IsChain(c), NEW m \in Nat, NEW n \in Nat, m <= n, n <= Len(c)
  PROVE  /\ IsChain(SubSeq(c, m + 1, n))
         /\ Len(SubSeq(c, m + 1, n)) = n - m
         /\ \A i \in 1..(n - m) : SubSeq(c, m + 1, n)[i] = c[m + i]
<1>1. PICK R : c \in Seq(Blocks(R))
  BY DEF IsChain
<1>2. /\ SubSeq(c, m + 1, n) \in Seq(Blocks(R))
      /\ Len(SubSeq(c, m + 1, n)) = n - m
      /\ \A i \in 1..(n - m) : SubSeq(c, m + 1, n)[i] = c[m + i]
  BY <1>1
<1> QED BY <1>2 DEF IsChain

\* Two chains one after the other.
LEMMA ConcatChain ==
  ASSUME NEW c, IsChain(c), NEW d, IsChain(d)
  PROVE  /\ IsChain(c \o d)
         /\ Len(c \o d) = Len(c) + Len(d)
         /\ \A i \in 1..Len(c) : (c \o d)[i] = c[i]
         /\ \A i \in 1..Len(d) : (c \o d)[Len(c) + i] = d[i]
<1>1. PICK R : c \in Seq(Blocks(R))
  BY DEF IsChain
<1>2. PICK S : d \in Seq(Blocks(S))
  BY DEF IsChain
<1>3. c \in Seq(Blocks(R \cup S)) /\ d \in Seq(Blocks(R \cup S))
  BY <1>1, <1>2, BlocksGrow
<1>4. c \o d \in Seq(Blocks(R \cup S)) /\ Len(c \o d) = Len(c) + Len(d)
  BY <1>3
<1>5. /\ \A i \in 1..Len(c) : (c \o d)[i] = c[i]
      /\ \A i \in 1..Len(d) : (c \o d)[Len(c) + i] = d[i]
  BY <1>3
<1> QED BY <1>4, <1>5 DEF IsChain

\* Wrapping changes the rows and nothing in the blocks.
LEMMA WrappedChain ==
  ASSUME NEW c, IsChain(c)
  PROVE  /\ IsChain(Wrapped(c)) /\ Len(Wrapped(c)) = Len(c)
         /\ \A i \in 1..Len(c) :
              /\ Wrapped(c)[i].prev = c[i].prev /\ Wrapped(c)[i].hash = c[i].hash
              /\ Wrapped(c)[i].tx = c[i].tx /\ Wrapped(c)[i].root = c[i].root
              /\ Wrapped(c)[i].wrapped /\ Wrapped(c)[i].saved = c[i].saved
<1>1. PICK R : c \in Seq(Blocks(R))
  BY DEF IsChain
<1>2. Len(c) \in Nat /\ DOMAIN c = 1..Len(c) /\ \A i \in 1..Len(c) : c[i] \in Blocks(R)
  BY <1>1
<1>3. ASSUME NEW b \in Blocks(R), NEW w, w = [b EXCEPT !.wrapped = TRUE]
      PROVE  /\ w \in Blocks(R) /\ w.prev = b.prev /\ w.hash = b.hash /\ w.tx = b.tx
             /\ w.root = b.root /\ w.wrapped /\ w.saved = b.saved
  BY <1>3 DEF Blocks
<1>4. Wrapped(c) \in [1..Len(c) -> Blocks(R)]
  BY <1>2, <1>3 DEF Wrapped
<1>5. Wrapped(c) \in Seq(Blocks(R)) /\ Len(Wrapped(c)) = Len(c)
  BY <1>2, <1>4, SeqDef
<1>6. \A i \in 1..Len(c) : Wrapped(c)[i] = [c[i] EXCEPT !.wrapped = TRUE]
  BY <1>2 DEF Wrapped
<1>7. \A i \in 1..Len(c) :
        /\ Wrapped(c)[i].prev = c[i].prev /\ Wrapped(c)[i].hash = c[i].hash
        /\ Wrapped(c)[i].tx = c[i].tx /\ Wrapped(c)[i].root = c[i].root
        /\ Wrapped(c)[i].wrapped /\ Wrapped(c)[i].saved = c[i].saved
  BY <1>2, <1>3, <1>6
<1> QED BY <1>5, <1>7 DEF IsChain

\* Chains with the same blocks at the same places are the same.
LEMMA SameChain ==
  ASSUME NEW c, IsChain(c), NEW d, IsChain(d), Len(c) = Len(d),
         \A i \in 1..Len(c) : c[i] = d[i]
  PROVE  c = d
<1>1. PICK R : c \in Seq(Blocks(R))
  BY DEF IsChain
<1>2. PICK S : d \in Seq(Blocks(S))
  BY DEF IsChain
<1>3. c \in Seq(Blocks(R \cup S)) /\ d \in Seq(Blocks(R \cup S))
  BY <1>1, <1>2, BlocksGrow
<1> QED BY <1>3, SeqEqual

-----------------------------------------------------------------------------
(***************************************************************************)
(* The inductive invariant, node by node.                                  *)
(***************************************************************************)

\* The rows of an adopted chain come first.
WrappedFirst(c) == \A i \in 1..Len(c) : c[i].wrapped => \A j \in 1..i : c[j].wrapped

Once(c) ==
  \A j \in 1..Len(c) : \A i \in 1..(j - 1) :
    c[i].tx = c[j].tx => c[j].tx \notin Creates /\ c[i].wrapped

\* The tables know what is on the chain: every create, and of the rest what was
\* accepted here.
Known(c, ids, notes) ==
  \A i \in 1..Len(c) :
    /\ c[i].tx \in Creates => c[i].tx \in notes
    /\ c[i].tx \in Txs /\ ~ c[i].wrapped => c[i].tx \in ids

EnrolledBy(c, m, d) ==
  \E j \in 1..m : c[j].tx \in Enrolments /\ Enrols[c[j].tx] = d

\* The keys of a node that never replaced its chain come from that chain.
KeysFromChain(c, keys) == ~ c[1].wrapped => \A d \in keys : EnrolledBy(c, Len(c), d)

Writers(c) ==
  \A i \in 1..Len(c) : c[i].tx \in Creates =>
    \/ Author[c[i].tx] = Owner
    \/ EnrolledBy(c, i - 1, Author[c[i].tx])
    \/ c[1].wrapped /\ ~ c[i].wrapped

\* The key epoch that the first m blocks lead to.
EpochAt(c, m, e) ==
  /\ \A j \in 1..m : c[j].tx \in Bundles => Epoch[c[j].tx] <= e
  /\ e = InitialEpoch \/ \E j \in 1..m : c[j].tx \in Bundles /\ Epoch[c[j].tx] = e

\* So does the epoch of a node that never replaced its chain.
EpochFromChain(c, e) == ~ c[1].wrapped => EpochAt(c, Len(c), e)

Epochs(c) ==
  \A i \in 1..Len(c) : c[i].tx \in Creates =>
    \/ EpochAt(c, i - 1, Epoch[c[i].tx])
    \/ c[1].wrapped /\ ~ c[i].wrapped

\* What has no row is an enrolment that followed a replacement.
Rows(c) ==
  \A i \in 1..Len(c) :
    /\ c[i].wrapped => c[i].saved
    /\ ~ c[i].saved => c[1].wrapped /\ c[i].tx \in Enrolments

ChainOK(c) ==
  Valid(c) /\ WrappedFirst(c) /\ Once(c) /\ Rows(c) /\ Writers(c) /\ Epochs(c)

Consistent(v) ==
  LET c == chain[v] IN
  /\ ChainOK(c) /\ Known(c, txIDs[v], noteIDs[v])
  /\ KeysFromChain(c, admitted[v]) /\ KeysFromChain(c, authorized[v])
  /\ KeysFromChain(c, members[v]) /\ EpochFromChain(c, keyEpoch[v])

\* A node that fetches has the first blocks of its peer's chain, but for one case:
\* the peer replaced its chain, and then it serves no page any more.
Ahead(v) ==
  mode[v] = "fetching" =>
    LET c == chain[peer[v]]
        f == fetched[v]
    IN /\ peer[v] \in Nodes /\ Len(f) < Len(c)
       /\ \/ \A i \in 1..Len(f) : f[i] = c[i] /\ ~ c[i].wrapped
          \/ c[Len(f) + 1].wrapped

\* The variables are tables with a row for each node.
LedgerTables ==
  /\ chain = [v \in Nodes |-> chain[v]]
  /\ txIDs \in [Nodes -> SUBSET Txs] /\ noteIDs \in [Nodes -> SUBSET Creates]
  /\ count \in [Nodes -> Nat] /\ keyEpoch \in [Nodes -> Nat]
  /\ admitted = [v \in Nodes |-> admitted[v]] /\ authorized = [v \in Nodes |-> authorized[v]]
  /\ members = [v \in Nodes |-> members[v]]

ControlTables ==
  /\ mode \in [Nodes -> {"up", "fetching", "down"}]
  /\ peer \in [Nodes -> Nodes \cup {NoNode}]
  /\ fetched = [v \in Nodes |-> fetched[v]]

Chains ==
  \A v \in Nodes : /\ IsChain(chain[v]) /\ Len(chain[v]) > 0 /\ IsChain(fetched[v])
                   /\ mode[v] # "fetching" => fetched[v] = <<>>

Inductive ==
  /\ LedgerTables /\ ControlTables /\ Chains
  /\ \A v \in Nodes : Consistent(v) /\ Ahead(v)

-----------------------------------------------------------------------------
(***************************************************************************)
(* A node that accepts a transaction.                                      *)
(***************************************************************************)

\* A new block is a block, linked to the tip.
LEMMA NewBlockFields ==
  ASSUME NEW v \in Nodes, NEW x \in Txs, IsChain(chain[v]), Len(chain[v]) > 0
  PROVE  /\ IsChain(<<NewBlock(v, x)>>)
         /\ NewBlock(v, x).prev = chain[v][Len(chain[v])].hash
         /\ Len(NewBlock(v, x).hash) = Len(chain[v][Len(chain[v])].hash) + 1
         /\ NewBlock(v, x).tx = x /\ ~ NewBlock(v, x).wrapped
         /\ NewBlock(v, x).saved = Saves(v, x)
         /\ NewBlock(v, x).root =
              AddLeaf(chain[v][Len(chain[v])].root, LeafHash(x), Len(chain[v]))
<1> DEFINE h == chain[v][Len(chain[v])].hash
           root == AddLeaf(chain[v][Len(chain[v])].root, LeafHash(x), Len(chain[v]))
           b == NewBlock(v, x)
<1>1. h \in Hash
  BY ChainFields
<1>2. <<x, v>> \in Txs \X Nodes
  OBVIOUS
<1>3. Append(h, <<x, v>>) \in Hash /\ Len(Append(h, <<x, v>>)) = Len(h) + 1
  BY <1>1, <1>2 DEF Hash
<1>4. b = [prev |-> h, hash |-> Append(h, <<x, v>>), tx |-> x, root |-> root, wrapped |-> FALSE,
           saved |-> Saves(v, x)]
  BY DEF NewBlock, Tip
<1> HIDE DEF h, root, b
<1>5. b \in Blocks({root})
  <2>1. Saves(v, x) \in BOOLEAN
    BY DEF Saves
  <2> QED BY <1>1, <1>3, <1>4, <2>1 DEF Blocks
<1>6. IsChain(<<b>>)
  <2>1. <<b>> \in Seq(Blocks({root}))
    BY <1>5
  <2> QED BY <2>1 DEF IsChain
<1>7. /\ b.prev = h /\ Len(b.hash) = Len(h) + 1 /\ b.tx = x /\ ~ b.wrapped /\ b.root = root
      /\ b.saved = Saves(v, x)
  BY <1>3, <1>4
<1> QED BY <1>6, <1>7 DEF h, root, b

\* A chain is valid if every block but the first is linked to the one before.
LEMMA ValidIs ==
  ASSUME NEW c, IsChain(c)
  PROVE  Valid(c) <=>
           /\ c[1].hash = <<>>
           /\ \A i \in 1..Len(c) : Len(c[i].hash) = i - 1
           /\ \A i \in 2..Len(c) : c[i].prev = c[i - 1].hash
           /\ c[1].root = AddLeaf(<<>>, LeafHash(c[1].tx), 0)
           /\ \A i \in 2..Len(c) : c[i].root = AddLeaf(c[i - 1].root, LeafHash(c[i].tx), i - 1)
BY ChainFields DEF Valid

\* What the first m blocks say of devices and epochs depends on their transactions.
LEMMA SameTxs ==
  ASSUME NEW c, NEW k, NEW m \in Int, \A j \in 1..m : k[j].tx = c[j].tx
  PROVE  /\ \A d : EnrolledBy(c, m, d) <=> EnrolledBy(k, m, d)
         /\ \A e : EpochAt(c, m, e) <=> EpochAt(k, m, e)
<1>1. \A d : EnrolledBy(c, m, d) <=> EnrolledBy(k, m, d)
  BY DEF EnrolledBy
<1>2. \A e : EpochAt(c, m, e) <=> EpochAt(k, m, e)
  BY DEF EpochAt
<1> QED BY <1>1, <1>2

\* One block more: x is on the chain, and the keys grow by its device at most.
LEMMA KeysGrow ==
  ASSUME NEW c, IsChain(c), Len(c) > 0, NEW k, Len(k) = Len(c) + 1,
         \A i \in 1..Len(c) : k[i] = c[i], NEW S, KeysFromChain(c, S), NEW T,
         \A d \in T : \/ d \in S
                      \/ k[Len(c) + 1].tx \in Enrolments /\ d = Enrols[k[Len(c) + 1].tx]
  PROVE  KeysFromChain(k, T)
<1>1. Len(c) \in Nat /\ Len(c) + 1 \in 1..Len(k) /\ \A i \in 1..Len(c) : i \in 1..Len(k)
  BY ChainFields
<1>2. k[1] = c[1]
  BY <1>1
<1> SUFFICES ASSUME ~ k[1].wrapped, NEW d \in T PROVE EnrolledBy(k, Len(k), d)
  BY DEF KeysFromChain
<1>3. CASE d \in S
  <2>1. EnrolledBy(c, Len(c), d)
    BY <1>2, <1>3 DEF KeysFromChain
  <2> QED BY <1>1, <2>1 DEF EnrolledBy
<1>4. CASE d \notin S
  BY <1>1, <1>4 DEF EnrolledBy
<1> QED BY <1>3, <1>4

\* A node that never replaced its chain writes every block: the device of an
\* enrolment would be on the chain through the same enrolment.
LEMMA AcceptSaves ==
  ASSUME Inductive, NEW v \in Nodes, NEW x \in Txs, Admissible(v, x)
  PROVE  Saves(v, x) \/ (chain[v][1].wrapped /\ x \in Enrolments)
<1> DEFINE c == chain[v]
<1> SUFFICES ASSUME ~ Saves(v, x) PROVE c[1].wrapped
  BY DEF Saves
<1>1. x \in Enrolments /\ Enrols[x] \in members[v] /\ x \notin txIDs[v]
  BY DEF Saves, Admissible
<1>2. /\ IsChain(c) /\ Len(c) > 0 /\ WrappedFirst(c) /\ Known(c, txIDs[v], noteIDs[v])
      /\ KeysFromChain(c, members[v])
  BY DEF Inductive, Chains, Consistent, ChainOK
<1> HIDE DEF c
<1> SUFFICES ASSUME ~ c[1].wrapped PROVE FALSE
  BY DEF c
<1>3. PICK j \in 1..Len(c) : c[j].tx \in Enrolments /\ Enrols[c[j].tx] = Enrols[x]
  BY <1>1, <1>2 DEF KeysFromChain, EnrolledBy
<1>4. c[j].tx = x
  BY <1>1, <1>3, PeerAssumption DEF PeerAssumption
<1>5. ~ c[j].wrapped
  <2>1. 1 \in 1..j
    BY <1>2
  <2> QED BY <1>2, <2>1 DEF WrappedFirst
<1> QED BY <1>1, <1>2, <1>4, <1>5 DEF Known

\* What is to show of a node's ledger after a step.
LEMMA ConsistentPrime ==
  ASSUME NEW v \in Nodes,
         ChainOK(chain'[v]), Known(chain'[v], txIDs'[v], noteIDs'[v]),
         KeysFromChain(chain'[v], admitted'[v]), KeysFromChain(chain'[v], authorized'[v]),
         KeysFromChain(chain'[v], members'[v]), EpochFromChain(chain'[v], keyEpoch'[v])
  PROVE  Consistent(v)'
BY DEF Consistent, ChainOK, Valid, WrappedFirst, Once, Known, Rows, Writers, Epochs,
  KeysFromChain, EpochFromChain, EnrolledBy, EpochAt

\* What tryAccept appends keeps the chain and the tables consistent.
LEMMA AcceptConsistent ==
  ASSUME Inductive, NEW v \in Nodes, NEW x \in Txs, Accept(v, x)
  PROVE  /\ IsChain(chain'[v]) /\ Len(chain'[v]) = Len(chain[v]) + 1
         /\ \A i \in 1..Len(chain[v]) : chain'[v][i] = chain[v][i]
         /\ Consistent(v)'
<1> DEFINE c == chain[v]
           n == Len(c)
           b == NewBlock(v, x)
           k == chain'[v]
<1>1. /\ Consistent(v) /\ IsChain(c) /\ n > 0 /\ n \in Nat
      /\ LedgerTables
  BY ChainFields DEF Inductive, Chains
<1>2. /\ k = Append(c, b) /\ txIDs'[v] = txIDs[v] \cup {x}
      /\ noteIDs'[v] = noteIDs[v] \cup ({x} \cap Creates)
      /\ admitted'[v] = IF x \in Enrolments THEN admitted[v] \cup {Enrols[x]} ELSE admitted[v]
      /\ IF Saves(v, x) THEN Persist(v, x) ELSE UNCHANGED tables
  BY <1>1 DEF Accept, LedgerTables
<1>3. Admissible(v, x)
  BY DEF Accept
<1>20. Saves(v, x) \/ (c[1].wrapped /\ x \in Enrolments)
  BY <1>3, AcceptSaves
<1>21. /\ \A d \in authorized'[v] : d \in authorized[v] \/ (x \in Enrolments /\ d = Enrols[x])
       /\ \A d \in members'[v] : d \in members[v] \/ (x \in Enrolments /\ d = Enrols[x])
       /\ \A d \in admitted'[v] : d \in admitted[v] \/ (x \in Enrolments /\ d = Enrols[x])
  <2>1. CASE Saves(v, x)
    <3>1. /\ authorized'[v] = IF x \in Enrolments THEN authorized[v] \cup {Enrols[x]}
                              ELSE IF x \in Bundles THEN authorized[v] \ {Revokes[x]}
                              ELSE authorized[v]
          /\ members'[v] = IF x \in Enrolments THEN members[v] \cup {Enrols[x]} ELSE members[v]
      BY <1>1, <1>2, <2>1 DEF Persist, LedgerTables
    <3> QED BY <1>2, <3>1
  <2>2. CASE ~ Saves(v, x)
    <3>1. authorized' = authorized /\ members' = members
      BY <1>2, <2>2 DEF tables
    <3> QED BY <1>2, <3>1
  <2> QED BY <2>1, <2>2
<1>22. ~ c[1].wrapped => keyEpoch'[v] = IF x \in Bundles THEN Epoch[x] ELSE keyEpoch[v]
  <2> SUFFICES ASSUME ~ c[1].wrapped
               PROVE  keyEpoch'[v] = IF x \in Bundles THEN Epoch[x] ELSE keyEpoch[v]
    OBVIOUS
  <2>1. Persist(v, x)
    BY <1>2, <1>20
  <2> QED BY <1>1, <2>1 DEF Persist, LedgerTables
<1>4. /\ IsChain(<<b>>) /\ b.prev = c[n].hash /\ Len(b.hash) = Len(c[n].hash) + 1
      /\ b.tx = x /\ ~ b.wrapped /\ b.root = AddLeaf(c[n].root, LeafHash(x), n)
      /\ b.saved = Saves(v, x)
  BY <1>1, NewBlockFields
<1>5. /\ IsChain(k) /\ Len(k) = n + 1 /\ k[n + 1] = b /\ \A i \in 1..n : k[i] = c[i]
  BY <1>1, <1>2, <1>4, AppendChain
<1> HIDE DEF k, b
<1>6. k[1] = c[1] /\ \A i \in 1..Len(k) : i \in 1..n \/ i = n + 1
  BY <1>1, <1>5
<1>7. /\ Valid(c) /\ WrappedFirst(c) /\ Once(c) /\ Known(c, txIDs[v], noteIDs[v])
      /\ KeysFromChain(c, admitted[v]) /\ KeysFromChain(c, authorized[v])
      /\ KeysFromChain(c, members[v]) /\ EpochFromChain(c, keyEpoch[v])
      /\ Rows(c) /\ Writers(c) /\ Epochs(c)
  BY <1>1 DEF Consistent, ChainOK
<1>8. Valid(k)
  <2>0. /\ \A i \in 1..n : Len(c[i].hash) = i - 1
        /\ \A i \in 2..n : c[i].prev = c[i - 1].hash
    BY <1>1, <1>7, ValidIs
  <2>1. \A i \in 1..Len(k) : Len(k[i].hash) = i - 1
    <3>1. n \in 1..n /\ Len(c[n].hash) = n - 1
      BY <1>1, <2>0
    <3>2. Len(b.hash) = n
      BY <1>1, <1>4, <3>1
    <3>3. \A i \in 1..n : Len(k[i].hash) = i - 1
      BY <1>5, <2>0
    <3>4. Len(k[n + 1].hash) = (n + 1) - 1
      BY <1>1, <1>5, <3>2
    <3> QED BY <1>6, <3>3, <3>4
  <2>2. \A i \in 2..Len(k) : k[i].prev = k[i - 1].hash
    <3> SUFFICES ASSUME NEW i \in 2..Len(k) PROVE k[i].prev = k[i - 1].hash
      OBVIOUS
    <3>1. CASE i = n + 1
      <4>1. k[i] = b /\ k[i - 1] = c[n]
        BY <1>1, <1>5, <3>1
      <4> QED BY <1>4, <4>1
    <3>2. CASE i # n + 1
      <4>1. i \in 2..n /\ k[i] = c[i] /\ k[i - 1] = c[i - 1]
        BY <1>1, <1>5, <3>2
      <4> QED BY <2>0, <4>1
    <3> QED BY <3>1, <3>2
  <2>3. \A i \in 2..Len(k) : k[i].root = AddLeaf(k[i - 1].root, LeafHash(k[i].tx), i - 1)
    <3> SUFFICES ASSUME NEW i \in 2..Len(k)
                 PROVE  k[i].root = AddLeaf(k[i - 1].root, LeafHash(k[i].tx), i - 1)
      OBVIOUS
    <3>1. CASE i = n + 1
      <4>1. k[i] = b /\ k[i - 1] = c[n] /\ i - 1 = n
        BY <1>1, <1>5, <3>1
      <4> QED BY <1>4, <4>1
    <3>2. CASE i # n + 1
      <4>1. i \in 2..n /\ k[i] = c[i] /\ k[i - 1] = c[i - 1]
        BY <1>1, <1>5, <3>2
      <4> QED BY <1>1, <1>7, <4>1, ValidIs
    <3> QED BY <3>1, <3>2
  <2> QED BY <1>1, <1>5, <1>6, <1>7, <2>1, <2>2, <2>3, ValidIs
<1>9. WrappedFirst(k)
  <2> SUFFICES ASSUME NEW i \in 1..Len(k), k[i].wrapped, NEW j \in 1..i PROVE k[j].wrapped
    BY DEF WrappedFirst
  <2>1. i \in 1..n /\ k[i] = c[i]
    BY <1>4, <1>5, <1>6
  <2>2. j \in 1..n /\ k[j] = c[j]
    BY <1>1, <1>5, <2>1
  <2> QED BY <1>7, <2>1, <2>2 DEF WrappedFirst
<1>10. Once(k)
  <2> SUFFICES ASSUME NEW j \in 1..Len(k), NEW i \in 1..(j - 1), k[i].tx = k[j].tx
               PROVE  k[j].tx \notin Creates /\ k[i].wrapped
    BY DEF Once
  <2>1. CASE j \in 1..n
    BY <1>1, <1>5, <1>7, <2>1 DEF Once
  <2>2. CASE j = n + 1
    <3>1. i \in 1..n /\ c[i].tx = x /\ k[i] = c[i] /\ k[j].tx = x
      BY <1>1, <1>4, <1>5, <2>2
    <3>2. c[i].wrapped \in BOOLEAN
      BY <1>1, <3>1, ChainFields
    <3>3. x \notin txIDs[v] /\ x \notin noteIDs[v]
      BY <1>3 DEF Admissible
    <3> QED BY <1>7, <3>1, <3>2, <3>3 DEF Known
  <2> QED BY <1>6, <2>1, <2>2
<1>11. Known(k, txIDs'[v], noteIDs'[v])
  BY <1>2, <1>4, <1>5, <1>6, <1>7 DEF Known
<1>12. /\ KeysFromChain(k, admitted'[v]) /\ KeysFromChain(k, authorized'[v])
       /\ KeysFromChain(k, members'[v])
  <2>1. k[n + 1].tx = x
    BY <1>4, <1>5
  <2>2. ASSUME NEW S, KeysFromChain(c, S), NEW T,
               \A d \in T : d \in S \/ (x \in Enrolments /\ d = Enrols[x])
        PROVE  KeysFromChain(k, T)
    BY <1>1, <1>5, <2>1, <2>2, KeysGrow
  <2> QED BY <1>7, <1>21, <2>2
<1>13. Rows(k)
  <2>1. ASSUME NEW i \in 1..Len(k)
        PROVE  /\ k[i].wrapped => k[i].saved
               /\ ~ k[i].saved => k[1].wrapped /\ k[i].tx \in Enrolments
    <3>1. CASE i \in 1..n
      BY <1>5, <1>6, <1>7, <3>1 DEF Rows
    <3>2. CASE i = n + 1
      BY <1>4, <1>5, <1>6, <1>20, <3>2
    <3> QED BY <1>6, <3>1, <3>2
  <2> QED BY <2>1 DEF Rows
<1>14. ASSUME NEW m \in 0..n
       PROVE  /\ \A d : EnrolledBy(c, m, d) <=> EnrolledBy(k, m, d)
              /\ \A e : EpochAt(c, m, e) <=> EpochAt(k, m, e)
  <2>1. m \in Int /\ \A j \in 1..m : k[j].tx = c[j].tx
    BY <1>1, <1>5
  <2> QED BY <2>1, SameTxs
<1>15. Writers(k)
  <2> SUFFICES ASSUME NEW i \in 1..Len(k), k[i].tx \in Creates
               PROVE  \/ Author[k[i].tx] = Owner
                      \/ EnrolledBy(k, i - 1, Author[k[i].tx])
                      \/ k[1].wrapped /\ ~ k[i].wrapped
    BY DEF Writers
  <2>1. CASE i \in 1..n
    <3>1. k[i] = c[i] /\ i - 1 \in 0..n
      BY <1>1, <1>5, <2>1
    <3>2. \A d : EnrolledBy(c, i - 1, d) <=> EnrolledBy(k, i - 1, d)
      BY <1>14, <3>1
    <3> QED BY <1>6, <1>7, <2>1, <3>1, <3>2 DEF Writers
  <2>2. CASE i = n + 1
    <3>1. k[i].tx = x /\ ~ k[i].wrapped /\ i - 1 = n /\ n \in 0..n
      BY <1>1, <1>4, <1>5, <2>2
    <3>2. Author[x] = Owner \/ Author[x] \in admitted[v]
      BY <1>3 DEF Admissible
    <3>3. k[1].wrapped \in BOOLEAN
      BY <1>1, <1>5, ChainFields
    <3>4. ~ c[1].wrapped /\ Author[x] \in admitted[v] => EnrolledBy(k, n, Author[x])
      BY <1>7, <1>14, <3>1 DEF KeysFromChain
    <3> QED BY <1>6, <3>1, <3>2, <3>3, <3>4
  <2> QED BY <1>6, <2>1, <2>2
<1>16. Epochs(k)
  <2> SUFFICES ASSUME NEW i \in 1..Len(k), k[i].tx \in Creates
               PROVE  \/ EpochAt(k, i - 1, Epoch[k[i].tx])
                      \/ k[1].wrapped /\ ~ k[i].wrapped
    BY DEF Epochs
  <2>1. CASE i \in 1..n
    <3>1. k[i] = c[i] /\ i - 1 \in 0..n
      BY <1>1, <1>5, <2>1
    <3>2. \A e : EpochAt(c, i - 1, e) <=> EpochAt(k, i - 1, e)
      BY <1>14, <3>1
    <3> QED BY <1>6, <1>7, <2>1, <3>1, <3>2 DEF Epochs
  <2>2. CASE i = n + 1
    <3>1. k[i].tx = x /\ ~ k[i].wrapped /\ i - 1 = n /\ n \in 0..n
      BY <1>1, <1>4, <1>5, <2>2
    <3>2. Epoch[x] = keyEpoch[v]
      BY <1>3, <3>1 DEF Admissible, EpochFits
    <3>3. k[1].wrapped \in BOOLEAN
      BY <1>1, <1>5, ChainFields
    <3>4. ~ c[1].wrapped => EpochAt(k, n, Epoch[x])
      BY <1>7, <1>14, <3>1, <3>2 DEF EpochFromChain
    <3> QED BY <1>6, <3>1, <3>3, <3>4
  <2> QED BY <1>6, <2>1, <2>2
<1>17. EpochFromChain(k, keyEpoch'[v])
  <2> SUFFICES ASSUME ~ k[1].wrapped PROVE EpochAt(k, n + 1, keyEpoch'[v])
    BY <1>5 DEF EpochFromChain
  <2>1. /\ EpochAt(c, n, keyEpoch[v]) /\ keyEpoch[v] \in Nat
        /\ keyEpoch'[v] = IF x \in Bundles THEN Epoch[x] ELSE keyEpoch[v]
    BY <1>1, <1>6, <1>7, <1>22 DEF EpochFromChain, LedgerTables
  <2>2. EpochAt(k, n, keyEpoch[v])
    <3>1. n \in 0..n
      BY <1>1
    <3> QED BY <1>14, <2>1, <3>1
  <2>3. k[n + 1].tx = x /\ \A j \in 1..(n + 1) : j \in 1..n \/ j = n + 1
    BY <1>1, <1>4, <1>5
  <2>4. n + 1 \in 1..(n + 1) /\ \A j \in 1..n : j \in 1..(n + 1)
    BY <1>1
  <2>5. CASE x \in Bundles
    <3>1. Epoch[x] > keyEpoch[v] /\ Epoch[x] \in Nat
      BY <1>3, <2>5, PeerAssumption DEF Admissible, EpochFits, PeerAssumption
    <3>2. \A j \in 1..n : k[j].tx \in Bundles => Epoch[k[j].tx] \in Nat
      BY PeerAssumption DEF PeerAssumption
    <3>3. \A j \in 1..n : k[j].tx \in Bundles => Epoch[k[j].tx] <= Epoch[x]
      BY <2>1, <2>2, <3>1, <3>2 DEF EpochAt
    <3>4. \A j \in 1..(n + 1) : k[j].tx \in Bundles => Epoch[k[j].tx] <= Epoch[x]
      BY <2>3, <3>1, <3>3
    <3>5. \E j \in 1..(n + 1) : k[j].tx \in Bundles /\ Epoch[k[j].tx] = Epoch[x]
      BY <2>3, <2>4, <2>5
    <3> QED BY <2>1, <2>5, <3>4, <3>5 DEF EpochAt
  <2>6. CASE x \notin Bundles
    BY <2>1, <2>2, <2>3, <2>4, <2>6 DEF EpochAt
  <2> QED BY <2>5, <2>6
<1>18. ChainOK(k)
  BY <1>8, <1>9, <1>10, <1>13, <1>15, <1>16 DEF ChainOK
<1>19. Consistent(v)'
  BY <1>11, <1>12, <1>17, <1>18, ConsistentPrime DEF k
<1> QED BY <1>5, <1>19 DEF k

-----------------------------------------------------------------------------
(***************************************************************************)
(* A node that fetches.                                                    *)
(***************************************************************************)

\* A page that the peer serves continues what was fetched, and all of it is the
\* peer's chain as it is now.
LEMMA PageFacts ==
  ASSUME Inductive, NEW v \in Nodes, mode[v] = "fetching", Served(v)
  PROVE  LET c == chain[peer[v]]
             f == fetched[v] \o Page(v)
         IN /\ peer[v] \in Nodes \ {v}
            /\ IsChain(f) /\ Len(fetched[v]) < Len(f) /\ Len(f) <= Len(c)
            /\ \A i \in 1..Len(f) : f[i] = c[i] /\ ~ c[i].wrapped
            /\ ~ LastPage(v) => Len(f) < Len(c)
            /\ LastPage(v) => f = c
<1> DEFINE w == peer[v]
           c == chain[w]
           g == fetched[v]
           from == Len(g)
           to == IF from + PageLimit < Len(c) THEN from + PageLimit ELSE Len(c)
           f == g \o Page(v)
<1>1. w \in Nodes \ {v} /\ IsChain(c) /\ IsChain(g) /\ from < Len(c)
  <2>1. w \in Nodes /\ from < Len(c)
    BY DEF Inductive, Ahead
  <2>2. w # v
    BY DEF Served
  <2> QED BY <2>1, <2>2 DEF Inductive, Chains
<1>2. \/ \A i \in 1..from : g[i] = c[i] /\ ~ c[i].wrapped
      \/ c[from + 1].wrapped
  BY DEF Inductive, Ahead
<1>3. Len(c) \in Nat /\ from \in Nat /\ PageLimit \in Nat \ {0}
  BY <1>1, ChainFields, PeerAssumption DEF PeerAssumption
<1>4. to \in Nat /\ from < to /\ to <= Len(c)
  BY <1>1, <1>3
<1>5. Page(v) = SubSeq(c, from + 1, to)
  BY DEF Page
<1> HIDE DEF c, g, from, to
<1>6. /\ IsChain(Page(v)) /\ Len(Page(v)) = to - from
      /\ \A i \in 1..(to - from) : Page(v)[i] = c[from + i]
  BY <1>1, <1>3, <1>4, <1>5, PartOfChain
<1>7. \A i \in 1..(to - from) : ~ c[from + i].wrapped
  <2>1. \A i \in DOMAIN Page(v) : ~ Page(v)[i].wrapped
    BY DEF Served
  <2>2. DOMAIN Page(v) = 1..(to - from)
    BY <1>6, ChainFields
  <2> QED BY <1>6, <2>1, <2>2
<1>8. \A i \in 1..from : g[i] = c[i] /\ ~ c[i].wrapped
  <2>1. 1 \in 1..(to - from)
    BY <1>3, <1>4
  <2>2. ~ c[from + 1].wrapped
    BY <1>7, <2>1
  <2> QED BY <1>2, <2>2
<1>9. /\ IsChain(f) /\ Len(f) = to
      /\ \A i \in 1..from : f[i] = g[i]
      /\ \A i \in 1..(to - from) : f[from + i] = Page(v)[i]
  <2>1. from + (to - from) = to
    BY <1>3, <1>4
  <2>2. /\ IsChain(f) /\ Len(f) = Len(g) + Len(Page(v))
        /\ \A i \in 1..Len(g) : f[i] = g[i]
        /\ \A i \in 1..Len(Page(v)) : f[Len(g) + i] = Page(v)[i]
    <3>1. IsChain(g) /\ IsChain(Page(v))
      BY <1>1, <1>6
    <3> HIDE DEF g
    <3> QED BY <3>1, ConcatChain
  <2>3. from = Len(g)
    BY DEF from
  <2> HIDE DEF f
  <2> QED BY <1>6, <2>1, <2>2, <2>3
<1> HIDE DEF f
<1>10. \A i \in 1..to : f[i] = c[i] /\ ~ c[i].wrapped
  <2> SUFFICES ASSUME NEW i \in 1..to PROVE f[i] = c[i] /\ ~ c[i].wrapped
    OBVIOUS
  <2>1. CASE i <= from
    <3>1. i \in 1..from
      BY <1>3, <1>4, <2>1
    <3> QED BY <1>8, <1>9, <3>1
  <2>2. CASE ~ (i <= from)
    <3>1. i - from \in 1..(to - from) /\ from + (i - from) = i
      BY <1>3, <1>4, <2>2
    <3> QED BY <1>6, <1>7, <1>9, <3>1
  <2> QED BY <2>1, <2>2
<1>11. ~ LastPage(v) => to < Len(c)
  BY <1>3 DEF LastPage, to, from, g, c
<1>12. LastPage(v) => to = Len(c)
  BY <1>3 DEF LastPage, to, from, g, c
<1>13. LastPage(v) => f = c
  BY <1>1, <1>9, <1>10, <1>12, SameChain
<1>14. /\ w \in Nodes \ {v} /\ IsChain(f) /\ from < Len(f) /\ Len(f) <= Len(c)
       /\ \A i \in 1..Len(f) : f[i] = c[i] /\ ~ c[i].wrapped
       /\ ~ LastPage(v) => Len(f) < Len(c)
       /\ LastPage(v) => f = c
  BY <1>1, <1>4, <1>9, <1>10, <1>11, <1>13
<1> QED BY <1>14 DEF from, g, c, f

-----------------------------------------------------------------------------
(***************************************************************************)
(* A ledger that is built from rows, after a start or a replacement.       *)
(***************************************************************************)
LEMMA Rebuilt ==
  ASSUME LedgerTables, NEW v \in Nodes, NEW c, IsChain(c), RebuildStream(v, c)
  PROVE  /\ chain'[v] = c /\ txIDs'[v] = IDsOn(c) /\ noteIDs'[v] = NotesOn(c)
         /\ admitted'[v] = authorized[v]
         /\ keyEpoch' = keyEpoch /\ members' = members /\ authorized' = authorized
         /\ \A u \in Nodes \ {v} : /\ chain'[u] = chain[u] /\ txIDs'[u] = txIDs[u]
                                    /\ noteIDs'[u] = noteIDs[u] /\ admitted'[u] = admitted[u]
         /\ LedgerTables'
<1>1. /\ chain' = [chain EXCEPT ![v] = c] /\ txIDs' = [txIDs EXCEPT ![v] = IDsOn(c)]
      /\ count' = [count EXCEPT ![v] = IDRows(c)] /\ noteIDs' = [noteIDs EXCEPT ![v] = NotesOn(c)]
      /\ admitted' = [admitted EXCEPT ![v] = authorized[v]]
      /\ keyEpoch' = keyEpoch /\ members' = members /\ authorized' = authorized
  BY DEF RebuildStream, tables
<1>2. IDRows(c) \in Nat
  <2> DEFINE S == {i \in DOMAIN c : i > 1 \/ c[i].wrapped}
  <2>1. DOMAIN c = 1..Len(c) /\ Len(c) \in Nat
    BY ChainFields
  <2>2. IsFiniteSet(1..Len(c))
    BY <2>1, FS_Interval
  <2>3. IsFiniteSet(S)
    BY <2>1, <2>2, FS_Subset
  <2> QED BY <2>3, FS_CardinalityType DEF IDRows
<1>3. IDsOn(c) \subseteq Txs /\ NotesOn(c) \subseteq Creates
  BY DEF IDsOn, NotesOn
<1>4. /\ chain' = [u \in Nodes |-> chain'[u]] /\ admitted' = [u \in Nodes |-> admitted'[u]]
      /\ authorized' = [u \in Nodes |-> authorized'[u]] /\ members' = [u \in Nodes |-> members'[u]]
  BY <1>1 DEF LedgerTables
<1>5. txIDs' \in [Nodes -> SUBSET Txs] /\ noteIDs' \in [Nodes -> SUBSET Creates]
  BY <1>1, <1>3 DEF LedgerTables
<1>6. count' \in [Nodes -> Nat] /\ keyEpoch' \in [Nodes -> Nat]
  BY <1>1, <1>2 DEF LedgerTables
<1>7. LedgerTables'
  BY <1>4, <1>5, <1>6 DEF LedgerTables
<1>8. /\ chain'[v] = c /\ txIDs'[v] = IDsOn(c) /\ noteIDs'[v] = NotesOn(c)
      /\ admitted'[v] = authorized[v]
      /\ \A u \in Nodes \ {v} : /\ chain'[u] = chain[u] /\ txIDs'[u] = txIDs[u]
                                 /\ noteIDs'[u] = noteIDs[u] /\ admitted'[u] = admitted[u]
  BY <1>1 DEF LedgerTables
<1> QED BY <1>1, <1>7, <1>8

\* The rows behind a chain know what is on it.
LEMMA RowsKnow ==
  ASSUME NEW c, IsChain(c)
  PROVE  Known(c, IDsOn(c), NotesOn(c))
<1>1. DOMAIN c = 1..Len(c)
  BY ChainFields
<1> QED BY <1>1 DEF Known, IDsOn, NotesOn

\* What a start leaves of a chain: what is saved, so all of it on a node that never
\* replaced its chain, and the rows of a replacement otherwise.
Cut(c, k) ==
  /\ Len(k) \in 1..Len(c) /\ \A i \in 1..Len(k) : k[i] = c[i]
  /\ \A i \in 1..Len(c) : c[i].wrapped => i <= Len(k)
  /\ ~ c[1].wrapped => k = c

LEMMA RestartConsistent ==
  ASSUME Inductive, NEW v \in Nodes, Restart(v)
  PROVE  /\ IsChain(chain'[v]) /\ Cut(chain[v], chain'[v]) /\ Consistent(v)'
         /\ LedgerTables'
         /\ \A u \in Nodes \ {v} : /\ chain'[u] = chain[u] /\ txIDs'[u] = txIDs[u]
                                    /\ noteIDs'[u] = noteIDs[u] /\ admitted'[u] = admitted[u]
         /\ keyEpoch' = keyEpoch /\ members' = members /\ authorized' = authorized
<1> DEFINE c == chain[v]
<1>1. /\ IsChain(c) /\ Len(c) > 0 /\ Len(c) \in Nat /\ DOMAIN c = 1..Len(c)
      /\ LedgerTables /\ Consistent(v)
  BY ChainFields DEF Inductive, Chains
<1>2. PICK m \in 1..Len(c) : /\ \A i \in 1..Len(c) : c[i].saved <=> i <= m
                             /\ RebuildStream(v, SubSeq(c, 1, m))
  BY <1>1 DEF Restart
<1> DEFINE k == SubSeq(c, 1, m)
<1>3. IsChain(k) /\ Len(k) = m /\ \A i \in 1..m : k[i] = c[i]
  <2> DEFINE z == 0
             q == SubSeq(c, z + 1, m)
  <2>1. z \in Nat /\ m \in Nat /\ z <= m /\ m <= Len(c) /\ m - z = m
    BY <1>1
  <2>2. k = q
    OBVIOUS
  <2> HIDE DEF z, k, c
  <2>3. IsChain(q) /\ Len(q) = m - z /\ \A i \in 1..(m - z) : q[i] = c[z + i]
    BY <1>1, <2>1, PartOfChain DEF c
  <2> QED BY <2>1, <2>2, <2>3 DEF z
<1>4. /\ chain'[v] = k /\ txIDs'[v] = IDsOn(k) /\ noteIDs'[v] = NotesOn(k)
      /\ admitted'[v] = authorized[v]
      /\ keyEpoch' = keyEpoch /\ members' = members /\ authorized' = authorized
      /\ \A u \in Nodes \ {v} : /\ chain'[u] = chain[u] /\ txIDs'[u] = txIDs[u]
                                 /\ noteIDs'[u] = noteIDs[u] /\ admitted'[u] = admitted[u]
      /\ LedgerTables'
  BY <1>1, <1>2, <1>3, Rebuilt
<1>5. /\ ChainOK(c) /\ KeysFromChain(c, authorized[v])
      /\ KeysFromChain(c, members[v]) /\ EpochFromChain(c, keyEpoch[v])
      /\ Valid(c) /\ WrappedFirst(c) /\ Once(c) /\ Rows(c) /\ Writers(c) /\ Epochs(c)
  BY <1>1 DEF Consistent, ChainOK
<1> HIDE DEF k, c
<1>6. Cut(c, k)
  <2>1. \A i \in 1..Len(c) : c[i].wrapped => i <= m
    BY <1>2, <1>5 DEF Rows
  <2>2. ASSUME ~ c[1].wrapped PROVE k = c
    <3>1. \A i \in 1..Len(c) : c[i].saved
      BY <1>1, <1>5, <2>2, ChainFields DEF Rows
    <3>2. m = Len(c)
      <4>1. Len(c) \in 1..Len(c)
        BY <1>1
      <4>2. Len(c) <= m
        BY <1>2, <3>1, <4>1
      <4> QED BY <4>2
    <3> QED BY <1>1, <1>3, <3>2, SameChain
  <2> QED BY <1>3, <2>1, <2>2 DEF Cut
<1>7. k[1] = c[1] /\ \A i \in 1..m : i \in 1..Len(c)
  BY <1>1, <1>3
<1>8. Valid(k)
  <2>1. /\ c[1].hash = <<>> /\ \A i \in 1..Len(c) : Len(c[i].hash) = i - 1
        /\ \A i \in 2..Len(c) : c[i].prev = c[i - 1].hash
        /\ c[1].root = AddLeaf(<<>>, LeafHash(c[1].tx), 0)
        /\ \A i \in 2..Len(c) : c[i].root = AddLeaf(c[i - 1].root, LeafHash(c[i].tx), i - 1)
    BY <1>1, <1>5, ValidIs
  <2>2. \A i \in 2..m : i \in 2..Len(c) /\ k[i] = c[i] /\ k[i - 1] = c[i - 1]
    <3>1. \A i \in 2..m : i \in 1..m /\ i - 1 \in 1..m /\ i \in 2..Len(c)
      BY <1>1
    <3> QED BY <1>3, <3>1
  <2>3. /\ k[1].hash = <<>> /\ \A i \in 1..m : Len(k[i].hash) = i - 1
        /\ \A i \in 2..m : k[i].prev = k[i - 1].hash
        /\ k[1].root = AddLeaf(<<>>, LeafHash(k[1].tx), 0)
        /\ \A i \in 2..m : k[i].root = AddLeaf(k[i - 1].root, LeafHash(k[i].tx), i - 1)
    BY <1>3, <1>7, <2>1, <2>2
  <2> QED BY <1>3, <2>3, ValidIs
<1>9. WrappedFirst(k) /\ Once(k) /\ Rows(k)
  <2>1. \A j \in 1..m : \A i \in 1..j : i \in 1..m
    OBVIOUS
  <2>2. \A j \in 1..m : \A i \in 1..(j - 1) : i \in 1..m
    OBVIOUS
  <2>3. WrappedFirst(k)
    BY <1>3, <1>5, <1>7, <2>1 DEF WrappedFirst
  <2>4. Once(k)
    BY <1>3, <1>5, <1>7, <2>2 DEF Once
  <2>5. Rows(k)
    BY <1>3, <1>5, <1>7 DEF Rows
  <2> QED BY <2>3, <2>4, <2>5
<1>10. ASSUME NEW i \in 1..m
       PROVE  /\ \A d : EnrolledBy(c, i - 1, d) <=> EnrolledBy(k, i - 1, d)
              /\ \A e : EpochAt(c, i - 1, e) <=> EpochAt(k, i - 1, e)
  <2>1. i - 1 \in Int /\ \A j \in 1..(i - 1) : k[j].tx = c[j].tx
    BY <1>3
  <2> QED BY <2>1, SameTxs
<1>11. Writers(k)
  BY <1>3, <1>5, <1>7, <1>10 DEF Writers
<1>12. Epochs(k)
  BY <1>3, <1>5, <1>7, <1>10 DEF Epochs
<1>13. ChainOK(k)
  BY <1>8, <1>9, <1>11, <1>12 DEF ChainOK
<1>14. Known(k, IDsOn(k), NotesOn(k))
  BY <1>3, RowsKnow
<1>15. /\ KeysFromChain(k, authorized[v]) /\ KeysFromChain(k, members[v])
       /\ EpochFromChain(k, keyEpoch[v])
  <2>1. CASE c[1].wrapped
    BY <1>7, <2>1 DEF KeysFromChain, EpochFromChain
  <2>2. CASE ~ c[1].wrapped
    BY <1>5, <1>6, <2>2 DEF Cut
  <2> QED BY <2>1, <2>2
<1>16. Consistent(v)'
  BY <1>4, <1>13, <1>14, <1>15, ConsistentPrime
<1> QED BY <1>3, <1>4, <1>6, <1>16 DEF c

\* The last page makes the chain of the peer, which was valid and none of whose
\* rows is wrapped; if it is heavier it becomes this node's.
LEMMA AdoptConsistent ==
  ASSUME Inductive, NEW v \in Nodes, mode[v] = "fetching", Served(v), LastPage(v),
         Heavier(chain[peer[v]], chain[v]), ReplaceChain(v, chain[peer[v]])
  PROVE  /\ peer[v] \in Nodes \ {v}
         /\ chain'[v] = Wrapped(chain[peer[v]])
         /\ IsChain(chain'[v]) /\ Len(chain'[v]) = Len(chain[peer[v]])
         /\ Len(chain[v]) < Len(chain'[v])
         /\ \A i \in 1..Len(chain'[v]) : chain'[v][i].wrapped
         /\ Consistent(v)' /\ LedgerTables'
         /\ \A u \in Nodes \ {v} : /\ chain'[u] = chain[u] /\ txIDs'[u] = txIDs[u]
                                    /\ noteIDs'[u] = noteIDs[u] /\ admitted'[u] = admitted[u]
         /\ keyEpoch' = keyEpoch /\ members' = members /\ authorized' = authorized
<1> DEFINE w == peer[v]
           c == chain[w]
           k == Wrapped(c)
           n == Len(c)
<1>1. w \in Nodes \ {v} /\ IsChain(c) /\ \A i \in 1..n : ~ c[i].wrapped
  <2>1. fetched[v] \o Page(v) = c
    BY PageFacts
  <2> QED BY <2>1, PageFacts DEF Inductive, Chains
<1>2. Consistent(w) /\ LedgerTables /\ n > 0 /\ n \in Nat
  BY <1>1, ChainFields DEF Inductive, Chains
<1>4. /\ IsChain(k) /\ Len(k) = n
      /\ \A i \in 1..n : /\ k[i].prev = c[i].prev /\ k[i].hash = c[i].hash
                         /\ k[i].tx = c[i].tx /\ k[i].root = c[i].root /\ k[i].wrapped
                         /\ k[i].saved = c[i].saved
  BY <1>1, WrappedChain
<1>3. /\ chain'[v] = k /\ txIDs'[v] = IDsOn(k) /\ noteIDs'[v] = NotesOn(k)
      /\ admitted'[v] = authorized[v]
      /\ keyEpoch' = keyEpoch /\ members' = members /\ authorized' = authorized
      /\ \A u \in Nodes \ {v} : /\ chain'[u] = chain[u] /\ txIDs'[u] = txIDs[u]
                                 /\ noteIDs'[u] = noteIDs[u] /\ admitted'[u] = admitted[u]
      /\ LedgerTables'
  <2>1. RebuildStream(v, k)
    BY DEF ReplaceChain
  <2> HIDE DEF k
  <2> QED BY <1>2, <1>4, <2>1, Rebuilt
<1>5. Valid(c) /\ Once(c) /\ Writers(c) /\ Epochs(c) /\ Rows(c)
  BY <1>2 DEF Consistent, ChainOK
<1>6. Len(chain[v]) < n
  BY DEF Heavier, Work
<1> HIDE DEF k, c, n
<1>7. 1 \in 1..n /\ n \in 1..n /\ \A i \in 2..n : i - 1 \in 1..n /\ i \in 1..n
  BY <1>2
<1>8. Valid(k)
  <2>1. /\ c[1].hash = <<>> /\ \A i \in 1..n : Len(c[i].hash) = i - 1
        /\ \A i \in 2..n : c[i].prev = c[i - 1].hash
        /\ c[1].root = AddLeaf(<<>>, LeafHash(c[1].tx), 0)
        /\ \A i \in 2..n : c[i].root = AddLeaf(c[i - 1].root, LeafHash(c[i].tx), i - 1)
    BY <1>1, <1>5, ValidIs DEF n
  <2>2. /\ k[1].hash = <<>> /\ \A i \in 1..n : Len(k[i].hash) = i - 1
        /\ \A i \in 2..n : k[i].prev = k[i - 1].hash
        /\ k[1].root = AddLeaf(<<>>, LeafHash(k[1].tx), 0)
        /\ \A i \in 2..n : k[i].root = AddLeaf(k[i - 1].root, LeafHash(k[i].tx), i - 1)
    BY <1>4, <1>7, <2>1
  <2> QED BY <1>4, <2>2, ValidIs
<1>9. WrappedFirst(k) /\ Rows(k)
  <2>1. \A i \in 1..n : \A j \in 1..i : j \in 1..n
    BY <1>2
  <2>2. \A i \in 1..n : k[i].saved
    <3>1. ~ c[1].wrapped /\ \A i \in 1..n : c[i].saved \in BOOLEAN
      BY <1>1, <1>7, ChainFields DEF n
    <3>2. \A i \in 1..n : c[i].saved
      BY <1>5, <3>1 DEF Rows, n
    <3> QED BY <1>4, <3>2
  <2>3. WrappedFirst(k)
    BY <1>4, <2>1 DEF WrappedFirst
  <2> QED BY <1>4, <2>2, <2>3 DEF Rows
<1>10. Once(k)
  <2> SUFFICES ASSUME NEW j \in 1..n, NEW i \in 1..(j - 1), k[i].tx = k[j].tx
               PROVE  k[j].tx \notin Creates /\ k[i].wrapped
    BY <1>4 DEF Once
  <2>1. i \in 1..n
    BY <1>2
  <2>2. c[i].tx = c[j].tx /\ ~ c[i].wrapped
    BY <1>1, <1>4, <2>1
  <2> QED BY <1>5, <2>2 DEF Once, n
<1>11. Known(k, IDsOn(k), NotesOn(k))
  BY <1>4, RowsKnow
<1>12. /\ \A S : KeysFromChain(k, S)
       /\ \A e : EpochFromChain(k, e)
  BY <1>4, <1>7 DEF KeysFromChain, EpochFromChain
<1>13. ASSUME NEW i \in 1..n
       PROVE  /\ \A d : EnrolledBy(c, i - 1, d) <=> EnrolledBy(k, i - 1, d)
              /\ \A e : EpochAt(c, i - 1, e) <=> EpochAt(k, i - 1, e)
  <2>1. i - 1 \in Int /\ \A j \in 1..(i - 1) : k[j].tx = c[j].tx
    <3>1. \A j \in 1..(i - 1) : j \in 1..n
      BY <1>2
    <3> QED BY <1>2, <1>4, <3>1
  <2> QED BY <2>1, SameTxs
<1>14. ~ c[1].wrapped
  BY <1>1, <1>7
<1>15. Writers(k)
  BY <1>4, <1>5, <1>13, <1>14 DEF Writers, n
<1>16. Epochs(k)
  BY <1>4, <1>5, <1>13, <1>14 DEF Epochs, n
<1>17. ChainOK(k)
  BY <1>8, <1>9, <1>10, <1>15, <1>16 DEF ChainOK
<1>18. Consistent(v)'
  BY <1>3, <1>11, <1>12, <1>17, ConsistentPrime
<1> QED BY <1>1, <1>3, <1>4, <1>6, <1>18 DEF k, c, n

-----------------------------------------------------------------------------
(***************************************************************************)
(* What a step of one node leaves to the others.                           *)
(***************************************************************************)

SameLedger(u) ==
  /\ chain'[u] = chain[u] /\ txIDs'[u] = txIDs[u] /\ noteIDs'[u] = noteIDs[u]
  /\ admitted'[u] = admitted[u] /\ authorized'[u] = authorized[u]
  /\ members'[u] = members[u] /\ keyEpoch'[u] = keyEpoch[u]

SameControl(u) == mode'[u] = mode[u] /\ peer'[u] = peer[u] /\ fetched'[u] = fetched[u]

\* A chain changes by one block more, is cut by a start, or changes altogether to a
\* longer and wrapped one.
ChainMoves(u) ==
  \/ chain'[u] = chain[u]
  \/ /\ Len(chain'[u]) = Len(chain[u]) + 1
     /\ \A i \in 1..Len(chain[u]) : chain'[u][i] = chain[u][i]
  \/ Cut(chain[u], chain'[u])
  \/ /\ Len(chain[u]) < Len(chain'[u])
     /\ \A i \in 1..Len(chain'[u]) : chain'[u][i].wrapped

LEMMA ConsistentFrame ==
  ASSUME NEW u \in Nodes, Consistent(u), SameLedger(u)
  PROVE  Consistent(u)'
BY ConsistentPrime DEF Consistent, SameLedger

\* A node that fetches stays ahead of its peer's changes.
LEMMA AheadFrame ==
  ASSUME Inductive, NEW u \in Nodes, SameControl(u),
         \A w \in Nodes : ChainMoves(w) /\ IsChain(chain'[w])
  PROVE  Ahead(u)'
<1>0. mode'[u] = mode[u] /\ peer'[u] = peer[u] /\ fetched'[u] = fetched[u]
  BY DEF SameControl
<1> SUFFICES ASSUME mode[u] = "fetching" PROVE Ahead(u)'
  BY <1>0 DEF Ahead
<1> DEFINE w == peer[u]
           c == chain[w]
           k == chain'[w]
           f == fetched[u]
<1>1. /\ w \in Nodes /\ Len(f) < Len(c)
      /\ \/ \A i \in 1..Len(f) : f[i] = c[i] /\ ~ c[i].wrapped
         \/ c[Len(f) + 1].wrapped
  BY DEF Inductive, Ahead
<1>2. Len(f) \in Nat /\ Len(c) \in Nat /\ Len(k) \in Nat
  BY <1>1, ChainFields DEF Inductive, Chains
<1>3. ChainMoves(w)
  BY <1>1
<1> HIDE DEF k, c, f
<1>4. /\ Len(f) < Len(k)
      /\ \/ \A i \in 1..Len(f) : f[i] = k[i] /\ ~ k[i].wrapped
         \/ k[Len(f) + 1].wrapped
  <2>1. CASE k = c
    BY <1>1, <2>1
  <2>2. CASE Len(k) = Len(c) + 1 /\ \A i \in 1..Len(c) : k[i] = c[i]
    <3>1. Len(f) + 1 \in 1..Len(c) /\ \A i \in 1..Len(f) : i \in 1..Len(c)
      BY <1>1, <1>2
    <3>2. Len(f) < Len(k)
      BY <1>1, <1>2, <2>2
    <3> QED BY <1>1, <2>2, <3>1, <3>2
  <2>3. CASE Len(c) < Len(k) /\ \A i \in 1..Len(k) : k[i].wrapped
    <3>1. Len(f) + 1 \in 1..Len(k)
      BY <1>1, <1>2, <2>3
    <3>2. Len(f) < Len(k)
      BY <1>1, <1>2, <2>3
    <3> QED BY <2>3, <3>1, <3>2
  <2>4. CASE Cut(c, k) /\ k # c
    <3>1. /\ Len(k) \in 1..Len(c) /\ \A i \in 1..Len(k) : k[i] = c[i] /\ c[1].wrapped
          /\ \A i \in 1..Len(c) : c[i].wrapped => i <= Len(k)
      BY <2>4 DEF Cut
    <3>2. CASE Len(f) = 0
      BY <1>2, <3>1, <3>2
    <3>3. CASE Len(f) # 0
      <4>1. 1 \in 1..Len(f) /\ Len(f) + 1 \in 1..Len(c)
        BY <1>1, <1>2, <3>3
      <4>2. c[1].wrapped
        BY <3>1
      <4>3. c[Len(f) + 1].wrapped
        BY <1>1, <4>1, <4>2
      <4>4. Len(f) + 1 <= Len(k)
        BY <3>1, <4>1, <4>3
      <4>5. Len(f) + 1 \in 1..Len(k) /\ Len(f) < Len(k)
        BY <1>2, <4>4
      <4> QED BY <3>1, <4>3, <4>5
    <3> QED BY <3>2, <3>3
  <2> QED BY <1>3, <2>1, <2>2, <2>3, <2>4 DEF ChainMoves, c, k
<1> QED BY <1>0, <1>1, <1>4 DEF Ahead, c, k, f

LEMMA EmptyChain == IsChain(<<>>)
<1>1. <<>> \in Seq(Blocks({}))
  OBVIOUS
<1> QED BY <1>1 DEF IsChain

\* A step of v, if it keeps what concerns v.
LEMMA OneNode ==
  ASSUME Inductive, NEW v \in Nodes, LedgerTables', ControlTables',
         IsChain(chain'[v]), Len(chain'[v]) > 0, ChainMoves(v), Consistent(v)',
         IsChain(fetched'[v]), mode'[v] # "fetching" => fetched'[v] = <<>>, Ahead(v)',
         \A u \in Nodes \ {v} : SameLedger(u) /\ SameControl(u)
  PROVE  Inductive' /\ \A u \in Nodes : ChainMoves(u)
<1>1. Chains /\ \A u \in Nodes : Consistent(u)
  BY DEF Inductive
<1>2. \A u \in Nodes : ChainMoves(u)
  BY DEF SameLedger, ChainMoves
<1>3. Chains'
  BY <1>1 DEF Chains, SameLedger, SameControl
<1>4. \A u \in Nodes : Consistent(u)'
  BY <1>1, ConsistentFrame
<1>5. \A u \in Nodes : IsChain(chain'[u])
  BY <1>3 DEF Chains
<1>6. \A u \in Nodes \ {v} : Ahead(u)'
  BY <1>2, <1>5, AheadFrame
<1> QED BY <1>2, <1>3, <1>4, <1>6 DEF Inductive

-----------------------------------------------------------------------------
(***************************************************************************)
(* The invariant is inductive.                                             *)
(***************************************************************************)
LEMMA InductiveInit == Init => Inductive
<1> SUFFICES ASSUME Init PROVE Inductive
  OBVIOUS
<1> DEFINE c == <<GenesisBlock>>
           root == AddLeaf(<<>>, LeafHash(Genesis), 0)
<1>1. \A v \in Nodes : /\ chain[v] = c /\ txIDs[v] = {} /\ noteIDs[v] = {}
                       /\ admitted[v] = {} /\ authorized[v] = {} /\ members[v] = {}
                       /\ keyEpoch[v] = InitialEpoch
                       /\ mode[v] = "down" /\ fetched[v] = <<>>
  BY DEF Init
<1>2. LedgerTables /\ ControlTables
  BY DEF Init, LedgerTables, ControlTables, InitialEpoch
<1>3. /\ GenesisBlock \in Blocks({root}) /\ GenesisBlock.hash = <<>> /\ ~ GenesisBlock.wrapped
      /\ GenesisBlock.tx = Genesis /\ GenesisBlock.root = root /\ GenesisBlock.saved
  <2>1. <<>> \in Hash
    BY DEF Hash
  <2>2. GenesisBlock = [prev |-> <<>>, hash |-> <<>>, tx |-> Genesis, root |-> root,
                        wrapped |-> FALSE, saved |-> TRUE]
    BY DEF GenesisBlock
  <2> HIDE DEF root
  <2> QED BY <2>1, <2>2 DEF Blocks
<1>4. IsChain(c) /\ Len(c) = 1 /\ c[1] = GenesisBlock
  BY <1>3 DEF IsChain
<1> HIDE DEF c
<1>5. Chains
  BY <1>1, <1>4, EmptyChain DEF Chains
<1>6. \A i \in 1..Len(c) : i = 1
  BY <1>4
<1>7. Valid(c)
  BY <1>3, <1>4, ValidIs
<1>8. WrappedFirst(c) /\ Once(c) /\ Rows(c)
  BY <1>3, <1>4 DEF WrappedFirst, Once, Rows
<1>9. Genesis \notin Txs /\ Genesis \notin Creates /\ Genesis \notin Bundles
  BY PeerAssumption DEF PeerAssumption, Txs
<1>10. Known(c, {}, {}) /\ KeysFromChain(c, {}) /\ Writers(c) /\ Epochs(c)
  BY <1>3, <1>4, <1>6, <1>9 DEF Known, KeysFromChain, Writers, Epochs
<1>11. EpochFromChain(c, InitialEpoch)
  BY <1>3, <1>4, <1>6, <1>9 DEF EpochFromChain, EpochAt
<1>12. \A v \in Nodes : Consistent(v)
  BY <1>1, <1>7, <1>8, <1>10, <1>11 DEF Consistent, ChainOK
<1>13. \A v \in Nodes : Ahead(v)
  BY <1>1 DEF Ahead
<1> QED BY <1>2, <1>5, <1>12, <1>13 DEF Inductive

LEMMA AcceptStep ==
  ASSUME Inductive, NEW v \in Nodes, NEW x \in Txs, Accept(v, x)
  PROVE  Inductive' /\ \A u \in Nodes : ChainMoves(u)
<1>0. LedgerTables /\ ControlTables /\ Chains
  BY DEF Inductive
<1>1. /\ IsChain(chain'[v]) /\ Len(chain'[v]) = Len(chain[v]) + 1
      /\ \A i \in 1..Len(chain[v]) : chain'[v][i] = chain[v][i]
      /\ Consistent(v)'
  BY AcceptConsistent
<1>2. /\ chain' = [u \in Nodes |-> chain'[u]] /\ admitted' = [u \in Nodes |-> admitted'[u]]
      /\ \A u \in Nodes \ {v} : /\ chain'[u] = chain[u] /\ txIDs'[u] = txIDs[u]
                                 /\ noteIDs'[u] = noteIDs[u] /\ admitted'[u] = admitted[u]
  BY <1>0 DEF Accept, LedgerTables
<1>3. /\ keyEpoch' \in [Nodes -> Nat] /\ members' = [u \in Nodes |-> members'[u]]
      /\ authorized' = [u \in Nodes |-> authorized'[u]]
      /\ \A u \in Nodes \ {v} : /\ keyEpoch'[u] = keyEpoch[u] /\ members'[u] = members[u]
                                 /\ authorized'[u] = authorized[u]
  <2>1. CASE Persist(v, x)
    <3>1. x \in Bundles => Epoch[x] \in Nat
      BY PeerAssumption DEF PeerAssumption
    <3> QED BY <1>0, <2>1, <3>1 DEF Persist, LedgerTables
  <2>2. CASE UNCHANGED tables
    BY <1>0, <2>2 DEF tables, LedgerTables
  <2> QED BY <2>1, <2>2 DEF Accept
<1>4. txIDs' \in [Nodes -> SUBSET Txs] /\ noteIDs' \in [Nodes -> SUBSET Creates]
  BY <1>0 DEF Accept, LedgerTables
<1>5. count' \in [Nodes -> Nat]
  <2>1. count' = [count EXCEPT ![v] = @ + 1] /\ count \in [Nodes -> Nat]
    BY <1>0 DEF Accept, LedgerTables
  <2> QED BY <2>1
<1>6. LedgerTables'
  BY <1>2, <1>3, <1>4, <1>5 DEF LedgerTables
<1>7. UNCHANGED <<mode, peer, fetched>> /\ mode[v] = "up"
  BY DEF Accept
<1>8. ControlTables' /\ Ahead(v)' /\ IsChain(fetched'[v]) /\ fetched'[v] = <<>>
  BY <1>0, <1>7 DEF ControlTables, Ahead, Chains
<1>9. Len(chain'[v]) > 0
  BY <1>0, <1>1, ChainFields DEF Chains
<1>10. ChainMoves(v)
  BY <1>1 DEF ChainMoves
<1>11. \A u \in Nodes \ {v} : SameLedger(u) /\ SameControl(u)
  BY <1>2, <1>3, <1>7 DEF SameLedger, SameControl
<1> QED BY <1>1, <1>6, <1>8, <1>9, <1>10, <1>11, OneNode

\* A step that leaves the ledgers alone, and of the rest changes one node's.
LEMMA QuietStep ==
  ASSUME Inductive, NEW v \in Nodes, UNCHANGED ledger, ControlTables', Ahead(v)',
         \A u \in Nodes \ {v} : SameControl(u),
         IsChain(fetched'[v]), mode'[v] # "fetching" => fetched'[v] = <<>>
  PROVE  Inductive' /\ \A u \in Nodes : ChainMoves(u)
<1>1. /\ chain' = chain /\ txIDs' = txIDs /\ noteIDs' = noteIDs /\ count' = count
      /\ admitted' = admitted /\ authorized' = authorized /\ members' = members
      /\ keyEpoch' = keyEpoch
  BY DEF ledger, memory, tables
<1>2. \A u \in Nodes : SameLedger(u) /\ ChainMoves(u)
  BY <1>1 DEF SameLedger, ChainMoves
<1>3. LedgerTables /\ Consistent(v) /\ IsChain(chain[v]) /\ Len(chain[v]) > 0
  BY DEF Inductive, Chains
<1>4. LedgerTables'
  BY <1>1, <1>3 DEF LedgerTables
<1>5. Consistent(v)'
  BY <1>2, <1>3, ConsistentFrame
<1> QED BY <1>1, <1>2, <1>3, <1>4, <1>5, OneNode

\* A start, alone or with a peer, once its ledger is built.
LEMMA RestartStep ==
  ASSUME Inductive, NEW v \in Nodes, Restart(v), ControlTables', Ahead(v)',
         \A u \in Nodes \ {v} : SameControl(u), fetched'[v] = <<>>
  PROVE  Inductive' /\ \A u \in Nodes : ChainMoves(u)
<1>1. /\ IsChain(chain'[v]) /\ Cut(chain[v], chain'[v]) /\ Consistent(v)'
      /\ LedgerTables'
      /\ \A u \in Nodes \ {v} : /\ chain'[u] = chain[u] /\ txIDs'[u] = txIDs[u]
                                 /\ noteIDs'[u] = noteIDs[u] /\ admitted'[u] = admitted[u]
      /\ keyEpoch' = keyEpoch /\ members' = members /\ authorized' = authorized
  BY RestartConsistent
<1>2. ChainMoves(v) /\ Len(chain'[v]) > 0
  <2>1. Len(chain'[v]) \in 1..Len(chain[v])
    BY <1>1 DEF Cut
  <2> QED BY <1>1, <2>1 DEF ChainMoves
<1>3. \A u \in Nodes \ {v} : SameLedger(u)
  BY <1>1 DEF SameLedger
<1> QED BY <1>1, <1>2, <1>3, EmptyChain, OneNode

LEMMA StartingStep ==
  ASSUME Inductive, NEW v \in Nodes,
         Stop(v) \/ StartAlone(v) \/ StartFails(v) \/ \E w \in Nodes : Start(v, w)
  PROVE  Inductive' /\ \A u \in Nodes : ChainMoves(u)
<1>1. ControlTables /\ Chains
  BY DEF Inductive
<1>2. CASE Stop(v) \/ StartAlone(v) \/ StartFails(v)
  <2>1. /\ mode'[v] # "fetching" /\ fetched'[v] = <<>>
        /\ \A u \in Nodes \ {v} : SameControl(u)
    BY <1>1, <1>2 DEF Stop, StartAlone, StartFails, ControlTables, Chains, SameControl
  <2>2. ControlTables'
    BY <1>1, <1>2 DEF Stop, StartAlone, StartFails, ControlTables
  <2>3. Ahead(v)'
    BY <2>1 DEF Ahead
  <2>4. Restart(v) \/ UNCHANGED ledger
    BY <1>2 DEF Stop, StartAlone, StartFails
  <2> QED BY <2>1, <2>2, <2>3, <2>4, QuietStep, RestartStep, EmptyChain
<1>3. ASSUME NEW w \in Nodes, Start(v, w)
      PROVE  Inductive' /\ \A u \in Nodes : ChainMoves(u)
  <2>1. /\ Restart(v) /\ mode'[v] = "fetching" /\ peer'[v] = w
        /\ fetched'[v] = <<>> /\ \A u \in Nodes \ {v} : SameControl(u)
    BY <1>1, <1>3 DEF Start, ControlTables, Chains, SameControl
  <2>2. ControlTables'
    BY <1>1, <1>3 DEF Start, ControlTables
  <2>3. Len(chain'[w]) > 0
    <3>1. Len(chain'[v]) \in 1..Len(chain[v])
      BY <2>1, RestartConsistent DEF Cut
    <3>2. w # v => Len(chain'[w]) > 0
      BY <1>1, <2>1, RestartConsistent DEF Chains
    <3> QED BY <3>1, <3>2
  <2>4. Ahead(v)'
    <3>1. Len(fetched'[v]) = 0
      BY <2>1
    <3> QED BY <2>1, <2>3, <3>1 DEF Ahead
  <2> QED BY <2>1, <2>2, <2>4, RestartStep
<1> QED BY <1>2, <1>3

LEMMA FetchStep ==
  ASSUME Inductive, NEW v \in Nodes, FetchPage(v) \/ FetchLast(v)
  PROVE  Inductive' /\ \A u \in Nodes : ChainMoves(u)
<1>1. /\ LedgerTables /\ ControlTables /\ Chains /\ mode[v] = "fetching" /\ Served(v)
  BY DEF Inductive, FetchPage, FetchLast
<1> DEFINE c == chain[peer[v]]
           f == fetched[v] \o Page(v)
<1>2. /\ peer[v] \in Nodes \ {v} /\ IsChain(f) /\ Len(f) <= Len(c)
      /\ \A i \in 1..Len(f) : f[i] = c[i] /\ ~ c[i].wrapped
      /\ ~ LastPage(v) => Len(f) < Len(c)
      /\ LastPage(v) => f = c
  BY <1>1, PageFacts
<1> HIDE DEF f
<1>3. CASE FetchPage(v)
  <2>1. /\ UNCHANGED <<ledger, mode, peer>> /\ ~ LastPage(v)
        /\ fetched'[v] = f /\ \A u \in Nodes \ {v} : fetched'[u] = fetched[u]
    BY <1>1, <1>3 DEF FetchPage, ControlTables, f
  <2>2. ControlTables'
    BY <1>1, <1>3 DEF FetchPage, ControlTables
  <2>3. Ahead(v)'
    BY <1>2, <2>1 DEF Ahead, ledger, memory
  <2>4. \A u \in Nodes \ {v} : SameControl(u)
    BY <2>1 DEF SameControl
  <2> QED BY <1>1, <1>2, <2>1, <2>2, <2>3, <2>4, QuietStep
<1>4. CASE FetchLast(v)
  <2>1. /\ LastPage(v) /\ mode' = [mode EXCEPT ![v] = "up"]
        /\ peer' = [peer EXCEPT ![v] = NoNode] /\ fetched' = [fetched EXCEPT ![v] = <<>>]
        /\ IF Heavier(c, chain[v]) THEN ReplaceChain(v, c) ELSE UNCHANGED ledger
    BY <1>2, <1>4 DEF FetchLast, f
  <2>2. /\ mode'[v] = "up" /\ fetched'[v] = <<>>
        /\ \A u \in Nodes \ {v} : SameControl(u)
    BY <1>1, <2>1 DEF ControlTables, SameControl
  <2>3. ControlTables'
    BY <1>1, <2>1 DEF ControlTables
  <2>4. Ahead(v)'
    BY <2>2 DEF Ahead
  <2>5. CASE Heavier(c, chain[v])
    <3>1. /\ IsChain(chain'[v]) /\ Len(chain[v]) < Len(chain'[v])
          /\ \A i \in 1..Len(chain'[v]) : chain'[v][i].wrapped
          /\ Consistent(v)' /\ LedgerTables'
          /\ \A u \in Nodes \ {v} : SameLedger(u)
      BY <1>1, <2>1, <2>5, AdoptConsistent DEF SameLedger
    <3>2. ChainMoves(v) /\ Len(chain'[v]) > 0
      <4>1. Len(chain[v]) \in Nat /\ Len(chain'[v]) \in Nat
        BY <1>1, <3>1, ChainFields DEF Chains
      <4> QED BY <3>1, <4>1 DEF ChainMoves
    <3> QED BY <2>2, <2>3, <2>4, <3>1, <3>2, EmptyChain, OneNode
  <2>6. CASE ~ Heavier(c, chain[v])
    BY <2>1, <2>2, <2>3, <2>4, <2>6, QuietStep, EmptyChain
  <2> QED BY <2>5, <2>6
<1> QED BY <1>3, <1>4

LEMMA InductiveStep ==
  ASSUME Inductive, [Next]_vars
  PROVE  Inductive'
<1>1. CASE Next
  BY <1>1, AcceptStep, StartingStep, FetchStep DEF Next
<1>2. CASE UNCHANGED vars
  <2>1. UNCHANGED <<chain, txIDs, count, noteIDs, keyEpoch, members, authorized, admitted,
                    mode, peer, fetched>>
    BY <1>2 DEF vars, ledger, memory, tables
  <2>2. \A u \in Nodes : ChainMoves(u) /\ SameLedger(u) /\ SameControl(u)
    BY <2>1 DEF ChainMoves, SameLedger, SameControl
  <2>3. LedgerTables' /\ ControlTables' /\ Chains'
    BY <2>1 DEF Inductive, LedgerTables, ControlTables, Chains
  <2>4. \A u \in Nodes : Consistent(u)'
    BY <2>2, ConsistentFrame DEF Inductive
  <2>5. \A u \in Nodes : IsChain(chain'[u])
    BY <2>3 DEF Chains
  <2>6. \A u \in Nodes : Ahead(u)'
    BY <2>2, <2>5, AheadFrame
  <2> QED BY <2>3, <2>4, <2>6 DEF Inductive
<1> QED BY <1>1, <1>2

-----------------------------------------------------------------------------
(***************************************************************************)
(* The theorems.                                                           *)
(***************************************************************************)

\* Every node's ledger is consistent, and a node that fetches has the beginning of
\* its peer's chain or will fail.
THEOREM InductiveInvariant == Spec => []Inductive
<1>1. Inductive /\ [Next]_vars => Inductive'
  BY InductiveStep
<1> QED BY InductiveInit, <1>1, PTL DEF Spec

\* Types, and: the rows of an adopted chain come first, and what could not be
\* written is an enrolment repeated after a replacement (ledger_store.go:375).
THEOREM TypeCorrect == Spec => []TypeOK
<1>1. ASSUME Inductive PROVE TypeOK
  <2>1. \A v \in Nodes : Len(chain[v]) > 0 /\ DOMAIN chain[v] = 1..Len(chain[v])
    BY <1>1, ChainFields DEF Inductive, Chains
  <2>2. \A v \in Nodes : \A i \in 1..Len(chain[v]) : BlockOK(chain[v][i])
    BY <1>1, ChainFields DEF Inductive, Chains, BlockOK, Hash
  <2>3. \A v \in Nodes : WrappedFirst(chain[v]) /\ Rows(chain[v])
    BY <1>1 DEF Inductive, Consistent, ChainOK
  <2>4. \A v \in Nodes : mode[v] = "fetching" => peer[v] \in Nodes
    BY <1>1 DEF Inductive, Ahead
  <2>5. \A v \in Nodes : \A i \in 1..Len(chain[v]) :
          /\ chain[v][i].wrapped => \A j \in 1..i : chain[v][j].wrapped
          /\ ~ chain[v][i].saved =>
               Replaced(v) /\ ~ chain[v][i].wrapped /\ chain[v][i].tx \in Enrolments
    BY <2>3 DEF WrappedFirst, Rows, Replaced
  <2>6. /\ txIDs \in [Nodes -> SUBSET Txs] /\ noteIDs \in [Nodes -> SUBSET Creates]
        /\ count \in [Nodes -> Nat] /\ keyEpoch \in [Nodes -> Nat]
        /\ mode \in [Nodes -> {"up", "fetching", "down"}]
    BY <1>1 DEF Inductive, LedgerTables, ControlTables
  <2>7. \A v \in Nodes : DOMAIN chain[v] = 1..Len(chain[v])
    BY <2>1
  <2>8. \A v \in Nodes : Len(chain[v]) > 0 /\ \A i \in DOMAIN chain[v] : BlockOK(chain[v][i])
    BY <2>1, <2>2
  <2>9. \A v \in Nodes : \A i \in DOMAIN chain[v] :
          /\ chain[v][i].wrapped => \A j \in 1..i : chain[v][j].wrapped
          /\ ~ chain[v][i].saved =>
               Replaced(v) /\ ~ chain[v][i].wrapped /\ chain[v][i].tx \in Enrolments
    BY <2>5, <2>7
  <2> QED BY <2>4, <2>6, <2>8, <2>9 DEF TypeOK
<1> QED BY <1>1, InductiveInvariant, PTL

\* The blocks of every node form one chain with the roots of their leaves.
THEOREM ChainsAreValid == Spec => []ChainsLinked
<1>1. Inductive => ChainsLinked
  BY DEF Inductive, Consistent, ChainOK, ChainsLinked
<1> QED BY <1>1, InductiveInvariant, PTL

\* No note is twice on a chain, whatever was forgotten and submitted again.
THEOREM NothingTwice == Spec => []NoteOnce
<1>1. ASSUME Inductive PROVE NoteOnce
  <2>1. \A v \in Nodes : DOMAIN chain[v] = 1..Len(chain[v]) /\ Once(chain[v])
    BY <1>1, ChainFields DEF Inductive, Chains, Consistent, ChainOK
  <2> QED BY <2>1 DEF Once, NoteOnce
<1> QED BY <1>1, InductiveInvariant, PTL

\* The writer of a note was enrolled before it on the same chain, unless the node
\* that accepted it had given up the chain that enrols the writer.
THEOREM WritersAreEnrolled == Spec => []WritersEnrolled
<1>1. ASSUME Inductive PROVE WritersEnrolled
  <2>1. \A v \in Nodes : DOMAIN chain[v] = 1..Len(chain[v]) /\ Writers(chain[v])
    BY <1>1, ChainFields DEF Inductive, Chains, Consistent, ChainOK
  <2> QED BY <2>1 DEF Writers, EnrolledBy, WritersEnrolled, AfterReplacement, Replaced
<1> QED BY <1>1, InductiveInvariant, PTL

\* A note was written for the key epoch that the bundles before it on the same chain
\* lead to, with the same exception.
THEOREM RotationsFence == Spec => []EpochFollowsChain
<1>1. ASSUME Inductive PROVE EpochFollowsChain
  <2>1. \A v \in Nodes : DOMAIN chain[v] = 1..Len(chain[v]) /\ Epochs(chain[v])
    BY <1>1, ChainFields DEF Inductive, Chains, Consistent, ChainOK
  <2> QED BY <2>1 DEF Epochs, EpochAt, EpochFollowsChain, AfterReplacement, Replaced
<1> QED BY <1>1, InductiveInvariant, PTL

\* Only the last page replaces the chain of a node that fetches, and then by the
\* peer's chain of that moment.
LEMMA AdoptedWhole ==
  ASSUME Inductive, [Next]_vars, NEW v \in Nodes, mode[v] = "fetching", chain'[v] # chain[v]
  PROVE  \E w \in Nodes \ {v} : Hashes(chain'[v]) = Hashes(chain[w])
<1>1. LedgerTables
  BY DEF Inductive
<1>2. CASE \E u \in Nodes, x \in Txs : Accept(u, x)
  <2>1. PICK u \in Nodes, x \in Txs : Accept(u, x)
    BY <1>2
  <2>2. u # v
    BY <2>1 DEF Accept
  <2> QED BY <1>1, <2>1, <2>2 DEF Accept, LedgerTables
<1>3. CASE \E u \in Nodes : FetchLast(u)
  <2>1. PICK u \in Nodes : FetchLast(u)
    BY <1>3
  <2>2. /\ mode[u] = "fetching" /\ Served(u) /\ LastPage(u)
        /\ fetched[u] \o Page(u) = chain[peer[u]]
    BY <2>1, PageFacts DEF FetchLast
  <2>3. IF Heavier(chain[peer[u]], chain[u]) THEN ReplaceChain(u, chain[peer[u]])
        ELSE UNCHANGED ledger
    BY <2>1, <2>2 DEF FetchLast
  <2>4. Heavier(chain[peer[u]], chain[u]) /\ ReplaceChain(u, chain[peer[u]])
    BY <2>3 DEF ledger, memory
  <2>5. u = v
    BY <2>2, <2>4, AdoptConsistent
  <2>6. peer[v] \in Nodes \ {v} /\ chain'[v] = Wrapped(chain[peer[v]]) /\ IsChain(chain'[v])
    BY <2>2, <2>4, <2>5, AdoptConsistent
  <2>7. IsChain(chain[peer[v]])
    BY <2>6 DEF Inductive, Chains
  <2>8. /\ DOMAIN chain'[v] = DOMAIN chain[peer[v]]
        /\ \A i \in DOMAIN chain[peer[v]] : chain'[v][i].hash = chain[peer[v]][i].hash
    BY <2>6, <2>7, WrappedChain, ChainFields
  <2>9. Hashes(chain'[v]) = Hashes(chain[peer[v]])
    BY <2>8 DEF Hashes
  <2> QED BY <2>6, <2>9
<1>4. CASE \E u \in Nodes : StartAlone(u) \/ \E w \in Nodes : Start(u, w)
  <2>1. PICK u \in Nodes : mode[u] = "down" /\ Restart(u)
    BY <1>4 DEF StartAlone, Start
  <2>2. u # v
    BY <2>1
  <2> QED BY <2>1, <2>2, RestartConsistent
<1>5. CASE \E u \in Nodes : Stop(u) \/ FetchPage(u) \/ StartFails(u)
  BY <1>5 DEF Stop, FetchPage, StartFails, ledger, memory
<1>6. CASE UNCHANGED vars
  BY <1>6 DEF vars, ledger, memory
<1> QED BY <1>2, <1>3, <1>4, <1>5, <1>6 DEF Next

\* A chain that was read page by page is the whole chain of another node.
THEOREM PagesMakeOneChain == Spec => ExchangedWhole
<1>1. ASSUME Inductive, [Next]_vars
      PROVE  \A v \in Nodes : mode[v] = "fetching" /\ chain'[v] # chain[v]
               => \E w \in Nodes \ {v} : Hashes(chain'[v]) = Hashes(chain[w])
  BY <1>1, AdoptedWhole
<1> QED BY <1>1, InductiveInvariant, PTL DEF Spec, ExchangedWhole
=============================================================================
