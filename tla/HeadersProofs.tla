--------------------------- MODULE HeadersProofs ---------------------------
(***************************************************************************)
(* What HeadersFirst guarantees for every tree of blocks, every page size  *)
(* and any number of Syncs of one device at the same time.                 *)
(***************************************************************************)
EXTENDS HeadersFirst, SequenceTheorems, TLAPS

-----------------------------------------------------------------------------
(* Chains *)

\* The numbers the assumptions speak of.
LEMMA ConstantsType ==
  /\ NoHash \notin Hashes /\ Genesis \in Hashes
  /\ \A b \in Hashes : /\ b \in Nat /\ b > 0
                       /\ Chain[b] \in Seq(Hashes) /\ Len(Chain[b]) \in Nat
                       /\ Height(b) \in Nat /\ Total[b] \in Nat
  /\ PageSize \in Nat /\ PageSize > 0
BY HeadersAssumption DEF HeadersAssumption, NoHash, Height

\* The blocks of a chain are blocks, and each ends the chain up to it.
LEMMA ChainMembers ==
  ASSUME NEW b \in Hashes, NEW i \in 1 .. Len(Chain[b])
  PROVE  /\ Chain[b][i] \in Hashes
         /\ Len(Chain[Chain[b][i]]) = i
         /\ \A j \in 1 .. i : Chain[Chain[b][i]][j] = Chain[b][j]
         /\ Height(Chain[b][i]) = i - 1
<1>1. Chain[b] \in Seq(Hashes) /\ Chain[Chain[b][i]] = SubSeq(Chain[b], 1, i)
  BY HeadersAssumption DEF HeadersAssumption
<1>2. Chain[b][i] \in Hashes
  BY <1>1
<1>3. Len(SubSeq(Chain[b], 1, i)) = i /\ \A j \in 1 .. i : SubSeq(Chain[b], 1, i)[j] = Chain[b][j]
  BY <1>1
<1> QED BY <1>1, <1>2, <1>3 DEF Height

\* The genesis is the only block without a parent, and the first of any chain.
LEMMA ChainEnds ==
  ASSUME NEW b \in Hashes
  PROVE  /\ Chain[Genesis] = <<Genesis>>
         /\ Chain[b][Len(Chain[b])] = b /\ Chain[b][1] = Genesis
         /\ Len(Chain[b]) \in Nat /\ Len(Chain[b]) > 0
         /\ Len(Chain[b]) = 1 => b = Genesis
         /\ b # Genesis => Len(Chain[b]) > 1
<1>1. Chain[b] \in Seq(Hashes) /\ Len(Chain[b]) > 0 /\ Chain[b][1] = Genesis
      /\ Chain[b][Len(Chain[b])] = b /\ Chain[Chain[b][1]] = SubSeq(Chain[b], 1, 1)
  BY HeadersAssumption DEF HeadersAssumption
<1>2. Chain[Genesis] \in Seq(Hashes) /\ Len(Chain[Genesis]) = 1 /\ Chain[Genesis][1] = Genesis
  BY <1>1, ChainMembers, ConstantsType
<1>3. <<Genesis>> \in Seq(Hashes) /\ Len(<<Genesis>>) = 1 /\ <<Genesis>>[1] = Genesis
  BY ConstantsType
<1>4. Chain[Genesis] = <<Genesis>>
  BY <1>2, <1>3
<1>5. Len(Chain[b]) \in Nat
  BY ConstantsType
<1>6. Len(Chain[b]) = 1 => b = Genesis
  BY <1>1
<1>7. b # Genesis => Len(Chain[b]) > 1
  BY <1>1, <1>5, <1>6
<1> QED BY <1>1, <1>4, <1>5, <1>6, <1>7, Zenon

\* A block's parent is a block, and the chain up to it is the parent's chain.
LEMMA ParentChain ==
  ASSUME NEW b \in Hashes, b # Genesis
  PROVE  /\ Prev(b) \in Hashes
         /\ Len(Chain[Prev(b)]) = Len(Chain[b]) - 1
         /\ Append(Chain[Prev(b)], b) = Chain[b]
<1> DEFINE n == Len(Chain[b])
<1>1. n \in Nat /\ n > 1 /\ Chain[b][n] = b /\ Chain[b] \in Seq(Hashes)
  BY ChainEnds, ConstantsType
<1>2. n - 1 \in 1 .. n
  BY <1>1
<1>3. /\ Prev(b) \in Hashes /\ Len(Chain[Prev(b)]) = n - 1
      /\ \A j \in 1 .. n - 1 : Chain[Prev(b)][j] = Chain[b][j]
  BY <1>2, ChainMembers DEF Prev
<1>4. Chain[Prev(b)] \in Seq(Hashes)
  BY <1>3, ConstantsType
<1>5. Append(Chain[Prev(b)], b) \in Seq(Hashes) /\ Len(Append(Chain[Prev(b)], b)) = n
      /\ \A j \in 1 .. n : Append(Chain[Prev(b)], b)[j] = Chain[b][j]
  BY <1>1, <1>3, <1>4
<1>6. Append(Chain[Prev(b)], b) = Chain[b]
  BY <1>1, <1>5
<1> QED BY <1>3, <1>6

\* The chain of the parent is a prefix.
LEMMA ParentPrefix ==
  ASSUME NEW b \in Hashes, b # Genesis, NEW i \in 1 .. Len(Chain[Prev(b)])
  PROVE  Chain[Prev(b)][i] = Chain[b][i]
<1> DEFINE n == Len(Chain[b])
<1>1. n \in Nat /\ n > 1 /\ Len(Chain[Prev(b)]) = n - 1
  BY ChainEnds, ParentChain
<1>2. n - 1 \in 1 .. n /\ i \in 1 .. n - 1
  BY <1>1
<1>3. Prev(b) = Chain[b][n - 1]
  BY DEF Prev
<1> QED BY <1>2, <1>3, ChainMembers

\* What holds of the parent's chain and of the block holds of its chain.
LEMMA SoundChild ==
  ASSUME NEW b \in Hashes, b \in Signed, BodyRoot[b] = Chain[b],
         b # Genesis => Sound(Prev(b))
  PROVE  Sound(b)
<1> SUFFICES ASSUME NEW i \in 1 .. Len(Chain[b])
             PROVE  Chain[b][i] \in Signed /\ BodyRoot[Chain[b][i]] = Chain[Chain[b][i]]
  BY DEF Sound
<1>1. CASE i = Len(Chain[b])
  BY <1>1, ChainEnds
<1>2. CASE i # Len(Chain[b])
  <2>1. Len(Chain[b]) \in Nat /\ i < Len(Chain[b]) /\ b # Genesis
    BY <1>2, ChainEnds
  <2>2. Sound(Prev(b)) /\ i \in 1 .. Len(Chain[Prev(b)])
    BY <2>1, ParentChain
  <2>3. Chain[Prev(b)][i] = Chain[b][i]
    BY <2>1, <2>2, ParentPrefix
  <2> QED BY <2>2, <2>3 DEF Sound
<1> QED BY <1>1, <1>2

-----------------------------------------------------------------------------
(* The inductive invariant *)

\* Every note on the chain of b is among the notes ns.
ShownIn(ns, b) ==
  \A i \in 1 .. Len(Chain[b]) :
    NoteIn[Chain[b][i]] # NoNote => ns[NoteIn[Chain[b][i]]] # NoHash

Shown(b) == ShownIn(notes, b)

\* A finalised block is verified from the genesis on, and so are its notes.
Finalised(b, peaks) == Sound(b) /\ peaks = Chain[b] /\ Shown(b)

SavedOK ==
  saved # NoState =>
    /\ saved.hash \in Hashes
    /\ saved.work = Total[saved.hash]
    /\ Finalised(saved.hash, saved.peaks)

\* The headers a Sync knows: their work is the work of their chain, and only
\* the restored tip, which was finalised before, has no PrevHash.
StoreOK(s) ==
  \A b \in DOMAIN store[s] :
    /\ store[s][b].work = Total[b]
    /\ store[s][b].final => Finalised(b, store[s][b].peaks)
    /\ ~ store[s][b].linked => store[s][b].final

\* The row the Sync resumed from is among its headers.
BaseOK(s) ==
  state[s] # NoState =>
    state[s].hash \in DOMAIN store[s] /\ state[s].work = Total[state[s].hash]

\* The block phase has finalised every active block below the height it is at.
LoopOK(s) ==
  /\ pc[s] \in {"blocks", "again"} =>
       /\ tip[s] \in DOMAIN store[s]
       /\ IsBest(store[s], tip[s])
       /\ \A h \in 0 .. Height(tip[s]) :
            h < next[s] /\ HasActiveAt(store[s], tip[s], h)
              => store[s][Chain[tip[s]][h + 1]].final
  /\ pc[s] = "again" => Finished(s)

SyncOK(s) == StoreOK(s) /\ BaseOK(s) /\ LoopOK(s)

IInv == TypeOK /\ SavedOK /\ NotesVerified /\ \A s \in Syncs : SyncOK(s)

\* A block shows its notes when its parent does and its own is there.
LEMMA ShownChild ==
  ASSUME NEW ns, NEW b \in Hashes,
         b # Genesis => ShownIn(ns, Prev(b)),
         NoteIn[b] # NoNote => ns[NoteIn[b]] # NoHash
  PROVE  ShownIn(ns, b)
<1> SUFFICES ASSUME NEW i \in 1 .. Len(Chain[b]), NoteIn[Chain[b][i]] # NoNote
             PROVE  ns[NoteIn[Chain[b][i]]] # NoHash
  BY DEF ShownIn
<1>1. CASE i = Len(Chain[b])
  BY <1>1, ChainEnds
<1>2. CASE i # Len(Chain[b])
  <2>1. b # Genesis /\ i \in 1 .. Len(Chain[Prev(b)])
    <3>1. Len(Chain[b]) \in Nat /\ i < Len(Chain[b]) /\ b # Genesis
      BY <1>2, ChainEnds
    <3> QED BY <3>1, ParentChain
  <2>2. Chain[Prev(b)][i] = Chain[b][i]
    BY <2>1, ParentPrefix
  <2> QED BY <2>1, <2>2 DEF ShownIn
<1> QED BY <1>1, <1>2

\* Notes are never removed, so what is shown stays shown.
LEMMA ShownGrows ==
  ASSUME NEW old, NEW new, NEW b \in Hashes, ShownIn(old, b),
         \A n \in Notes : old[n] # NoHash => new[n] # NoHash
  PROVE  ShownIn(new, b)
<1> SUFFICES ASSUME NEW i \in 1 .. Len(Chain[b]), NoteIn[Chain[b][i]] # NoNote
             PROVE  new[NoteIn[Chain[b][i]]] # NoHash
  BY DEF ShownIn
<1>1. Chain[b][i] \in Hashes
  BY ChainMembers
<1>2. NoteIn[Chain[b][i]] \in Notes
  BY <1>1, HeadersAssumption DEF HeadersAssumption
<1> QED BY <1>2 DEF ShownIn

\* The block the loop accepts is verified from the genesis on, its peaks are
\* the leaves of its chain, and all notes before it are shown.
LEMMA AcceptedBlock ==
  ASSUME TypeOK, NEW s \in Syncs, SyncOK(s), pc[s] = "blocks", ~ Finished(s),
         HasActiveAt(store[s], tip[s], next[s]), Verifies(store[s], Current(s))
  PROVE  /\ Current(s) \in DOMAIN store[s] /\ Current(s) \in Hashes
         /\ Height(Current(s)) = next[s]
         /\ Sound(Current(s))
         /\ FinalizeBlock(store[s], Current(s))[Current(s)].peaks = Chain[Current(s)]
         /\ ~ store[s][Current(s)].final /\ Current(s) # Genesis => Shown(Prev(Current(s)))
<1> DEFINE st == store[s]
           t == tip[s]
           h == next[s]
           b == Current(s)
<1>1. /\ t \in DOMAIN st /\ DOMAIN st \subseteq Hashes /\ t \in Hashes
      /\ st \in [DOMAIN st -> VerifiedHeader]
      /\ h \in Nat /\ StoreOK(s)
      /\ \A k \in 0 .. Height(t) :
           k < h /\ HasActiveAt(st, t, k) => st[Chain[t][k + 1]].final
  BY DEF SyncOK, LoopOK, TypeOK
<1>2. /\ Len(Chain[t]) \in Nat /\ Height(t) \in Nat
      /\ h =< Height(t) /\ h + 1 \in 1 .. Len(Chain[t])
  BY <1>1, ConstantsType DEF Finished, Height
<1>3. /\ b = Chain[t][h + 1] /\ b \in Hashes /\ Len(Chain[b]) = h + 1 /\ Height(b) = h
      /\ \A j \in 1 .. h + 1 : Chain[b][j] = Chain[t][j]
  <2>1. /\ b = Chain[t][h + 1] /\ b \in Hashes /\ Len(Chain[b]) = h + 1
        /\ \A j \in 1 .. h + 1 : Chain[b][j] = Chain[t][j]
    BY <1>1, <1>2, ChainMembers DEF Current
  <2>2. h \in Nat
    BY <1>1
  <2>3. Height(b) = h
    BY <2>1, <2>2 DEF Height
  <2> QED BY <2>1, <2>3
<1>4. b \in DOMAIN st
  BY <1>2, <1>3 DEF HasActiveAt
<1>5. CASE st[b].final
  BY <1>1, <1>3, <1>4, <1>5 DEF StoreOK, Finalised, FinalizeBlock
<1>6. CASE ~ st[b].final
  <2>1. /\ b \in Signed /\ Links(st, b) /\ GrownPeaks(st, b) = BodyRoot[b]
        /\ st[b].linked
    BY <1>1, <1>4, <1>6 DEF Verifies, StoreOK
  <2>2. FinalizeBlock(st, b)[b].peaks = GrownPeaks(st, b)
    BY <1>1, <1>4, <1>6 DEF FinalizeBlock, VerifiedHeader
  <2>3. CASE b = Genesis
    <3>1. GrownPeaks(st, b) = Chain[b]
      BY <2>3, <1>3, ChainEnds DEF GrownPeaks
    <3>2. Sound(b)
      BY <2>1, <2>3, <3>1, <1>3, SoundChild
    <3> QED BY <1>3, <1>4, <2>2, <2>3, <3>1, <3>2
  <2>4. CASE b # Genesis
    <3>1. h > 0 /\ Prev(b) = Chain[t][h] /\ Prev(b) \in Hashes /\ Prev(b) \in DOMAIN st
      <4>1. h + 1 > 1
        BY <1>3, <2>4, ChainEnds
      <4>2. Prev(b) = Chain[b][h]
        BY <1>1, <1>3 DEF Prev
      <4>3. h \in 1 .. h + 1
        BY <1>1, <4>1
      <4> QED BY <1>1, <1>3, <4>1, <4>2, <4>3, <2>1, <2>4, ParentChain DEF Links
    <3>2. HasActiveAt(st, t, h - 1)
      <4>1. \A i \in h .. Len(Chain[t]) : Chain[t][i] \in DOMAIN st
        <5> SUFFICES ASSUME NEW i \in h .. Len(Chain[t]) PROVE Chain[t][i] \in DOMAIN st
          OBVIOUS
        <5>1. i = h \/ i \in (h + 1) .. Len(Chain[t])
          BY <1>1, <1>2
        <5> QED BY <5>1, <3>1 DEF HasActiveAt
      <4>2. \A i \in (h + 1) .. Len(Chain[t]) : st[Chain[t][i]].linked
        <5> SUFFICES ASSUME NEW i \in (h + 1) .. Len(Chain[t]) PROVE st[Chain[t][i]].linked
          OBVIOUS
        <5>1. i = h + 1 \/ i \in (h + 2) .. Len(Chain[t])
          BY <1>1, <1>2
        <5> QED BY <5>1, <2>1, <1>3 DEF HasActiveAt
      <4>3. (h - 1) + 1 = h /\ (h - 1) + 2 = h + 1
        BY <1>1
      <4> QED BY <4>1, <4>2, <4>3 DEF HasActiveAt
    <3>3. st[Prev(b)].final
      <4>1. h - 1 \in 0 .. Height(t) /\ h - 1 < h /\ (h - 1) + 1 = h
        BY <1>1, <1>2, <3>1
      <4> QED BY <1>1, <3>1, <3>2, <4>1
    <3>4. Sound(Prev(b)) /\ st[Prev(b)].peaks = Chain[Prev(b)] /\ Shown(Prev(b))
      BY <1>1, <3>1, <3>3 DEF StoreOK, Finalised
    <3>5. GrownPeaks(st, b) = Chain[b]
      BY <1>3, <2>4, <3>4, ParentChain DEF GrownPeaks
    <3>6. Sound(b)
      BY <1>3, <2>1, <3>4, <3>5, SoundChild
    <3> QED BY <1>3, <1>4, <2>2, <3>4, <3>5, <3>6
  <2> QED BY <2>3, <2>4
<1> QED BY <1>5, <1>6

-----------------------------------------------------------------------------
(* What a step leaves alone *)

Grows == \A n \in Notes : notes[n] # NoHash => notes'[n] # NoHash

Keeps(t) ==
  /\ pc'[t] = pc[t] /\ state'[t] = state[t] /\ store'[t] = store[t]
  /\ tip'[t] = tip[t] /\ next'[t] = next[t]

\* A Sync that does not move stays as good as it was while notes are added.
LEMMA KeptSync ==
  ASSUME TypeOK, NEW t \in Syncs, SyncOK(t), Keeps(t), Grows
  PROVE  SyncOK(t)'
<1>1. StoreOK(t)'
  <2> SUFFICES ASSUME NEW b \in DOMAIN store[t]
               PROVE  /\ store[t][b].work = Total[b]
                      /\ store[t][b].final => Finalised(b, store[t][b].peaks)'
                      /\ ~ store[t][b].linked => store[t][b].final
    BY DEF StoreOK, Keeps, Finalised
  <2>1. b \in Hashes /\ /\ store[t][b].work = Total[b]
                        /\ store[t][b].final => Finalised(b, store[t][b].peaks)
                        /\ ~ store[t][b].linked => store[t][b].final
    BY DEF SyncOK, StoreOK, TypeOK
  <2>2. Shown(b) => Shown(b)'
    BY <2>1, ShownGrows DEF Shown, Grows
  <2> QED BY <2>1, <2>2 DEF Finalised, Sound, Keeps
<1>2. BaseOK(t)'
  BY DEF SyncOK, BaseOK, Keeps
<1>3. LoopOK(t)'
  BY DEF SyncOK, LoopOK, Keeps, Finished
<1> QED BY <1>1, <1>2, <1>3 DEF SyncOK

\* A Sync that returned knows nothing, and nothing false.
LEMMA ReturnedSync ==
  ASSUME TypeOK, NEW s \in Syncs, Return(s)
  PROVE  /\ SyncOK(s)'
         /\ \A t \in Syncs \ {s} : Keeps(t)
         /\ pc' \in [Syncs -> {"idle", "headers", "blocks", "again"}]
         /\ state' \in [Syncs -> SyncState]
         /\ DOMAIN store' = Syncs
         /\ \A t \in Syncs : /\ DOMAIN store'[t] \subseteq Hashes
                             /\ store'[t] \in [DOMAIN store'[t] -> VerifiedHeader]
         /\ tip' \in [Syncs -> Hashes \cup {NoHash}]
         /\ next' \in [Syncs -> Nat]
<1>1. /\ pc'[s] = "idle" /\ state'[s] = NoState /\ store'[s] = EmptyStore
      /\ \A t \in Syncs \ {s} : Keeps(t)
  BY DEF Return, TypeOK, Keeps
<1>2. DOMAIN EmptyStore = {} /\ EmptyStore \in [{} -> VerifiedHeader]
  BY DEF EmptyStore
<1>3. SyncOK(s)'
  BY <1>1, <1>2 DEF SyncOK, StoreOK, BaseOK, LoopOK
<1>4. NoState \in SyncState
  BY DEF NoState, SyncState
<1>5. /\ pc' \in [Syncs -> {"idle", "headers", "blocks", "again"}]
      /\ state' \in [Syncs -> SyncState]
      /\ DOMAIN store' = Syncs
      /\ tip' \in [Syncs -> Hashes \cup {NoHash}]
      /\ next' \in [Syncs -> Nat]
  BY <1>4 DEF Return, TypeOK
<1>6. \A t \in Syncs : /\ DOMAIN store'[t] \subseteq Hashes
                       /\ store'[t] \in [DOMAIN store'[t] -> VerifiedHeader]
  BY <1>1, <1>2 DEF TypeOK, Keeps
<1> QED BY <1>1, <1>3, <1>5, <1>6

\* A saved row stays good while it is kept and notes are added.
LEMMA KeptRow ==
  ASSUME SavedOK, saved' = saved, Grows
  PROVE  SavedOK'
<1> SUFFICES ASSUME saved # NoState
             PROVE  /\ saved.hash \in Hashes
                    /\ saved.work = Total[saved.hash]
                    /\ Finalised(saved.hash, saved.peaks)'
  BY DEF SavedOK, Finalised
<1>1. /\ saved.hash \in Hashes
      /\ saved.work = Total[saved.hash]
      /\ Finalised(saved.hash, saved.peaks)
  BY DEF SavedOK
<1>2. Shown(saved.hash) => Shown(saved.hash)'
  BY <1>1, ShownGrows DEF Shown, Grows
<1> QED BY <1>1, <1>2 DEF Finalised, Sound

-----------------------------------------------------------------------------
(* The steps of a Sync *)

\* A step that ends a Sync and saves nothing.
LEMMA ReturnStep ==
  ASSUME IInv, NEW s \in Syncs, Return(s), saved' = saved, notes' = notes,
         head' \in Hashes
  PROVE  IInv'
<1>1. TypeOK'
  BY ReturnedSync DEF IInv, TypeOK
<1>2. SavedOK' /\ NotesVerified'
  BY KeptRow DEF IInv, Grows, NotesVerified, Sound
<1>3. \A t \in Syncs : SyncOK(t)'
  BY ReturnedSync, KeptSync DEF IInv, Grows
<1> QED BY <1>1, <1>2, <1>3 DEF IInv

LEMMA StartStep ==
  ASSUME IInv, NEW s \in Syncs, Start(s)
  PROVE  IInv'
<1>1. /\ TypeOK /\ SavedOK /\ saved \in SyncState
  BY DEF IInv, TypeOK
<1>2. /\ pc'[s] = "headers" /\ state'[s] = saved /\ store'[s] = Seeded(saved)
      /\ \A t \in Syncs \ {s} : Keeps(t)
      /\ saved' = saved /\ notes' = notes
  BY <1>1 DEF Start, TypeOK, Keeps
<1>3. /\ DOMAIN Seeded(saved) \subseteq Hashes
      /\ Seeded(saved) \in [DOMAIN Seeded(saved) -> VerifiedHeader]
  <2>1. CASE saved = NoState
    BY <2>1 DEF Seeded, EmptyStore
  <2>2. CASE saved # NoState
    BY <1>1, <2>2 DEF Seeded, SavedOK, SyncState, VerifiedHeader
  <2> QED BY <2>1, <2>2
<1>4. TypeOK'
  <2>1. /\ pc' \in [Syncs -> {"idle", "headers", "blocks", "again"}]
        /\ state' \in [Syncs -> SyncState]
        /\ DOMAIN store' = Syncs
    BY <1>1 DEF Start, TypeOK
  <2>2. \A t \in Syncs : /\ DOMAIN store'[t] \subseteq Hashes
                         /\ store'[t] \in [DOMAIN store'[t] -> VerifiedHeader]
    BY <1>1, <1>2, <1>3 DEF TypeOK, Keeps
  <2> QED BY <1>1, <2>1, <2>2 DEF Start, TypeOK
<1>5. SyncOK(s)'
  <2>1. CASE saved = NoState
    <3>1. DOMAIN store'[s] = {}
      BY <1>2, <2>1 DEF Seeded, EmptyStore
    <3> QED BY <1>2, <2>1, <3>1 DEF SyncOK, StoreOK, BaseOK, LoopOK
  <2>2. CASE saved # NoState
    <3>1. /\ DOMAIN store'[s] = {saved.hash}
          /\ store'[s][saved.hash] = [linked |-> FALSE, work |-> saved.work,
                                      final |-> TRUE, peaks |-> saved.peaks]
      BY <1>2, <2>2 DEF Seeded
    <3>2. saved.work = Total[saved.hash] /\ Finalised(saved.hash, saved.peaks)'
      BY <1>1, <1>2, <2>2 DEF SavedOK, Finalised, Shown, Sound
    <3>3. StoreOK(s)'
      BY <1>2, <3>1, <3>2 DEF StoreOK, Finalised
    <3>4. BaseOK(s)' /\ LoopOK(s)'
      BY <1>2, <3>1, <3>2 DEF BaseOK, LoopOK
    <3> QED BY <3>3, <3>4 DEF SyncOK
  <2> QED BY <2>1, <2>2
<1>6. \A t \in Syncs : SyncOK(t)'
  BY <1>2, <1>5, KeptSync DEF IInv, Grows
<1>7. SavedOK' /\ NotesVerified'
  BY <1>2, KeptRow DEF IInv, Grows, NotesVerified, Sound
<1> QED BY <1>4, <1>6, <1>7 DEF IInv

\* A page of headers is a sequence of blocks.
LEMMA PageType ==
  ASSUME TypeOK, NEW s \in Syncs
  PROVE  /\ Range(Page(s)) \subseteq Hashes
         /\ Page(s) # <<>> => Page(s)[1] \in Hashes
<1> DEFINE last == IF next[s] + PageSize < Len(Chain[head])
                   THEN next[s] + PageSize ELSE Len(Chain[head])
<1>1. /\ head \in Hashes /\ next[s] \in Nat /\ Chain[head] \in Seq(Hashes)
      /\ Len(Chain[head]) \in Nat
  BY ConstantsType DEF TypeOK
<1>2. last \in Int /\ last =< Len(Chain[head]) /\ next[s] + 1 \in Int /\ next[s] + 1 > 0
  BY <1>1, ConstantsType
<1>3. \A i \in (next[s] + 1) .. last : Chain[head][i] \in Hashes
  <2> SUFFICES ASSUME NEW i \in (next[s] + 1) .. last PROVE Chain[head][i] \in Hashes
    OBVIOUS
  <2>1. i \in 1 .. Len(Chain[head])
    BY <1>1, <1>2
  <2> QED BY <1>1, <2>1
<1>4. Page(s) = SubSeq(Chain[head], next[s] + 1, last)
  BY DEF Page
<1> HIDE DEF last
<1>5. Page(s) \in Seq(Hashes)
  BY <1>2, <1>3, <1>4, SubSeqProperties
<1> QED BY <1>5 DEF Range

\* A page leaves the headers as good as they were.
LEMMA AppliedStore ==
  ASSUME IInv, NEW s \in Syncs, ~ Unlinked(s)
  PROVE  /\ DOMAIN store[s] \subseteq DOMAIN Applied(s)
         /\ DOMAIN Applied(s) \subseteq Hashes
         /\ Applied(s) \in [DOMAIN Applied(s) -> VerifiedHeader]
         /\ \A b \in DOMAIN Applied(s) :
              /\ Applied(s)[b].work = Total[b]
              /\ Applied(s)[b].final => Finalised(b, Applied(s)[b].peaks)
              /\ ~ Applied(s)[b].linked => Applied(s)[b].final
<1> DEFINE st == store[s]
           page == Page(s)
           first == page[1]
           parent == Parent(st, first)
           new == ApplyHeaders(st, page)
<1>1. /\ TypeOK /\ DOMAIN st \subseteq Hashes /\ st \in [DOMAIN st -> VerifiedHeader]
      /\ StoreOK(s)
  BY DEF IInv, TypeOK, SyncOK
<1>2. CASE page = <<>>
  BY <1>1, <1>2 DEF Applied, StoreOK
<1>3. CASE page # <<>>
  <2>1. first \in Hashes /\ Range(page) \subseteq Hashes /\ Links(st, first)
    BY <1>1, <1>3, PageType DEF Unlinked
  <2>2. parent.work = parent.total /\ parent.total \in Nat /\ parent.peaks \in Seq(Hashes)
    <3>1. CASE first = Genesis
      BY <3>1 DEF Parent
    <3>2. CASE first # Genesis
      <4>1. Prev(first) \in DOMAIN st /\ Prev(first) \in Hashes
        BY <1>1, <2>1, <3>2 DEF Links
      <4>2. st[Prev(first)].work = Total[Prev(first)] /\ st[Prev(first)].peaks \in Seq(Hashes)
        BY <1>1, <4>1 DEF StoreOK, VerifiedHeader
      <4> QED BY <3>2, <4>1, <4>2, ConstantsType DEF Parent
    <3> QED BY <3>1, <3>2
  <2>3. Applied(s) = new /\ DOMAIN new = DOMAIN st \cup Range(page)
    BY <1>3 DEF Applied, ApplyHeaders
  <2>4. ASSUME NEW b \in Range(page)
        PROVE  /\ new[b] \in VerifiedHeader
               /\ new[b].work = Total[b] /\ new[b].linked /\ ~ new[b].final
    <3>1. new[b] = [linked |-> TRUE, final |-> FALSE, peaks |-> parent.peaks,
                    work |-> parent.work + (Total[b] - parent.total)]
      BY DEF ApplyHeaders
    <3>2. Total[b] \in Nat
      BY <2>1, ConstantsType
    <3> HIDE DEF parent, new
    <3>3. parent.work + (Total[b] - parent.total) = Total[b]
      BY <2>2, <3>2
    <3> QED BY <2>2, <3>1, <3>2, <3>3 DEF VerifiedHeader
  <2>5. ASSUME NEW b \in DOMAIN st, b \notin Range(page)
        PROVE  new[b] = st[b]
    BY <2>5 DEF ApplyHeaders
  <2>6. new \in [DOMAIN new -> VerifiedHeader]
    <3>1. new = [b \in DOMAIN new |-> new[b]]
      BY DEF ApplyHeaders
    <3> HIDE DEF new
    <3>2. \A b \in DOMAIN new : new[b] \in VerifiedHeader
      BY <1>1, <2>3, <2>4, <2>5
    <3> QED BY <3>1, <3>2
  <2> HIDE DEF new
  <2> QED BY <1>1, <2>1, <2>3, <2>4, <2>5, <2>6 DEF StoreOK
<1> QED BY <1>2, <1>3

\* A step that only takes over the headers of a page and moves on.
LEMMA HeadersStep ==
  ASSUME IInv, NEW s \in Syncs, FetchHeaders(s) \/ FetchLastHeaders(s)
  PROVE  IInv'
<1>1. /\ TypeOK /\ ~ Unlinked(s) /\ pc[s] = "headers"
      /\ store' = [store EXCEPT ![s] = Applied(s)]
      /\ state' = state /\ saved' = saved /\ notes' = notes
      /\ head' = head
      /\ BaseOK(s)
  BY DEF IInv, FetchHeaders, FetchLastHeaders, SyncOK
<1>2. /\ store'[s] = Applied(s) /\ DOMAIN store' = Syncs
      /\ \A t \in Syncs \ {s} : store'[t] = store[t]
  BY <1>1 DEF TypeOK
<1>3. StoreOK(s)'
  BY <1>1, <1>2, AppliedStore DEF StoreOK, Finalised, Sound, Shown
<1>4. BaseOK(s)'
  BY <1>1, <1>2, AppliedStore DEF BaseOK
<1>5. \A t \in Syncs : /\ DOMAIN store'[t] \subseteq Hashes
                       /\ store'[t] \in [DOMAIN store'[t] -> VerifiedHeader]
  BY <1>1, <1>2, AppliedStore DEF TypeOK
<1>6. /\ SyncOK(s)' /\ \A t \in Syncs \ {s} : Keeps(t)
      /\ pc' \in [Syncs -> {"idle", "headers", "blocks", "again"}]
      /\ tip' \in [Syncs -> Hashes \cup {NoHash}]
      /\ next' \in [Syncs -> Nat]
  <2>1. CASE FetchHeaders(s)
    <3>1. /\ pc' = pc /\ tip' = tip
          /\ next' = [next EXCEPT ![s] = next[s] + PageSize]
      BY <2>1 DEF FetchHeaders
    <3>2. LoopOK(s)'
      BY <1>1, <3>1 DEF LoopOK
    <3>3. next' \in [Syncs -> Nat]
      BY <1>1, <3>1, ConstantsType DEF TypeOK
    <3>4. \A t \in Syncs \ {s} : next'[t] = next[t]
      BY <1>1, <3>1 DEF TypeOK
    <3> QED BY <1>1, <1>2, <1>3, <1>4, <3>1, <3>2, <3>3, <3>4 DEF SyncOK, Keeps, TypeOK
  <2>2. CASE FetchLastHeaders(s)
    <3>1. PICK b \in DOMAIN Applied(s) :
            IsBest(Applied(s), b) /\ tip' = [tip EXCEPT ![s] = b]
      BY <2>2 DEF FetchLastHeaders
    <3>2. /\ pc' = [pc EXCEPT ![s] = "blocks"] /\ next' = [next EXCEPT ![s] = 0]
      BY <2>2 DEF FetchLastHeaders, FirstHeight
    <3>3. pc'[s] = "blocks" /\ tip'[s] = b /\ next'[s] = 0 /\ b \in Hashes
      BY <1>1, <3>1, <3>2, AppliedStore DEF TypeOK
    <3>4. LoopOK(s)'
      BY <1>2, <3>1, <3>3 DEF LoopOK
    <3>5. /\ pc' \in [Syncs -> {"idle", "headers", "blocks", "again"}]
          /\ tip' \in [Syncs -> Hashes \cup {NoHash}]
          /\ next' \in [Syncs -> Nat]
      BY <1>1, <3>1, <3>2, <3>3 DEF TypeOK
    <3>6. \A t \in Syncs \ {s} : pc'[t] = pc[t] /\ tip'[t] = tip[t] /\ next'[t] = next[t]
      BY <1>1, <3>1, <3>2 DEF TypeOK
    <3> QED BY <1>1, <1>2, <1>3, <1>4, <3>4, <3>5, <3>6 DEF SyncOK, Keeps
  <2> QED BY <2>1, <2>2
<1>7. \A t \in Syncs : SyncOK(t)'
  BY <1>1, <1>6, KeptSync DEF IInv, Grows
<1>8. TypeOK'
  BY <1>1, <1>2, <1>5, <1>6 DEF TypeOK
<1>9. SavedOK' /\ NotesVerified'
  BY <1>1, KeptRow DEF IInv, Grows, NotesVerified, Sound
<1> QED BY <1>7, <1>8, <1>9 DEF IInv

\* A height without an active header asks nothing of the loop.
LEMMA SkipStep ==
  ASSUME IInv, NEW s \in Syncs, SkipHeight(s)
  PROVE  IInv'
<1>1. /\ TypeOK /\ SyncOK(s) /\ next[s] \in Nat /\ pc[s] = "blocks"
      /\ ~ HasActiveAt(store[s], tip[s], next[s])
      /\ next' = [next EXCEPT ![s] = next[s] + 1]
      /\ UNCHANGED <<head, saved, notes, pc, state, store, tip>>
  BY DEF IInv, TypeOK, SkipHeight
<1>2. next'[s] = next[s] + 1 /\ \A t \in Syncs \ {s} : next'[t] = next[t]
  BY <1>1 DEF TypeOK
<1>3. LoopOK(s)'
  <2> SUFFICES ASSUME NEW k \in 0 .. Height(tip[s]), k < next[s] + 1,
                      HasActiveAt(store[s], tip[s], k)
               PROVE  store[s][Chain[tip[s]][k + 1]].final
    BY <1>1, <1>2 DEF SyncOK, LoopOK
  <2>1. k # next[s] /\ k \in Int
    BY <1>1
  <2>2. k < next[s]
    BY <1>1, <2>1
  <2> QED BY <1>1, <2>2 DEF SyncOK, LoopOK
<1>4. SyncOK(s)'
  BY <1>1, <1>3 DEF SyncOK, StoreOK, BaseOK, Finalised, Shown, Sound
<1>5. \A t \in Syncs : SyncOK(t)'
  BY <1>1, <1>2, <1>4, KeptSync DEF IInv, Grows, Keeps
<1>6. TypeOK'
  BY <1>1 DEF TypeOK
<1>7. SavedOK' /\ NotesVerified'
  BY <1>1, KeptRow DEF IInv, Grows, NotesVerified, Sound
<1> QED BY <1>5, <1>6, <1>7 DEF IInv

\* A block that verifies is finalised, and its note joins the others.
LEMMA FetchStep ==
  ASSUME IInv, NEW s \in Syncs, FetchBlock(s)
  PROVE  IInv'
<1> DEFINE st == store[s]
           b == Current(s)
           new == FinalizeBlock(st, b)
<1>1. /\ TypeOK /\ SyncOK(s) /\ next[s] \in Nat /\ tip[s] \in DOMAIN st
      /\ DOMAIN st \subseteq Hashes /\ st \in [DOMAIN st -> VerifiedHeader]
      /\ pc[s] = "blocks" /\ NotesVerified
      /\ store' = [store EXCEPT ![s] = new]
      /\ notes' = Ingest(b)
      /\ next' = [next EXCEPT ![s] = next[s] + 1]
      /\ UNCHANGED <<head, saved, pc, state, tip>>
  BY DEF IInv, TypeOK, FetchBlock, SyncOK, LoopOK
<1>2. /\ b \in DOMAIN st /\ b \in Hashes /\ Height(b) = next[s]
      /\ Sound(b) /\ new[b].peaks = Chain[b]
      /\ ~ st[b].final /\ b # Genesis => Shown(Prev(b))
  BY <1>1, AcceptedBlock DEF FetchBlock
<1>3. /\ store'[s] = new /\ next'[s] = next[s] + 1 /\ DOMAIN store' = Syncs
      /\ \A t \in Syncs \ {s} : Keeps(t)
  BY <1>1 DEF TypeOK, Keeps
<1>4. /\ notes' \in [Notes -> Hashes \cup {NoHash}] /\ Grows /\ NotesVerified'
      /\ NoteIn[b] # NoNote => notes'[NoteIn[b]] # NoHash
  <2>1. b # NoHash /\ NoteIn[b] \in Notes \cup {NoNote}
    BY <1>2, ConstantsType, HeadersAssumption DEF HeadersAssumption
  <2>2. \A n \in Notes :
          notes'[n] = IF n = NoteIn[b] /\ notes[n] = NoHash THEN b ELSE notes[n]
    BY <1>1 DEF Ingest
  <2>3. notes' \in [Notes -> Hashes \cup {NoHash}]
    BY <1>1, <1>2 DEF Ingest, TypeOK
  <2>4. NotesVerified'
    BY <1>1, <1>2, <2>2 DEF NotesVerified, Sound
  <2>5. Grows
    BY <2>2 DEF Grows
  <2>6. NoteIn[b] # NoNote => notes'[NoteIn[b]] # NoHash
    BY <2>1, <2>2
  <2> QED BY <2>3, <2>4, <2>5, <2>6
<1>5. /\ DOMAIN new = DOMAIN st /\ new[b].final
      /\ \A c \in DOMAIN st : /\ new[c].work = st[c].work /\ new[c].linked = st[c].linked
                              /\ c # b => new[c] = st[c]
      /\ new \in [DOMAIN new -> VerifiedHeader]
  <2>1. CASE st[b].final
    BY <1>1, <2>1 DEF FinalizeBlock
  <2>2. CASE ~ st[b].final
    <3>1. new = [st EXCEPT ![b].final = TRUE, ![b].peaks = GrownPeaks(st, b)]
      BY <2>2 DEF FinalizeBlock
    <3>2. GrownPeaks(st, b) \in Seq(Hashes)
      <4>1. new[b].peaks = GrownPeaks(st, b)
        BY <1>1, <1>2, <3>1 DEF VerifiedHeader
      <4> QED BY <1>2, <4>1, ConstantsType
    <3> HIDE DEF new
    <3> QED BY <1>1, <1>2, <3>1, <3>2 DEF VerifiedHeader
  <2> QED BY <2>1, <2>2
<1> HIDE DEF new
<1>6. StoreOK(s)'
  <2>1. ASSUME NEW c \in DOMAIN st
        PROVE  /\ new[c].work = Total[c]
               /\ new[c].final => /\ Sound(c) /\ new[c].peaks = Chain[c]
                                  /\ ShownIn(notes', c)
               /\ ~ new[c].linked => new[c].final
    <3>1. /\ st[c].work = Total[c]
          /\ st[c].final => Finalised(c, st[c].peaks)
          /\ ~ st[c].linked => st[c].final
          /\ c \in Hashes
      BY <1>1 DEF SyncOK, StoreOK
    <3>2. ShownIn(notes, c) => ShownIn(notes', c)
      BY <1>4, <3>1, ShownGrows DEF Grows
    <3>3. CASE c # b
      BY <1>5, <3>1, <3>2, <3>3 DEF Finalised, Shown
    <3>4. CASE c = b
      <4>1. CASE st[c].final
        BY <1>2, <1>5, <3>1, <3>2, <3>4, <4>1 DEF Finalised, Shown
      <4>2. CASE ~ st[c].final
        <5>1. c # Genesis => ShownIn(notes', Prev(c))
          <6> SUFFICES ASSUME c # Genesis PROVE ShownIn(notes', Prev(c))
            OBVIOUS
          <6>1. Prev(c) \in Hashes
            BY <3>1, ParentChain
          <6>2. ShownIn(notes, Prev(c))
            BY <1>2, <3>4, <4>2 DEF Shown
          <6> QED BY <1>4, <6>1, <6>2, ShownGrows DEF Grows
        <5>2. NoteIn[c] # NoNote => notes'[NoteIn[c]] # NoHash
          BY <1>4, <3>4
        <5>3. ShownIn(notes', c)
          BY <3>1, <5>1, <5>2, ShownChild
        <5> QED BY <1>2, <1>5, <3>1, <3>4, <5>3
      <4> QED BY <4>1, <4>2
    <3> QED BY <3>3, <3>4
  <2>2. DOMAIN store'[s] = DOMAIN st /\ store'[s] = new
    BY <1>3, <1>5
  <2> QED BY <2>1, <2>2 DEF StoreOK, Finalised, Sound, Shown
<1>7. LoopOK(s)'
  <2>1. IsBest(store[s], tip[s]) => IsBest(new, tip[s])
    BY <1>1, <1>5 DEF IsBest
  <2>2. ASSUME NEW k \in 0 .. Height(tip[s]), k < next[s] + 1,
               HasActiveAt(new, tip[s], k)
        PROVE  new[Chain[tip[s]][k + 1]].final
    <3>1. CASE k = next[s]
      BY <1>5, <3>1 DEF Current
    <3>2. CASE k # next[s]
      <4>1. k < next[s]
        BY <1>1, <2>2, <3>2
      <4>2. /\ HasActiveAt(st, tip[s], k)
            /\ Chain[tip[s]][k + 1] \in DOMAIN st
        <5>1. HasActiveAt(st, tip[s], k)
          BY <1>5, <2>2 DEF HasActiveAt
        <5>2. k + 1 \in (k + 1) .. Len(Chain[tip[s]])
          <6>1. tip[s] \in Hashes /\ Len(Chain[tip[s]]) \in Nat
            BY <1>1, ConstantsType
          <6> QED BY <6>1 DEF Height
        <5> QED BY <5>1, <5>2 DEF HasActiveAt
      <4>3. st[Chain[tip[s]][k + 1]].final
        BY <1>1, <4>1, <4>2 DEF SyncOK, LoopOK
      <4> QED BY <1>5, <4>2, <4>3
    <3> QED BY <3>1, <3>2
  <2> QED BY <1>1, <1>3, <1>5, <2>1, <2>2 DEF SyncOK, LoopOK
<1>8. SyncOK(s)'
  BY <1>1, <1>3, <1>5, <1>6, <1>7 DEF SyncOK, BaseOK
<1>9. \A t \in Syncs : SyncOK(t)'
  BY <1>1, <1>3, <1>4, <1>8, KeptSync DEF IInv
<1>10. TypeOK'
  <2>1. \A t \in Syncs : /\ DOMAIN store'[t] \subseteq Hashes
                         /\ store'[t] \in [DOMAIN store'[t] -> VerifiedHeader]
    BY <1>1, <1>3, <1>5 DEF TypeOK, Keeps
  <2>2. next' \in [Syncs -> Nat]
    BY <1>1 DEF TypeOK
  <2> QED BY <1>1, <1>3, <1>4, <2>1, <2>2 DEF TypeOK
<1>11. SavedOK'
  BY <1>1, <1>4, KeptRow DEF IInv
<1> QED BY <1>4, <1>9, <1>10, <1>11 DEF IInv

\* When the loop is over the tip is finalised, so the saved row is good.
LEMMA SavedRow ==
  ASSUME TypeOK, NEW s \in Syncs, SyncOK(s), pc[s] \in {"blocks", "again"},
         Finished(s), PersistActiveTip(s), notes' = notes
  PROVE  SavedOK' /\ saved' \in SyncState
<1> DEFINE st == store[s]
           t == tip[s]
<1>1. /\ t \in DOMAIN st /\ t \in Hashes /\ next[s] \in Nat
      /\ st \in [DOMAIN st -> VerifiedHeader] /\ StoreOK(s)
      /\ \A k \in 0 .. Height(t) :
           k < next[s] /\ HasActiveAt(st, t, k) => st[Chain[t][k + 1]].final
  BY DEF SyncOK, LoopOK, TypeOK
<1>2. /\ Height(t) \in Nat /\ Len(Chain[t]) \in Nat /\ Height(t) + 1 = Len(Chain[t])
      /\ Chain[t][Len(Chain[t])] = t
  BY <1>1, ConstantsType, ChainEnds DEF Height
<1>3. HasActiveAt(st, t, Height(t))
  <2>1. \A i \in (Height(t) + 1) .. Len(Chain[t]) : Chain[t][i] = t
    BY <1>2
  <2>2. \A i \in (Height(t) + 2) .. Len(Chain[t]) : FALSE
    BY <1>2
  <2> QED BY <1>1, <2>1, <2>2 DEF HasActiveAt
<1>4. st[t].final
  <2>1. Height(t) \in 0 .. Height(t) /\ Height(t) < next[s]
    BY <1>1, <1>2 DEF Finished
  <2> QED BY <1>1, <1>2, <1>3, <2>1
<1>5. st[t].work = Total[t] /\ Finalised(t, st[t].peaks)
  BY <1>1, <1>4 DEF StoreOK
<1>6. saved' = [hash |-> t, work |-> st[t].work, peaks |-> st[t].peaks]
  BY DEF PersistActiveTip
<1>7. saved' \in SyncState
  BY <1>1, <1>6 DEF SyncState, VerifiedHeader
<1>8. SavedOK'
  BY <1>1, <1>5, <1>6 DEF SavedOK, Finalised, Sound, Shown
<1> QED BY <1>7, <1>8

LEMMA PersistStep ==
  ASSUME IInv, NEW s \in Syncs, Persist(s)
  PROVE  IInv'
<1>1. /\ TypeOK /\ SyncOK(s) /\ pc[s] = "blocks" /\ Finished(s) /\ PersistActiveTip(s)
      /\ pc' = [pc EXCEPT ![s] = "again"]
      /\ UNCHANGED <<head, notes, state, store, tip, next>>
  BY DEF IInv, Persist
<1>2. SavedOK' /\ saved' \in SyncState
  BY <1>1, SavedRow
<1>3. pc'[s] = "again" /\ \A t \in Syncs \ {s} : pc'[t] = pc[t]
  BY <1>1 DEF TypeOK
<1>4. SyncOK(s)'
  BY <1>1, <1>3 DEF SyncOK, StoreOK, BaseOK, LoopOK, Finished, Finalised, Shown, Sound
<1>5. \A t \in Syncs : SyncOK(t)'
  BY <1>1, <1>3, <1>4, KeptSync DEF IInv, Grows, Keeps
<1>6. TypeOK'
  BY <1>1, <1>2 DEF TypeOK
<1>7. NotesVerified'
  BY <1>1 DEF IInv, NotesVerified, Sound
<1> QED BY <1>2, <1>5, <1>6, <1>7 DEF IInv

LEMMA PersistAgainStep ==
  ASSUME IInv, NEW s \in Syncs, PersistAgain(s)
  PROVE  IInv'
<1>1. /\ TypeOK /\ SyncOK(s) /\ pc[s] = "again" /\ Finished(s)
      /\ PersistActiveTip(s) /\ Return(s) /\ UNCHANGED <<head, notes>>
  BY DEF IInv, PersistAgain, SyncOK, LoopOK
<1>2. SavedOK' /\ saved' \in SyncState
  BY <1>1, SavedRow
<1>3. \A t \in Syncs : SyncOK(t)'
  BY <1>1, ReturnedSync, KeptSync DEF IInv, Grows
<1>4. TypeOK'
  BY <1>1, <1>2, ReturnedSync DEF TypeOK
<1>5. NotesVerified'
  BY <1>1 DEF IInv, NotesVerified, Sound
<1> QED BY <1>2, <1>3, <1>4, <1>5 DEF IInv

\* The server moves, or nothing does.
LEMMA ServerStep ==
  ASSUME IInv, Grow \/ Fall \/ UNCHANGED vars
  PROVE  IInv'
<1>1. /\ TypeOK /\ head' \in Hashes
      /\ UNCHANGED <<saved, notes, pc, state, store, tip, next>>
  BY DEF IInv, TypeOK, Grow, Fall, vars
<1>2. \A t \in Syncs : SyncOK(t)'
  BY <1>1, KeptSync DEF IInv, Grows, Keeps
<1>3. SavedOK' /\ NotesVerified'
  BY <1>1, KeptRow DEF IInv, Grows, NotesVerified, Sound
<1> QED BY <1>1, <1>2, <1>3 DEF IInv, TypeOK

-----------------------------------------------------------------------------
(* The theorems *)

LEMMA InitIInv == Init => IInv
<1> SUFFICES ASSUME Init PROVE IInv
  OBVIOUS
<1>1. NoState \in SyncState
  BY DEF NoState, SyncState
<1>2. DOMAIN EmptyStore = {} /\ EmptyStore \in [{} -> VerifiedHeader]
  BY DEF EmptyStore
<1>3. TypeOK
  BY <1>1, <1>2, HeadersAssumption DEF Init, TypeOK, HeadersAssumption
<1>4. SavedOK /\ NotesVerified
  BY DEF Init, SavedOK, NotesVerified
<1>5. \A s \in Syncs : SyncOK(s)
  BY <1>2 DEF Init, SyncOK, StoreOK, BaseOK, LoopOK
<1> QED BY <1>3, <1>4, <1>5 DEF IInv

LEMMA NextIInv == IInv /\ [Next]_vars => IInv'
<1> SUFFICES ASSUME IInv, [Next]_vars PROVE IInv'
  OBVIOUS
<1>1. CASE Grow \/ Fall \/ UNCHANGED vars
  BY <1>1, ServerStep
<1>2. ASSUME NEW s \in Syncs, Step(s)
      PROVE  IInv'
  <2>1. head \in Hashes
    BY DEF IInv, TypeOK
  <2>2. CASE Start(s)
    BY <2>2, StartStep
  <2>3. CASE FetchHeaders(s) \/ FetchLastHeaders(s)
    BY <2>3, HeadersStep
  <2>4. CASE RejectHeaders(s) \/ RejectBlock(s)
    BY <2>1, <2>4, ReturnStep DEF RejectHeaders, RejectBlock
  <2>5. CASE SkipHeight(s)
    BY <2>5, SkipStep
  <2>6. CASE FetchBlock(s)
    BY <2>6, FetchStep
  <2>7. CASE Persist(s)
    BY <2>7, PersistStep
  <2>8. CASE PersistAgain(s)
    BY <2>8, PersistAgainStep
  <2> QED BY <1>2, <2>2, <2>3, <2>4, <2>5, <2>6, <2>7, <2>8 DEF Step
<1>3. ASSUME NEW s \in Syncs, Stop(s)
      PROVE  IInv'
  <2>1. head' \in Hashes
    BY <1>3, HeadersAssumption DEF IInv, TypeOK, Stop, HeadersAssumption
  <2> QED BY <1>3, <2>1, ReturnStep DEF Stop
<1> QED BY <1>1, <1>2, <1>3 DEF Next

\* The inductive invariant is an invariant.
THEOREM IInvariant == Spec => []IInv
BY InitIInv, NextIInv, PTL DEF Spec

\* The variables keep their types: every header a Sync keeps is a verified
\* header of a block, and the saved row is one SaveSyncState can have written.
THEOREM TypeInvariant == Spec => []TypeOK
<1>1. IInv => TypeOK
  BY DEF IInv
<1> QED BY <1>1, IInvariant, PTL

\* What persistActiveTip saves is always a chain that FinalizeBlock verified
\* from the genesis on, with its leaves as peaks and its work: however many
\* Syncs run, however the server forks, and whatever they resumed from.
THEOREM SavedTheorem == Spec => []SavedIsChain
<1>1. IInv => SavedIsChain
  BY DEF IInv, SavedOK, Finalised, SavedIsChain
<1> QED BY <1>1, IInvariant, PTL

\* finalizeActiveChain leaves out no note of the chain it saves, although it
\* restarts at the genesis with a store that knows only the tip it resumes.
THEOREM CompletenessTheorem == Spec => []NotesComplete
<1>1. IInv => NotesComplete
  BY DEF IInv, SavedOK, Finalised, Shown, ShownIn, NotesComplete
<1> QED BY <1>1, IInvariant, PTL

\* ingestBlockNote shows no note of a block that is not verified with all the
\* blocks before it.
THEOREM VerifiedTheorem == Spec => []NotesVerified
<1>1. IInv => NotesVerified
  BY DEF IInv
<1> QED BY <1>1, IInvariant, PTL

\* What a Sync saves is at least as good as the row it resumed from, because
\* that row is among the headers its tip was selected from.
THEOREM BestTheorem == Spec => NeverWorse
<1>1. ASSUME IInv, NEW s \in Syncs, Persist(s) \/ PersistAgain(s)
      PROVE  ~ Better(state[s], saved')
  <2> DEFINE st == store[s]
             t == tip[s]
             row == state[s]
  <2>1. /\ t \in DOMAIN st /\ t \in Hashes /\ IsBest(st, t)
        /\ \A b \in DOMAIN st : st[b].work = Total[b]
        /\ row # NoState => row.hash \in DOMAIN st /\ row.work = Total[row.hash]
    BY <1>1 DEF IInv, TypeOK, SyncOK, LoopOK, StoreOK, BaseOK, Persist, PersistAgain
  <2>2. saved'.hash = t /\ saved'.work = Total[t]
    BY <1>1, <2>1 DEF Persist, PersistAgain, PersistActiveTip
  <2>3. t \in Nat /\ t > 0 /\ Total[t] \in Nat
    BY <2>1, ConstantsType
  <2>4. CASE row = NoState
    BY <2>2, <2>3, <2>4 DEF Better, NoState, NoHash
  <2>5. CASE row # NoState
    <3>1. row.hash \in Hashes
      BY <1>1, <2>1, <2>5 DEF IInv, TypeOK
    <3>2. row.hash \in Nat /\ Total[row.hash] \in Nat
      BY <3>1, ConstantsType
    <3>3. CASE row.hash = t
      BY <2>1, <2>2, <2>3, <2>5, <3>3 DEF Better
    <3>4. CASE row.hash # t
      <4>1. SelectBestChain(Total[t], t, Total[row.hash], row.hash)
        BY <2>1, <2>5, <3>4 DEF IsBest
      <4> QED BY <2>1, <2>2, <2>3, <2>5, <3>2, <4>1 DEF Better, SelectBestChain
    <3> QED BY <3>3, <3>4
  <2> QED BY <2>4, <2>5
<1>2. IInv => [\A s \in Syncs :
                 Persist(s) \/ PersistAgain(s) => ~ Better(state[s], saved')]_vars
  BY <1>1
<1> QED BY <1>2, IInvariant, PTL DEF NeverWorse
=============================================================================
