----------------------------- MODULE MCHeaders -----------------------------
(***************************************************************************)
(* A tree of blocks for HeadersFirst: the genesis 1 has a branch of two    *)
(* light blocks, 2 and 3, and a branch of one heavy block, 4, whose note   *)
(* was submitted to both branches; and 5 on 4, the heaviest, is served     *)
(* with an mmr_root that is not its chain's. In EvenTotal 3 and 4 weigh    *)
(* the same and the greater hash decides; in HeavyTotal 4 weighs more.     *)
(***************************************************************************)
EXTENDS HeadersFirst

CONSTANTS n1, n2, n3

MCGenesis == 1
MCNotes == {n1, n2, n3}
MCHashes == 1 .. 5
MCChain == <<<<1>>, <<1, 2>>, <<1, 2, 3>>, <<1, 4>>, <<1, 4, 5>>>>
EvenTotal == <<1, 2, 3, 3, 9>>
HeavyTotal == <<1, 2, 3, 4, 9>>
MCBodyRoot == [MCChain EXCEPT ![5] = <<1, 5>>]
MCNoteIn == <<NoNote, n1, n2, n1, n3>>
=============================================================================
