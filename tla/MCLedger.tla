------------------------------ MODULE MCLedger ------------------------------
(***************************************************************************)
(* Instances of LedgerLog for TLC: an owner, one more device, two notes.   *)
(***************************************************************************)
EXTENDS LedgerLog, TLC

CONSTANTS owner, k1, k2, d1, n1, n2, h1, h2

MCKeys == {owner, k1, k2}
MCDevices == {d1}
MCNotes == {n1, n2}

B(id, op, author) ==
  [id |-> id, op |-> op, author |-> author, note |-> NoNote, epoch |-> 0,
   device |-> NoDevice, key |-> NoKey, grants |-> <<>>, wellFormed |-> TRUE]

Create(id, author, note, epoch) ==
  [B(id, "create", author) EXCEPT !.note = note, !.epoch = epoch]

Enrol(id, device, key) ==
  [B(id, "member_add", owner) EXCEPT !.device = device, !.key = key]

Bundle(id, revoked, epoch, grants) ==
  [B(id, "key_rotation_bundle", owner) EXCEPT
     !.key = revoked, !.epoch = epoch, !.grants = grants]

AddD1 == Enrol("addD1", d1, k1)
OwnNote == Create("ownNote", owner, n1, 1)
SameNote == Create("sameNote", k1, n1, 1)
OldNote == Create("oldNote", k1, n2, 1)
LateNote == Create("lateNote", k1, n2, 2)
Revoke == Bundle("revoke", k1, 2, <<OwnerDevice>>)
Regrant == Bundle("regrant", k1, 2, <<d1, OwnerDevice>>)
RevokeOwner == Bundle("revokeOwner", owner, 3, <<OwnerDevice>>)
Grant == B("grant", "key_grant", owner)
OtherD1 == Enrol("otherD1", d1, k2)

FaultBodies == {AddD1, OwnNote, SameNote, LateNote, Revoke, Regrant, RevokeOwner}
CarefulBodies == {AddD1, OwnNote, OldNote, LateNote, Grant, Revoke, Regrant}
ReenrolBodies == {AddD1, OtherD1, OwnNote}
NoteBodies == {AddD1, OwnNote, OldNote}
RevokedBodies == {AddD1, OwnNote, LateNote, Revoke}

IdsOf(bodies) == {b.id : b \in bodies}
AllIds == {"addD1", "ownNote", "sameNote", "oldNote", "lateNote",
           "revoke", "regrant", "revokeOwner", "grant", "otherD1"}

None == {}
CarefulWatched == {"oldNote"}

HandlerSymmetry == Permutations(Handlers)
=============================================================================
