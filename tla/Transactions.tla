---------------------------- MODULE Transactions ----------------------------
(***************************************************************************)
(* The transactions of a Snapnotes stream, as far as the server tells them *)
(* apart (internal/protocol/transaction.go, membership.go).                *)
(*                                                                         *)
(* A BODY is what the author signs. Its transaction id is the hash of its  *)
(* canonical encoding, so equal ids mean equal bodies. A TRANSACTION is a  *)
(* body with the proof-of-work epoch it was mined for: mining the same     *)
(* body again gives another transaction with the same id.                  *)
(*                                                                         *)
(* Signatures and proofs of work are checked by the handler before any     *)
(* state is read, so only transactions that pass are represented.          *)
(***************************************************************************)
EXTENDS Integers, Sequences, FiniteSets

CONSTANTS
  Bodies,          \* the bodies that clients of the stream may submit
  TxIds,           \* transaction ids
  Keys,            \* Ed25519 signing keys
  Owner,           \* the signing key of the stream's owner, fixed by genesis
  InitialKeys,     \* further keys the server was configured to accept
  Devices,         \* device ids a member_add may enrol
  OwnerDevice,     \* a grant to the owner's own encryption key
  Notes,           \* note ids
  InitialKeyEpoch, \* genesis initial_key_epoch
  PowEpochs,       \* the values of pow_epoch that clients mine for
  PowEpochLength,  \* 1000 in the code
  Genesis,         \* the genesis transaction
  NoKey, NoNote, NoDevice, NoTx

OwnerOperations == {"member_add", "key_grant", "key_rotation_bundle"}

\* "genesis" stands for every operation type tryAccept has no case for.
Operations == OwnerOperations \union {"create", "genesis"}

(***************************************************************************)
(* A field that an operation does not use holds the No... value. epoch is  *)
(* the key_epoch of a create and the new_key_epoch of a bundle; key is the *)
(* enrolled signing key of a member_add and the revoked one of a bundle;   *)
(* wellFormed says that the operation payload decodes and its lengths are  *)
(* right.                                                                  *)
(***************************************************************************)
Body ==
  [id : TxIds, op : Operations, author : Keys, note : Notes \union {NoNote},
   epoch : Nat, device : Devices \union {NoDevice},
   key : Keys \union {NoKey}, grants : Seq(Devices \union {OwnerDevice}),
   wellFormed : BOOLEAN]

Tx == [body : Bodies, pow : PowEpochs]

(***************************************************************************)
(* What a leaf of the chain commits to: a transaction or genesis.          *)
(***************************************************************************)
Leaf == Tx \union {Genesis}

ASSUME TransactionsAssumption ==
  /\ Bodies \subseteq Body
  \* transaction_id is a collision-resistant hash of the body
  /\ \A b, c \in Bodies : b.id = c.id => b = c
  /\ \A b \in Bodies : b.op = "create" => b.note \in Notes
  /\ \A b \in Bodies : b.op = "member_add" => b.device \in Devices /\ b.key \in Keys
  /\ \A b \in Bodies : b.op = "key_rotation_bundle" => b.key \in Keys
  /\ Owner \in Keys
  /\ InitialKeys \subseteq Keys
  /\ NoKey \notin Keys
  /\ NoNote \notin Notes
  /\ NoDevice \notin Devices
  /\ OwnerDevice \notin Devices
  /\ InitialKeyEpoch \in Nat
  /\ PowEpochs \subseteq Nat
  /\ PowEpochLength \in Nat \ {0}
  /\ NoTx \notin Tx
  /\ Genesis \notin Tx

=============================================================================
