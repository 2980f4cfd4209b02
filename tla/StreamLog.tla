----------------------------- MODULE StreamLog ------------------------------
(***************************************************************************)
(* What the server promises of a stream: one append-only log of            *)
(* transactions, each checked against the memberships that the log itself  *)
(* established, and acknowledged only once it is in the log. The right to  *)
(* write is checked when a transaction arrives and everything else when it *)
(* is appended, so that a revocation reaches all that arrives after it and *)
(* not what is under way. There is no memory and no disk here, no handler  *)
(* and no crash, and nothing is ever undone.                               *)
(***************************************************************************)
EXTENDS Transactions

VARIABLES
  log,        \* the accepted transactions, genesis not included
  authorized, \* the keys that may write
  members,    \* the enrolled devices and their signing keys
  keyEpoch,   \* the epoch of the current stream key
  admitted,   \* the transactions under way, each of an author who might write
  acked       \* ids of acknowledged transactions

vars == <<log, authorized, members, keyEpoch, admitted, acked>>

Init ==
  /\ log = <<>>
  /\ authorized = {Owner} \union InitialKeys
  /\ members = [d \in Devices |-> NoKey]
  /\ keyEpoch = InitialKeyEpoch
  /\ admitted = {}
  /\ acked = {}

Arrive(t) ==
  /\ t.body.author \in authorized
  /\ admitted' = admitted \union {t}
  /\ UNCHANGED <<log, authorized, members, keyEpoch, acked>>

\* Transactions that were rejected, or were under way when the server stopped.
Leave ==
  /\ admitted' \subseteq admitted
  /\ UNCHANGED <<log, authorized, members, keyEpoch, acked>>

\* t may come next on the log: it is new and its author might write when it came.
ComesNext(t) ==
  /\ t \in admitted
  /\ admitted' \subseteq admitted
  /\ \A i \in 1..Len(log) : log[i].body.id # t.body.id
  /\ t.pow = Len(log) \div PowEpochLength
  /\ log' = Append(log, t)
  /\ UNCHANGED acked

AppendCreate(t) ==
  /\ t.body.op = "create"
  /\ t.body.epoch = keyEpoch
  /\ \A i \in 1..Len(log) : log[i].body.op = "create" => log[i].body.note # t.body.note
  /\ ComesNext(t)
  /\ UNCHANGED <<authorized, members, keyEpoch>>

AppendMemberAdd(t) ==
  /\ t.body.op = "member_add"
  /\ t.body.author = Owner
  /\ ComesNext(t)
  /\ authorized' = authorized \union {t.body.key}
  /\ members' = [members EXCEPT ![t.body.device] = t.body.key]
  /\ UNCHANGED keyEpoch

AppendKeyGrant(t) ==
  /\ t.body.op = "key_grant"
  /\ t.body.author = Owner
  /\ ComesNext(t)
  /\ UNCHANGED <<authorized, members, keyEpoch>>

\* The revocation, the new epoch and the grants take effect together.
AppendKeyRotationBundle(t) ==
  LET granted == {t.body.grants[i] : i \in DOMAIN t.body.grants} \ {OwnerDevice} IN
  /\ t.body.op = "key_rotation_bundle"
  /\ t.body.author = Owner
  /\ t.body.key # Owner
  /\ t.body.epoch > keyEpoch
  /\ \A d \in granted : members[d] # NoKey
  /\ ComesNext(t)
  /\ authorized' = (authorized \ {t.body.key}) \union {members[d] : d \in granted}
  /\ keyEpoch' = t.body.epoch
  /\ UNCHANGED members

Acknowledge ==
  /\ \E i \in 1..Len(log) : acked' = acked \union {log[i].body.id}
  /\ UNCHANGED <<log, authorized, members, keyEpoch, admitted>>

Next ==
  \/ \E t \in Tx : \/ Arrive(t)
                   \/ AppendCreate(t)
                   \/ AppendMemberAdd(t)
                   \/ AppendKeyGrant(t)
                   \/ AppendKeyRotationBundle(t)
  \/ Leave
  \/ Acknowledge

Spec == Init /\ [][Next]_vars
=============================================================================
