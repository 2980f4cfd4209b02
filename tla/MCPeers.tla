------------------------------ MODULE MCPeers ------------------------------
(***************************************************************************)
(* Three servers for TLC, with an enrolment, a note of the device in the   *)
(* first key epoch and a bundle that revokes the device and ends that      *)
(* epoch; and, while none of them has started, the catch-ups and audits of *)
(* one device. The two have nothing to do with each other, so that their   *)
(* interleavings are left out.                                             *)
(***************************************************************************)
EXTENDS PeerSync, Audit, TLC

CONSTANTS note1, add1, bundle1, device1

MCEnrols == (add1 :> device1)
MCRevokes == (bundle1 :> device1)
MCEpoch == (note1 :> 1) @@ (bundle1 :> 2)
MCAuthor == (note1 :> device1) @@ (add1 :> Owner) @@ (bundle1 :> Owner)
MCSymmetry == Permutations(Nodes)

NoneStarted == \A v \in Nodes : mode[v] = "down" /\ Len(chain[v]) = 1

NothingAudited == Len(leaves) = 1 /\ saved = NoPosition /\ request = NoRequest /\ ~ failed

MCInit == Init /\ AuditInit

MCNext ==
  \/ NothingAudited /\ Next /\ UNCHANGED auditVars
  \/ NoneStarted /\ AuditNext /\ UNCHANGED vars

MCSpec == MCInit /\ [][MCNext]_<<vars, auditVars>>
=============================================================================
