------------------------------ MODULE MCDevice ------------------------------
(***************************************************************************)
(* Instances of Device for TLC. Two notes are written here and one         *)
(* elsewhere. The first and the third were created at the same time. In    *)
(* one instance the first repeats, in the other the third has a reminder   *)
(* once.                                                                   *)
(***************************************************************************)
EXTENDS Device

MCCreated == <<0, 1, 0>>
MCFire == <<1, NoTime, NoTime>>
MCEvery == <<2, 0, 0>>
MCFireOnce == <<NoTime, NoTime, 1>>
=============================================================================
