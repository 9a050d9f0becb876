----------------------------- MODULE MCDoorbell -----------------------------
(***************************************************************************)
(* Instances of Doorbell for TLC.                                          *)
(***************************************************************************)
EXTENDS Doorbell, TLC

Interchangeable == Permutations(Sock) \cup Permutations(Task)
=============================================================================
