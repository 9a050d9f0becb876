------------------------------- MODULE MCOta -------------------------------
(***************************************************************************)
(* Instances of Ota for TLC: two overlapping requests, three versions.     *)
(***************************************************************************)
EXTENDS Ota, TLC

\* Requests are interchangeable.
Requests == Permutations(Request)
=============================================================================
