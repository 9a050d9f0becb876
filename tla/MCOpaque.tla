------------------------------ MODULE MCOpaque ------------------------------
(***************************************************************************)
(* Instances of Opaque for TLC: overlapping requests about one account.    *)
(***************************************************************************)
EXTENDS Opaque, TLC

\* Requests are interchangeable.
Requests == Permutations(Req)
=============================================================================
