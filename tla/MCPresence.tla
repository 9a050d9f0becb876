----------------------------- MODULE MCPresence -----------------------------
(***************************************************************************)
(* Instances of Presence for TLC: two connections of one account.          *)
(***************************************************************************)
EXTENDS Presence, TLC

\* Connections are interchangeable.
Connections == Permutations(Sock)
=============================================================================
