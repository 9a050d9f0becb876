------------------------------ MODULE MCLedger ------------------------------
(* Instances of Ledger for TLC.  Users and requests are interchangeable.   *)
EXTENDS Ledger, TLC

Interchangeable == Permutations(User) \cup Permutations(Txn)
=============================================================================
