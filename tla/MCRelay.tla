------------------------------ MODULE MCRelay ------------------------------
(***************************************************************************)
(* Instances of Relay for TLC: two users, one or two connections of each,  *)
(* one or two messages.                                                    *)
(***************************************************************************)
EXTENDS RelayProperties

CONSTANTS alice, bob, a1, b1, b2, m1, m2

\* Connections a1 of alice, b1 and b2 of bob.
OwnerAB == [s \in Sock |-> IF s = a1 THEN alice ELSE bob]

\* m1 goes from alice to bob, m2 back.
FromAlice == [m \in Msg |-> IF m = m1 THEN alice ELSE bob]
ToBob == [m \in Msg |-> IF m = m1 THEN bob ELSE alice]

\* Both messages go from alice to bob.
AllFromAlice == [m \in Msg |-> alice]
AllToBob == [m \in Msg |-> bob]
=============================================================================
