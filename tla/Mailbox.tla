------------------------------ MODULE Mailbox ------------------------------
(***************************************************************************)
(* What the relay promises to its two clients, and nothing of how.         *)
(*                                                                         *)
(* A message is accepted into a store, delivered to the device of its      *)
(* recipient any number of times (at-least-once), and leaves the store     *)
(* only when that device has it, unless it is perishable: one whose        *)
(* recipient stays away for longer than the retention period.  The sender  *)
(* is shown two ticks.  "stored" says that the message cannot be lost any  *)
(* more, "delivered" that the recipient's device has it.                   *)
(*                                                                         *)
(* Module Relay implements this specification (Relay!Service).             *)
(***************************************************************************)

CONSTANTS
    Msg,            \* the messages
    Perishable      \* those that may outlive the retention period

VARIABLES
    stored,         \* messages the service answers for
    received,       \* messages the recipient's device has
    tick1,          \* messages the sender has been told are stored
    tick2           \* messages the sender has been told are delivered

vars == <<stored, received, tick1, tick2>>

Init ==
    /\ stored = {}
    /\ received = {}
    /\ tick1 = {}
    /\ tick2 = {}

\* A perishable message may be under way to its recipient, or to the sender
\* as a tick, when its row expires.
Known(m) == m \in stored \cup received \cup Perishable

Accept(m) ==
    /\ stored' = stored \cup {m}
    /\ UNCHANGED <<received, tick1, tick2>>

Deliver(m) ==
    /\ Known(m)
    /\ received' = received \cup {m}
    /\ UNCHANGED <<stored, tick1, tick2>>

ShowStored(m) ==
    /\ Known(m)
    /\ tick1' = tick1 \cup {m}
    /\ UNCHANGED <<stored, received, tick2>>

ShowDelivered(m) ==
    /\ m \in received
    /\ tick2' = tick2 \cup {m}
    /\ UNCHANGED <<stored, received, tick1>>

\* A message, or a batch of expired ones, leaves the store.
Drop(D) ==
    /\ D \subseteq received \cup Perishable
    /\ stored' = stored \ D
    /\ UNCHANGED <<received, tick1, tick2>>

Next ==
    \/ \E m \in Msg : Accept(m) \/ Deliver(m) \/ ShowStored(m) \/ ShowDelivered(m)
    \/ \E D \in SUBSET stored : Drop(D)

Spec == Init /\ [][Next]_vars
=============================================================================
