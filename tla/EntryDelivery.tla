---------------------------- MODULE EntryDelivery ----------------------------
(***************************************************************************)
(* What the Redis dispatch transport promises its users, without relays,   *)
(* markers, cursors or consumer groups: a message reaches the consumers'   *)
(* group at most once as an entry, is handed out one or more times, and    *)
(* leaves the group only by an acknowledgement.  OutboxDelivery implements *)
(* it with its liveness; the stream that WorkerProtocol keeps for its      *)
(* attempts implements its safety part.                                    *)
(***************************************************************************)
CONSTANT Message

VARIABLE status   \* Message -> "none", "ready", "pending" or "acked"

DeliveryInit == status = [m \in Message |-> "none"]

Enqueue(m) ==
    /\ status[m] = "none"
    /\ status' = [status EXCEPT ![m] = "ready"]

\* A read hands out a batch; handing a pending entry out again changes nothing.
Deliver(S) ==
    /\ S # {}
    /\ \A m \in S : status[m] = "ready"
    /\ status' = [m \in Message |-> IF m \in S THEN "pending" ELSE status[m]]

Ack(m) ==
    /\ status[m] = "pending"
    /\ status' = [status EXCEPT ![m] = "acked"]

DeliveryNext ==
    \/ \E m \in Message : Enqueue(m) \/ Ack(m)
    \/ \E S \in SUBSET Message : Deliver(S)

DeliverySafety == DeliveryInit /\ [][DeliveryNext]_status

\* An entry of the group is handed out and acknowledged in the end.
Advance(m) == (\E S \in SUBSET Message : m \in S /\ Deliver(S)) \/ Ack(m)

DeliverySpec == DeliverySafety /\ \A m \in Message : WF_status(Advance(m))
=============================================================================
