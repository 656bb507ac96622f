---------------------------- MODULE PodDelivery ----------------------------
(***************************************************************************)
(* What the outbox promises: a message that has been handed over for the   *)
(* point of distribution (PoD) stays in the node's charge until the PoD    *)
(* has it.  Only a crash may make the node forget messages.                *)
(***************************************************************************)
CONSTANTS
    Sender,     \* nodes
    Message     \* outbox ids

VARIABLES
    pod,        \* what the PoD has accepted (external)
    charge      \* what each node still has to bring there

deliveryVars == <<pod, charge>>

DeliveryTypeOK ==
    /\ pod \subseteq Message
    /\ charge \in [Sender -> SUBSET Message]

DeliveryInit ==
    /\ pod = {}
    /\ charge = [n \in Sender |-> {}]

\* The message is new, or tried again, or only queued.  The PoD may accept it
\* without the node's learning of it.
Take(n, x) ==
    /\ charge' = [charge EXCEPT ![n] = @ \cup {x}]
    /\ pod' \in {pod, pod \cup {x}}

Release(n, x) ==
    /\ x \in pod
    /\ charge' = [charge EXCEPT ![n] = @ \ {x}]
    /\ UNCHANGED pod

Forget(n) ==
    /\ \E kept \in SUBSET charge[n] : charge' = [charge EXCEPT ![n] = kept]
    /\ UNCHANGED pod

\* Nothing is forgotten without a crash.
DeliveryNext(crash) ==
    \E n \in Sender :
        \/ \E x \in Message : Take(n, x) \/ Release(n, x)
        \/ crash /\ Forget(n)
=============================================================================
