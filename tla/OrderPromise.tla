---------------------------- MODULE OrderPromise ----------------------------
(***************************************************************************)
(* What the service promises about money and documents, whatever the       *)
(* webhooks, loops, retries and crashes do: an order is settled by one     *)
(* captured payment that settles no other order, the settlement is never   *)
(* undone, and only a settled order is delivered.  An order of the present *)
(* flow is delivered once and for all; one of the flow that took money     *)
(* first ("Legacy") is only promised not to fall back to unpaid.           *)
(***************************************************************************)
CONSTANTS Orders, Legacy, Payments, NoPayment

VARIABLES
    captured,       \* payments whose money has arrived
    settledBy,      \* the payment that settled an order
    stage           \* "unpaid", "owed", "delivered" or "refunded"

promiseVars == <<captured, settledBy, stage>>

Init ==
    /\ settledBy \in [Orders -> Payments \cup {NoPayment}]
    /\ \A o \in Orders \ Legacy : settledBy[o] = NoPayment
    /\ \A o, other \in Orders :
          settledBy[o] = settledBy[other] => o = other \/ settledBy[o] = NoPayment
    /\ captured = {p \in Payments : \E o \in Orders : settledBy[o] = p}
    /\ stage = [o \in Orders |-> IF settledBy[o] = NoPayment THEN "unpaid" ELSE "owed"]

Capture(p) ==
    /\ captured' = captured \cup {p}
    /\ UNCHANGED <<settledBy, stage>>

Settle(o, p) ==
    /\ stage[o] = "unpaid"
    /\ p \in captured
    /\ \A other \in Orders : settledBy[other] # p
    /\ settledBy' = [settledBy EXCEPT ![o] = p]
    /\ stage' = [stage EXCEPT ![o] = "owed"]
    /\ captured' = captured

Deliver(o) ==
    /\ stage[o] = "owed"
    /\ stage' = [stage EXCEPT ![o] = "delivered"]
    /\ UNCHANGED <<captured, settledBy>>

\* Legacy orders whose generation is repeated or given up, several at once.
Waver ==
    /\ \E S \in SUBSET {o \in Legacy : stage[o] # "unpaid"} :
         \E new \in [S -> {"owed", "delivered", "refunded"}] :
           stage' = [o \in Orders |-> IF o \in S THEN new[o] ELSE stage[o]]
    /\ UNCHANGED <<captured, settledBy>>

Next ==
    \/ \E p \in Payments : Capture(p)
    \/ \E o \in Orders : Deliver(o) \/ \E p \in Payments : Settle(o, p)
    \/ Waver

Spec == Init /\ [][Next]_promiseVars

=============================================================================
