----------------------------- MODULE KeyPromise -----------------------------
(***************************************************************************)
(* What the service promises about the key of a document, whatever pages   *)
(* are reloaded, requests are lost and keys are replaced: nothing is sold  *)
(* to an account without a key; a release takes the key the account has    *)
(* when it begins, and no other; what it delivers is sealed with that key, *)
(* all files of it, or is plain; and what was delivered stays as it is.    *)
(***************************************************************************)
CONSTANTS Orders, Keys, NoKey, File

VARIABLES
    key,            \* the account's key
    sale,           \* "offered", "sold", "releasing", "delivered" or "stuck"
    chosen,         \* the key a release works with
    sealed          \* the key a delivered file opens with

keyVars == <<key, sale, chosen, sealed>>

Init ==
    /\ key = NoKey
    /\ sale = [o \in Orders |-> "offered"]
    /\ chosen = [o \in Orders |-> NoKey]
    /\ sealed = [o \in Orders |-> [f \in File |-> NoKey]]

\* Once there is a key there is always one.
SetKey(k) ==
    /\ key' = k
    /\ UNCHANGED <<sale, chosen, sealed>>

Sell(o) ==
    /\ sale[o] = "offered"
    /\ key # NoKey
    /\ sale' = [sale EXCEPT ![o] = "sold"]
    /\ UNCHANGED <<key, chosen, sealed>>

Choose(o) ==
    /\ sale[o] = "sold"
    /\ sale' = [sale EXCEPT ![o] = "releasing"]
    /\ chosen' = [chosen EXCEPT ![o] = key]
    /\ UNCHANGED <<key, sealed>>

Deliver(o, k) ==
    /\ sale[o] = "releasing"
    /\ k \in {chosen[o], NoKey}
    /\ sale' = [sale EXCEPT ![o] = "delivered"]
    /\ sealed' = [sealed EXCEPT ![o] = [f \in File |-> k]]
    /\ chosen' = [chosen EXCEPT ![o] = NoKey]
    /\ key' = key

GetStuck(o) ==
    /\ sale[o] = "releasing"
    /\ sale' = [sale EXCEPT ![o] = "stuck"]
    /\ chosen' = [chosen EXCEPT ![o] = NoKey]
    /\ UNCHANGED <<key, sealed>>

Next ==
    \/ \E k \in Keys : SetKey(k)
    \/ \E o \in Orders : \/ Sell(o) \/ Choose(o) \/ GetStuck(o)
                         \/ \E k \in Keys \cup {NoKey} : Deliver(o, k)

Spec == Init /\ [][Next]_keyVars

=============================================================================
