----------------------------- MODULE OrderPage -----------------------------
(***************************************************************************)
(* The page of one order (order-status.tsx) in a browser tab: it shows a   *)
(* copy of the order's status, polls it while something is under way, and  *)
(* offers the payment and the retry.  The server moves the status on its   *)
(* own or for somebody else (another tab, a loop, the provider's webhook). *)
(* Polls are sent by a timer and whenever the tab gets the focus, so that  *)
(* several are under way at once; answers come in any order, or never, and *)
(* an answer is applied although the effect that asked for it is gone.     *)
(***************************************************************************)
EXTENDS Naturals, OrderMoves

CONSTANTS
    Flow,           \* the moves of this order's status
    Polls,          \* bound: status requests under way at a time
    MaxGoals        \* bound of the goal counter

ASSUME PageAssumption == Flow \subseteq Moves /\ MaxGoals \in Nat \ {0}

VARIABLES
    status,         \* orders.status
    view,           \* order.status of the page, or "closed"
    polls,          \* the status requests under way
    retry,          \* the retry request
    pay,            \* preparePay and doPay
    gate,           \* keyStep is "save_key"
    toast,          \* readyToastOpen
    goals,          \* how often "payment_success" was counted
    marked,         \* sessionStorage of the tab remembers the goal
    was             \* history: the statuses since the page was opened

buttons == <<retry, pay, gate>>
metrics == <<goals, marked>>
vars    == <<status, view, polls, buttons, toast, metrics, was>>

Polled  == {"pending_payment", "paid", "generating"}
Offered == {"preview_ready", "pending_payment"}
Busy    == {"prepare", "create", "created"}

Open == view # "closed"
Idle == [i \in Polls |-> "idle"]

TypeOK ==
    /\ status \in ShownStatus
    /\ view \in ShownStatus \cup {"closed"}
    /\ polls \in [Polls -> ShownStatus \cup {"idle", "asked"}]
    /\ retry \in {"no", "asked", "ok", "refused"}
    /\ pay \in Busy \cup {"no"}
    /\ gate \in BOOLEAN
    /\ toast \in BOOLEAN
    /\ goals \in 0..MaxGoals
    /\ marked \in BOOLEAN
    /\ was \subseteq ShownStatus

Init ==
    /\ status \in ShownStatus
    /\ view = "closed"
    /\ polls = Idle
    /\ retry = "no" /\ pay = "no" /\ gate = FALSE
    /\ toast = FALSE
    /\ goals = 0 /\ marked = FALSE
    /\ was = {}

-----------------------------------------------------------------------------
(* Helpers: what a change of order.status sets off.                        *)

\* The server has written s while the page is open or not.
Reaches(s) ==
    /\ status' = s
    /\ was' = IF Open THEN was \cup {s} ELSE was

\* Faulty: the session does not remember that the goal was counted.
CountsAgain(s) ==
    IF s = "paid" /\ view # "paid" /\ goals < MaxGoals
    THEN goals' = goals + 1 /\ marked' = TRUE
    ELSE UNCHANGED metrics

\* The effect that counts the payment: whenever the status becomes "paid" in
\* this tab and the session has no mark yet.  A browser that refuses to store
\* the mark (setItem throws after the goal was sent) is left out: there every
\* visit to a paid order counts.
Counts(s) ==
    IF s = "paid" /\ view # "paid" /\ ~marked
    THEN goals' = goals + 1 /\ marked' = TRUE
    ELSE UNCHANGED metrics

\* setOrder: the toast opens on the way to "done".
Shows(s) ==
    /\ view' = s
    /\ toast' = (toast \/ (s = "done" /\ view # "done"))
    /\ Counts(s)

-----------------------------------------------------------------------------
(* The server.                                                             *)

ServerMoves ==
    /\ \E s \in ShownStatus : <<status, s>> \in Flow /\ Reaches(s)
    /\ UNCHANGED <<view, polls, buttons, toast, metrics>>

-----------------------------------------------------------------------------
(* Loading and leaving the page.                                           *)

\* Faulty: remembers no earlier status, so that a done order is news.
OpenPageAsNews ==
    /\ ~Open
    /\ view' = status
    /\ was' = {status}
    /\ toast' = (status = "done")
    /\ Counts(status)
    /\ UNCHANGED <<status, polls, buttons>>

\* The server renders the page with the order of that moment.
OpenPage ==
    /\ ~Open
    /\ view' = status
    /\ was' = {status}
    /\ toast' = FALSE
    /\ Counts(status)
    /\ UNCHANGED <<status, polls, buttons>>

\* Faulty: the requests of the old page go on and answer the new one.
LeavesRunning ==
    /\ view' = "closed"
    /\ polls' = polls
    /\ retry' = "no" /\ pay' = "no" /\ gate' = FALSE
    /\ toast' = FALSE
    /\ was' = {}

\* Closed, reloaded, or left for the payment page: everything but the session
\* is gone.  A request the server still works on is one of ServerMoves.
Leaves ==
    /\ view' = "closed"
    /\ polls' = Idle
    /\ retry' = "no" /\ pay' = "no" /\ gate' = FALSE
    /\ toast' = FALSE
    /\ was' = {}

ClosePage ==
    /\ Open
    /\ Leaves
    /\ UNCHANGED <<status, metrics>>

CloseToast ==
    /\ toast
    /\ toast' = FALSE
    /\ UNCHANGED <<status, view, polls, buttons, metrics, was>>

-----------------------------------------------------------------------------
(* Polling.                                                                *)

\* The timer of the effect, or the tab becomes visible.
Poll(i) ==
    /\ view \in Polled
    /\ polls[i] = "idle"
    /\ polls' = [polls EXCEPT ![i] = "asked"]
    /\ UNCHANGED <<status, view, buttons, toast, metrics, was>>

\* GET /orders/{id} reads the row.
ServePoll(i) ==
    /\ polls[i] = "asked"
    /\ polls' = [polls EXCEPT ![i] = status]
    /\ UNCHANGED <<status, view, buttons, toast, metrics, was>>

\* Network blip, rate limit, failing backend: "keep polling".
LosePoll(i) ==
    /\ polls[i] # "idle"
    /\ polls' = [polls EXCEPT ![i] = "idle"]
    /\ UNCHANGED <<status, view, buttons, toast, metrics, was>>

\* Faulty: only takes over a status that is polled again.
TakePollPolled(i) ==
    /\ polls[i] \in ShownStatus
    /\ IF polls[i] \in Polled THEN Shows(polls[i]) ELSE UNCHANGED <<view, toast, metrics>>
    /\ polls' = [polls EXCEPT ![i] = "idle"]
    /\ UNCHANGED <<status, buttons, was>>

\* However old the answer is, whatever the page shows by now.
TakePoll(i) ==
    /\ polls[i] \in ShownStatus
    /\ Shows(polls[i])
    /\ polls' = [polls EXCEPT ![i] = "idle"]
    /\ UNCHANGED <<status, buttons, was>>

-----------------------------------------------------------------------------
(* handleRetry.                                                            *)

ClickRetry ==
    /\ view = "failed"
    /\ retry = "no"
    /\ retry' = "asked"
    /\ UNCHANGED <<status, view, polls, pay, gate, toast, metrics, was>>

ServeRetry ==
    /\ retry = "asked"
    /\ status = "failed"
    /\ Reaches("generating")
    /\ retry' = "ok"
    /\ UNCHANGED <<view, polls, pay, gate, toast, metrics>>

\* Not failed any more, row locked, too many requests, or the answer is lost.
RefuseRetry ==
    /\ retry \in {"asked", "ok"}
    /\ retry' = "refused"
    /\ UNCHANGED <<status, view, polls, pay, gate, toast, metrics, was>>

\* Faulty: shows "generating" whatever the server said; forgets isRetrying.
TakeRetryHopeful ==
    /\ retry \in {"ok", "refused"}
    /\ Shows("generating")
    /\ retry' = "no"
    /\ UNCHANGED <<status, polls, pay, gate, was>>
TakeRetryStaysBusy ==
    /\ retry = "ok"
    /\ Shows("generating")
    /\ retry' = "no"
    /\ UNCHANGED <<status, polls, pay, gate, was>>

\* The page does not ask again: it sets "generating" itself.
TakeRetry ==
    /\ retry \in {"ok", "refused"}
    /\ IF retry = "ok" THEN Shows("generating") ELSE UNCHANGED <<view, toast, metrics>>
    /\ retry' = "no"
    /\ UNCHANGED <<status, polls, pay, gate, was>>

-----------------------------------------------------------------------------
(* preparePay and doPay; the keys themselves are DocumentKeys'.            *)

ClickPay ==
    /\ view \in Offered
    /\ pay = "no"
    /\ pay' = IF gate THEN "create" ELSE "prepare"
    /\ UNCHANGED <<status, view, polls, retry, gate, toast, metrics, was>>

\* The key is registered: an old one pays at once, a new one has to be saved;
\* or the preparation failed and the button comes back.
Prepared ==
    /\ pay = "prepare"
    /\ \/ pay' = "create" /\ gate' = gate
       \/ pay' = "no" /\ gate' \in BOOLEAN
    /\ UNCHANGED <<status, view, polls, retry, toast, metrics, was>>

\* The server makes a payment; the page keeps the status it shows.
ServePay ==
    /\ pay = "create"
    /\ status \in Offered
    /\ Reaches("pending_payment")
    /\ pay' = "created"
    /\ UNCHANGED <<view, polls, retry, gate, toast, metrics>>

\* Not payable, another request holds the row, provider or network failed.
RefusePay ==
    /\ pay \in {"create", "created"}
    /\ pay' = "no"
    /\ UNCHANGED <<status, view, polls, retry, gate, toast, metrics, was>>

\* Faulty: counts the goal when the customer is sent to pay.
GoToPaymentCounts ==
    /\ pay = "created"
    /\ Leaves
    /\ IF marked THEN UNCHANGED metrics ELSE goals' = goals + 1 /\ marked' = TRUE
    /\ status' = status

\* window.location.href = payment_url
GoToPayment ==
    /\ pay = "created"
    /\ Leaves
    /\ UNCHANGED <<status, metrics>>

-----------------------------------------------------------------------------
Network(i) == ServePoll(i) \/ LosePoll(i) \/ TakePoll(i)

Answers == ServeRetry \/ RefuseRetry \/ TakeRetry
             \/ Prepared \/ ServePay \/ RefusePay \/ GoToPayment

Next ==
    \/ ServerMoves
    \/ OpenPage \/ ClosePage \/ CloseToast
    \/ \E i \in Polls : Poll(i) \/ Network(i)
    \/ ClickRetry \/ ClickPay
    \/ Answers

Spec == Init /\ [][Next]_vars

\* The timer of an open page fires, its requests end one way or another, and a
\* network that fails again and again also works again and again.  Neither the
\* customer nor the order owes anybody a step.
Fairness ==
    /\ \A i \in Polls : WF_vars(Poll(i)) /\ SF_vars(ServePoll(i)) /\ SF_vars(TakePoll(i))
    /\ WF_vars(ServeRetry \/ RefuseRetry) /\ WF_vars(TakeRetry)
    /\ WF_vars(Prepared) /\ WF_vars(ServePay \/ RefusePay \/ GoToPayment)

FairSpec == Spec /\ Fairness

=============================================================================
