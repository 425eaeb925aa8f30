------------------------------ MODULE OrderSite ------------------------------
(***************************************************************************)
(* The order lifecycle and the page of one of its orders, put together.    *)
(* They meet in the row of that order: polls read it, and two requests of  *)
(* the page are the endpoints themselves (handleRetry is retry_order,      *)
(* doPay is pay_order).  Whatever else the server does, for other tabs and *)
(* devices too, it does alone.                                             *)
(***************************************************************************)
EXTENDS OrderProperties

CONSTANTS
    Watched,        \* the order of the page
    Polls, MaxGoals \* bounds of the page

\* What the theorems about the two together ask of these constants.
SiteAssumption == Watched \in Orders /\ MaxGoals \in Nat \ {0}

VARIABLES
    view, polls, retry, pay, gate, toast, goals, marked, was    \* as in OrderPage

\* What the page is told of its order; before the order is made nobody asks.
Shown == IF status[Watched] = "no_row" THEN "generating" ELSE status[Watched]

Flow == IF Watched \in Fresh THEN FreshMoves ELSE Moves

Page == INSTANCE OrderPageProperties WITH status <- Shown

inTab    == <<view, polls, retry, pay, gate, toast, goals, marked>>
siteVars == <<vars, inTab, was>>

SiteInit ==
    /\ Init
    /\ Page!Init

-----------------------------------------------------------------------------
\* An endpoint for somebody else, a webhook, a loop or a task; an open page is
\* told nothing of it.
ServerAlone ==
    /\ Next
    /\ was' = IF Page!Open /\ Shown' # Shown THEN was \cup {Shown'} ELSE was
    /\ UNCHANGED inTab

\* The endpoint and the page's own request are one step.
RetryFromPage ==
    /\ RetryOrder(Watched)
    /\ Page!ServeRetry

PayFromPage ==
    /\ \E p \in Payments : PayCommit(Watched, p)
    /\ Page!ServePay

\* The page by itself, the requests that only read the row included.
PageAlone ==
    /\ UNCHANGED vars
    /\ \/ status[Watched] # "no_row" /\ Page!OpenPage
       \/ Page!ClosePage \/ Page!CloseToast
       \/ \E i \in Polls : Page!Poll(i) \/ Page!Network(i)
       \/ Page!ClickRetry \/ Page!RefuseRetry \/ Page!TakeRetry
       \/ Page!ClickPay \/ Page!Prepared \/ Page!RefusePay \/ Page!GoToPayment

SiteNext == ServerAlone \/ RetryFromPage \/ PayFromPage \/ PageAlone

SiteSpec == SiteInit /\ [][SiteNext]_siteVars

-----------------------------------------------------------------------------
(* What holds of the two together.                                         *)

\* The page of OrderPage is the page of this server: every step of endpoints,
\* webhooks, loops and tasks is a move of the status that page allows for.
KeepsPage == Page!Spec

\* What the customer reads off the page of an order of the present flow is true of
\* the row, the document and the money, however late the page learns of anything:
\* it offers the payment, thanks and offers the download only for a document that
\* exists; it thanks and counts the goal only for captured money that was paid for
\* this very order; it offers the download and opens the toast only on a done order.
PageKeepsWord ==
    Watched \in Fresh =>
        /\ view \in {"preview_ready", "pending_payment", "paid", "done"} => document[Watched]
        /\ view \in {"paid", "done"} \/ toast \/ marked =>
              /\ Paid(Watched)
              /\ charge[payment[Watched]] = "succeeded"
              /\ payer[payment[Watched]] = Watched
        /\ view = "done" \/ toast => status[Watched] = "done"

=============================================================================
