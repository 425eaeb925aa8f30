------------------------ MODULE OrderPageProperties ------------------------
(***************************************************************************)
(* What the page of an order may show and must do.                         *)
(***************************************************************************)
EXTENDS OrderPage

\* The page never invents a status: whatever it shows, late answers and the
\* optimistic "generating" of handleRetry included, was the order's status at
\* some time since the page was opened (order-status.tsx:140-183, 209).
ShownWasTrue == Open => view \in was

\* "Document is ready" pops up only for somebody who saw the order unfinished,
\* never when a finished order is opened (order-status.tsx:114-121).
ToastIsNews == toast => was \ {"done"} # {}

\* A tab counts the payment of an order once, although late answers may show
\* "paid" again and the page may be loaded again (order-status.tsx:183-192); in a
\* browser that keeps the session's mark.
GoalCountedOnce == goals <= 1

\* The page is never ahead of the order.  Whatever the order cannot leave again (for
\* the present flow "done", or "paid" and "done") the page shows, announces with its
\* toast or counts as a payment only of an order that is there, although the page
\* sets statuses itself and late answers take it back (order-status.tsx:114-140, 185).
OwnMoves == {<<"failed", "generating">>, <<"preview_ready", "pending_payment">>}
Closed(S) == \A m \in Flow \cup OwnMoves : m[1] \in S => m[2] \in S

NeverAhead ==
    \A S \in SUBSET ShownStatus :
        /\ Closed(S)
        /\ view \in S \/ (toast /\ "done" \in S) \/ (marked /\ "paid" \in S)
        => status \in S

\* What it rests on: the order has not left what it reached since the page was
\* opened, nor "paid" once that was counted; a toast is about a "done" that was.
BehindInv ==
    /\ \A S \in SUBSET ShownStatus :
          Closed(S) /\ (was \cap S # {} \/ (marked /\ "paid" \in S)) => status \in S
    /\ toast => "done" \in was

\* The inductive invariant: behind a shown status and behind every answer on
\* its way is a status the order had; the mark tells whether it was counted.
AnswersWereTrue ==
    /\ Open => status \in was
    /\ ~Open => polls = Idle /\ retry = "no" /\ ~toast
    /\ \A i \in Polls : polls[i] \in ShownStatus => polls[i] \in was
    /\ retry = "ok" => "generating" \in was
MarkCounts == goals = IF marked THEN 1 ELSE 0

PageInv == TypeOK /\ ShownWasTrue /\ ToastIsNews /\ AnswersWereTrue /\ MarkCounts

\* Once the order rests, a page that waits for it catches up: it cannot show
\* for ever that something is under way when it is not (order-status.tsx:86-88).
WaitingCatchesUp ==
    \A s \in ShownStatus : <>[](status = s) => <>[](view \in Polled => view = s)

\* Every click is answered: no failure of the network or of the server leaves
\* a button disabled for ever (the finally of handleRetry, preparePay, doPay).
ClicksAreAnswered ==
    /\ (retry # "no") ~> (retry = "no")
    /\ (pay # "no") ~> (pay = "no")

=============================================================================
