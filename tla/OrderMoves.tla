----------------------------- MODULE OrderMoves -----------------------------
(***************************************************************************)
(* How the status of an order moves, seen from outside the server.  The    *)
(* order's page relies on it (OrderPage) and the order lifecycle keeps it  *)
(* (MovesOnly of OrderProperties).                                         *)
(***************************************************************************)

\* core/enums.py, without "draft", which nothing writes.
ShownStatus == {"generating", "preview_ready", "pending_payment", "paid",
                "done", "failed", "refunded"}

\* The present flow: preview first, then the payment, then the release.
FreshMoves ==
    {<<"generating", "preview_ready">>, <<"generating", "failed">>,
     <<"failed", "generating">>, <<"preview_ready", "pending_payment">>,
     <<"pending_payment", "paid">>, <<"paid", "done">>}

\* Rows of the flow that took the money first: tasks and watchdogs overwrite
\* each other's verdict.
Verdict == {"done", "failed", "refunded"}
LegacyMoves == {"paid", "generating", "done", "failed", "refunded"} \X Verdict

Moves == FreshMoves \cup LegacyMoves

=============================================================================
