-------------------------- MODULE OrderProperties --------------------------
(***************************************************************************)
(* What the order lifecycle must keep, and what the sources say of it.     *)
(***************************************************************************)
EXTENDS OrderLifecycle, OrderMoves

Fresh == Orders \ Legacy
Live(o, s) == ~IsFree(o, s)
Holds(c, o) == claimer[c].order = o

(***************************************************************************)
(* Safety.                                                                 *)
(***************************************************************************)

\* A preview is generated by one task at a time, and only while the order is
\* unpaid, "generating", without a document and with nothing else running
\* for it: the endpoints that start one (init_order, retry_order) never race.
\* The insert of a second documents row would kill the task.
PreviewExclusive ==
    \A o \in Orders, s \in Slots :
        task[o][s].kind = "preview" =>
            /\ status[o] = "generating"
            /\ ~Paid(o)
            /\ ~document[o]
            /\ o \notin locked
            /\ \A t \in Slots \ {s} : IsFree(o, t)

\* paid_at is only set on an order whose current payment was created for it
\* and captured (claim_paid_order against pay_order that replaces the payment).
PaidByItsPayment ==
    \A o \in Orders : Paid(o) =>
        /\ payment[o] \in Payments
        /\ charge[payment[o]] = "succeeded"
        /\ payer[payment[o]] = o

\* The download gate of documents.py opens on "done" alone: then the order has
\* been paid and a document exists.  Before the payment nothing mails or wipes.
DoneIsPaid ==
    \A o \in Orders :
        /\ status[o] = "done" => Paid(o) /\ document[o]
        /\ o \in mailed => Paid(o) /\ document[o]

\* In the present flow money is only taken for a document that exists, and a
\* paid order is either waiting for its release or done: it never generates,
\* fails or is refunded again.
FreshPaidHasDocument ==
    \A o \in Fresh : Paid(o) => document[o] /\ status[o] \in {"paid", "done"}

\* One payment, one release: whatever webhooks and reconcile passes overlap,
\* an order of the present flow is in the hands of one claimer or one task,
\* and of a task only while it is still "paid" or is sending its mail.
ReleasedOnce ==
    \A o \in Fresh : Paid(o) =>
        /\ \A c, d \in Claimers : Holds(c, o) /\ Holds(d, o) => c = d
        /\ \A s, t \in Slots : Live(o, s) /\ Live(o, t) => s = t
        /\ \A c \in Claimers, s \in Slots : ~(Holds(c, o) /\ Live(o, s))
        /\ \A c \in Claimers : Holds(c, o) => status[o] = "paid"
        /\ \A s \in Slots : Live(o, s) /\ task[o][s].pc # "mail" => status[o] = "paid"

\* The journal only says "processed" or "reconciled" of the payment of an
\* order that is paid with it: no claim is undone behind the journal's back.
JournalledIsPaid ==
    \A p \in Payments :
        journal[p] \in {"processed", "reconciled"} =>
            \E o \in Orders : payment[o] = p /\ Paid(o)

\* The audit of orders.py and webhooks.py, read backwards.  Money the journal
\* calls "unmatched" serves nobody and never will: no order points to it, and no
\* later pay request, claim or loop gives it to one.
UnmatchedIsOrphan ==
    \A p \in Payments, o \in Orders : journal[p] = "unmatched" => payment[o] # p

\* And no money that settled an order of the present flow is missing from the
\* journal, unless a process died: then it is still in the hands of its claimer.
PaidIsJournalled ==
    crashes = 0 =>
        \A o \in Fresh : Paid(o) =>
            journal[payment[o]] # "none" \/ \E c \in Claimers : Holds(c, o)

\* Only money that was claimed for an order goes back, and only for an order
\* of the old flow (in the present one a release has nothing to give up).
RefundedWasClaimed ==
    \A p \in refunded : \E o \in Legacy : payment[o] = p /\ Paid(o)

\* A claim is for ever: neither a pay request that was waiting for the
\* provider, nor a late webhook, nor a task changes paid_at back or puts
\* another payment under a paid order.
ClaimIsFinal ==
    [][\A o \in Orders : Paid(o) => Paid(o)' /\ payment'[o] = payment[o]]_vars

\* A release is started once in the life of an order of the present flow, not only one
\* at a time: a paid order that no claimer holds gets no other claimer and no other
\* task.  DocumentKeys relies on it (a second release would encrypt the files again).
NeverReleasedAgain ==
    [][\A o \in Fresh : Paid(o) /\ (\A c \in Claimers : ~Holds(c, o)) =>
          /\ \A c \in Claimers : ~Holds(c, o)'
          /\ \A s \in Slots : IsFree(o, s) => IsFree(o, s)']_vars

\* form_data is emptied in five places (three of generation.py, the watchdog and the
\* cleanup of main.py).  In the present flow that only ever happens to a delivered
\* order, or to a failed one that nobody has paid for and nothing works on: whatever
\* failures, retries, claims and loops overlap, no preview and no release has the
\* form pulled from under it, and no order that can be paid or is paid loses it.
FormOutlivesWork ==
    [][\A o \in Fresh : form[o] /\ ~form'[o] =>
           \/ status[o] = "done"
           \/ status[o] = "failed" /\ ~Paid(o) /\ \A s \in Slots : IsFree(o, s)]_vars

\* What the order's page relies on: the status of an order of the present flow
\* goes its one way, whatever tasks, claims and loops overlap, and the tasks and
\* watchdogs of the old flow only ever put one verdict in the place of another.
MovesOf(o) == {<<"no_row", "generating">>} \cup (IF o \in Fresh THEN FreshMoves ELSE Moves)

MovesOnly ==
    [][\A o \in Orders : status'[o] # status[o] =>
           <<status[o], status'[o]>> \in MovesOf(o)]_vars

(***************************************************************************)
(* The inductive invariant behind the safety properties, in four parts.    *)
(***************************************************************************)

\* The row: which statuses go with "paid", with a document and with the lock.
RowInv ==
    \A o \in Orders :
        /\ Paid(o) => status[o] \notin {"no_row", "preview_ready", "pending_payment"}
        /\ ~Paid(o) => status[o] \notin {"paid", "done", "refunded"}
        /\ o \in Legacy /\ ~Paid(o) => status[o] = "pending_payment"
        /\ o \in Fresh /\ Paid(o) => document[o] /\ status[o] \in {"paid", "done"}
        /\ o \in Fresh => (document[o] <=> status[o] \notin {"no_row", "generating", "failed"})
        /\ status[o] = "done" => document[o]
        /\ o \in locked => ~Paid(o) /\ Payable(o)
        /\ o \in mailed => Paid(o) /\ document[o]

\* The tasks: a preview is alone with an unpaid order; everything else works
\* for a paid one, and for a fresh one only a single release does.
TaskOK(o, s) ==
    /\ task[o][s].kind = "preview" =>
           /\ o \in Fresh
           /\ status[o] = "generating"
           /\ ~Paid(o)
           /\ task[o][s].pc \in {"start", "work"}
           /\ task[o][s].pc = "work" => task[o][s].seen = "generating"
    /\ task[o][s].kind \in {"generate", "release", "refund"} => Paid(o)
    /\ task[o][s].kind \in {"generate", "refund"} => o \in Legacy
    /\ task[o][s].pc = "work" => task[o][s].kind \in {"preview", "generate", "release"}
    /\ task[o][s].pc = "refund" => task[o][s].kind = "generate"
    /\ task[o][s].pc = "mail" =>
           task[o][s].kind \in {"generate", "release"} /\ document[o]
    /\ o \in Fresh /\ task[o][s].kind = "release" /\ task[o][s].pc # "mail" =>
           status[o] = "paid"
    /\ o \in Fresh /\ Live(o, s) => \A t \in Slots \ {s} : IsFree(o, t)

TaskInv == \A o \in Orders, s \in Slots : TaskOK(o, s)

\* The claimers and the sweeps: whose order a claimer holds, and what for.
ClaimOK(c) ==
    /\ claimer[c].pc # "idle" => claimer[c].payment \in Payments
    /\ claimer[c].order # NoOrder =>
          /\ claimer[c].pc = "record"
          /\ Paid(claimer[c].order)
          /\ payment[claimer[c].order] = claimer[c].payment
          /\ claimer[c].order \in Fresh =>
                /\ status[claimer[c].order] = "paid"
                /\ \A s \in Slots : IsFree(claimer[c].order, s)
                /\ \A d \in Claimers : Holds(d, claimer[c].order) => d = c

ClaimInv ==
    /\ \A c \in Claimers : ClaimOK(c)
    /\ \A w \in Workers, o \in Orders : o \in sweep[w].refunds => o \in Legacy /\ Paid(o)

\* The money: payments belong to one order, paid orders to a captured payment.
MoneyInv ==
    /\ \A o \in Orders :
          /\ payment[o] # NoPayment => charge[payment[o]] # "free" /\ payer[payment[o]] = o
          /\ Paid(o) => payment[o] # NoPayment /\ charge[payment[o]] = "succeeded"
    /\ JournalledIsPaid
    /\ RefundedWasClaimed

Inv == TypeOK /\ RowInv /\ TaskInv /\ ClaimInv /\ MoneyInv

\* What the form and the journal need besides: a release has seen "paid", so that
\* its "done" is written, and the mail step, which wipes, comes after that; what is
\* journalled, and what a webhook has in its hands, is captured.
WipeOK(o) ==
    \A s \in Slots :
        /\ task[o][s].kind = "release" /\ task[o][s].pc = "work" => task[o][s].seen = "paid"
        /\ task[o][s].pc = "mail" => status[o] = "done"

WipeInv == \A o \in Fresh : WipeOK(o)

AuditInv ==
    /\ UnmatchedIsOrphan
    /\ PaidIsJournalled
    /\ \A p \in Payments : journal[p] # "none" => charge[p] = "succeeded"
    /\ \A c \in Claimers :
          claimer[c].pc = "record" \/ (c \in Hooks /\ claimer[c].pc = "claim") =>
              charge[claimer[c].payment] = "succeeded"

(***************************************************************************)
(* Refinement: OrderPromise, read off the orders table and the provider.   *)
(***************************************************************************)
StageOf(o) ==
    IF ~Paid(o) THEN "unpaid"
    ELSE IF status[o] = "done" THEN "delivered"
    ELSE IF status[o] = "refunded" THEN "refunded" ELSE "owed"

Captured  == {p \in Payments : charge[p] = "succeeded"}
SettledBy == [o \in Orders |-> IF Paid(o) THEN payment[o] ELSE NoPayment]
Stage     == [o \in Orders |-> StageOf(o)]

Promise == INSTANCE OrderPromise WITH
    captured <- Captured, settledBy <- SettledBy, stage <- Stage

\* Every step of endpoints, loops and tasks is a step of the promise or none.
KeepsPromise == Promise!Spec

(***************************************************************************)
(* Liveness, under FairSpec.                                               *)
(***************************************************************************)

\* Webhooks may all be lost: once the customer no longer opens pay requests
\* (each holds the row), the reconcile loop claims a captured payment the row
\* points to, unless the customer has replaced it by another one.
CapturedIsClaimed ==
    \A o \in Orders : <>[](o \notin locked) =>
        \A p \in Payments :
            (status[o] = "pending_payment" /\ payment[o] = p /\ charge[p] = "succeeded")
                ~> (Paid(o) \/ payment[o] # p)

\* Once the customer no longer presses "retry", a paid order that generates or
\* has failed is retried until it is done or refunded, or rests failed with its
\* retries used up (where the late failure of a superseded attempt leaves it).
RetriesEnd ==
    \A o \in Orders : <>[][~RetryOrder(o)]_vars =>
        ((Paid(o) /\ status[o] \in {"generating", "failed"})
            ~> (status[o] \in {"done", "refunded"} \/ (status[o] = "failed" /\ Exhausted(o))))

(***************************************************************************)
(* What the sources say and the code does not do.                          *)
(***************************************************************************)

\* generation.py logs "order stays paid for retry", the runbook says that the
\* reconcile loop brings paid orders to DONE: a paid order is brought to its end.
PaidReachesTheEnd ==
    \A o \in Orders : Paid(o) ~> (status[o] \in {"done", "refunded"})

\* record_payment_event: "the audit is best-effort, a failed write must not
\* bring down the handling of the payment".  A claim that ends by itself has
\* started the release.
AuditNeverCostsRelease ==
    [][\A c \in Claimers : (claimer[c].order # NoOrder /\ crashes' = crashes
                              /\ claimer'[c].pc = "idle")
          => \E s \in Slots : task'[claimer[c].order][s].kind = "release"]_vars

\* _finalize_success: "the form is wiped only after the mail was delivered".
WipedOnlyAfterMail ==
    \A o \in Orders : status[o] = "done" /\ ~form[o] => o \in mailed

\* The lifecycle of OrderStatus ends in DONE or REFUNDED.
TerminalStays ==
    [][\A o \in Orders : status[o] \in {"done", "refunded"} => status'[o] = status[o]]_vars

=============================================================================
