--------------------------- MODULE OrderLifecycle ---------------------------
(***************************************************************************)
(* The life of an order from the wizard to the delivered document: the     *)
(* endpoints of api/v1/orders.py and api/v1/webhooks.py, the background    *)
(* tasks of services/generation.py and the loops of main.py (auto-retry,   *)
(* reconcile, the cleanup of forms).  They share nothing but the orders    *)
(* table (and the payment journal) and run concurrently in several uvicorn *)
(* workers.                                                                *)
(*                                                                         *)
(* A step is one database transaction, or one call to the payment          *)
(* provider: what happens between two awaits of a handler.  A row lock     *)
(* that is held across a provider call is the state "locked"; one that is  *)
(* taken and released in the same transaction is the atomicity of a step.  *)
(***************************************************************************)
EXTENDS Naturals, FiniteSets

CONSTANTS
    Orders,         \* order ids
    Legacy,         \* rows left by the flow that took the money before it
                    \* generated: in the table from the start, no document
    Payments,       \* ids the provider may give to payments
    Hooks,          \* webhook requests being handled at a time
    Workers,        \* uvicorn workers: each runs every background loop
    Slots,          \* background tasks alive at a time, per order
    NoOrder,        \* yookassa / metadata value "none"
    NoPayment,
    MaxRetries,     \* _MAX_AUTO_RETRIES
    MaxCrashes      \* bound: tasks and handlers that die half-way

ASSUME ConstantsAssumption ==
    /\ Legacy \subseteq Orders
    /\ NoOrder \notin Orders
    /\ NoPayment \notin Payments
    /\ Hooks \cap Workers = {}
    /\ MaxRetries \in Nat
    /\ MaxCrashes \in Nat

VARIABLES
    \* the row of orders (and whether documents has a row for it)
    status, paidAt, payment, retries, form, document,
    locked,         \* orders whose row pay_order holds FOR UPDATE
    \* the payment provider
    charge,         \* its status of a payment
    payer,          \* the order it was created for (metadata.order_id)
    refunded,       \* payments whose money went back
    journal,        \* payment_events: outcome recorded for "payment.succeeded"
    \* the processes
    claimer,        \* webhook requests and reconcile loops
    sweep,          \* auto-retry loops
    task,           \* background tasks of an order
    mailed,         \* orders whose "document ready" mail left
    crashes

row  == <<status, paidAt, payment, retries, form, document>>
bank == <<charge, payer, refunded>>
vars == <<row, locked, bank, journal, claimer, sweep, task, mailed, crashes>>

Status == {"no_row", "generating", "preview_ready", "pending_payment", "paid",
           "done", "failed", "refunded"}
Outcome == {"none", "processed", "duplicate", "unmatched", "reconciled"}
Claimers == Hooks \cup Workers

Claimer == [pc : {"idle", "claim", "record"}, payment : Payments \cup {NoPayment},
            order : Orders \cup {NoOrder}]
IdleClaimer == [pc |-> "idle", payment |-> NoPayment, order |-> NoOrder]
About(p)    == [pc |-> "claim", payment |-> p, order |-> NoOrder]

\* tx1 of the auto-retry loop leaves the orders it has to refund in a local
\* list, which only lives until tx2 has committed.
Sweep == [pc : {"idle", "retry"}, refunds : SUBSET Orders]
IdleSweep == [pc |-> "idle", refunds |-> {}]

\* kind: run_preview_generation, run_document_generation,
\* run_document_release, _watchdog_refund.  last: notify_on_failure.
\* seen: the status the session loaded; an UPDATE only writes what differs.
Task == [kind : {"none", "preview", "generate", "release", "refund"},
         pc : {"start", "work", "refund", "mail"}, last : BOOLEAN, seen : Status]
NewTask(kind, last) ==
    [kind |-> kind, pc |-> "start", last |-> last, seen |-> "no_row"]
NoTask == NewTask("none", FALSE)

TypeOK ==
    /\ status \in [Orders -> Status]
    /\ paidAt \in [Orders -> {"null", "recent", "stale"}]
    /\ payment \in [Orders -> Payments \cup {NoPayment}]
    /\ retries \in [Orders -> 0..MaxRetries]
    /\ form \in [Orders -> BOOLEAN]
    /\ document \in [Orders -> BOOLEAN]
    /\ locked \subseteq Orders
    /\ charge \in [Payments -> {"free", "open", "succeeded"}]
    /\ payer \in [Payments -> Orders \cup {NoOrder}]
    /\ refunded \subseteq Payments
    /\ journal \in [Payments -> Outcome]
    /\ claimer \in [Claimers -> Claimer]
    /\ sweep \in [Workers -> Sweep]
    /\ task \in [Orders -> [Slots -> Task]]
    /\ mailed \subseteq Orders
    /\ crashes \in 0..MaxCrashes

\* The orders table as the present release found it.  A legacy row waits for
\* its first payment, or was paid long ago and left generating or failed.
Init ==
    /\ status \in [Orders -> {"no_row", "pending_payment", "generating", "failed"}]
    /\ \A o \in Orders : status[o] = "no_row" <=> o \notin Legacy
    /\ payment \in [Orders -> Payments \cup {NoPayment}]
    /\ \A o \in Orders : payment[o] = NoPayment
                            <=> status[o] \in {"no_row", "pending_payment"}
    /\ \A o, other \in Orders :
          payment[o] = payment[other] => o = other \/ payment[o] = NoPayment
    /\ paidAt = [o \in Orders |-> IF payment[o] = NoPayment THEN "null" ELSE "stale"]
    /\ retries = [o \in Orders |-> 0]
    /\ form = [o \in Orders |-> o \in Legacy]
    /\ document = [o \in Orders |-> FALSE]
    /\ locked = {}
    /\ payer \in [Payments -> Orders \cup {NoOrder}]
    /\ \A p \in Payments, o \in Orders : payer[p] = o <=> payment[o] = p
    /\ charge = [p \in Payments |-> IF payer[p] = NoOrder THEN "free" ELSE "succeeded"]
    /\ refunded = {}
    /\ journal = [p \in Payments |-> "none"]
    /\ claimer = [c \in Claimers |-> IdleClaimer]
    /\ sweep = [w \in Workers |-> IdleSweep]
    /\ task = [o \in Orders |-> [s \in Slots |-> NoTask]]
    /\ mailed = {}
    /\ crashes = 0

-----------------------------------------------------------------------------
(* Helpers.                                                                *)

Paid(o) == paidAt[o] # "null"

IsFree(o, s) == task[o][s].kind = "none"
HasSlot(o) == \E s \in Slots : IsFree(o, s)
FreeSlot(o) == CHOOSE s \in Slots : IsFree(o, s)

\* asyncio.create_task / BackgroundTasks.add_task for one order.
Spawn(o, new) == task' = [task EXCEPT ![o][FreeSlot(o)] = new]
Ends(o, s)    == task' = [task EXCEPT ![o][s] = NoTask]
Becomes(o, s, kind, pc, seen) ==
    task' = [task EXCEPT ![o][s] = [kind |-> kind, pc |-> pc,
                                    last |-> task[o][s].last, seen |-> seen]]
Goes(o, s, pc) == Becomes(o, s, task[o][s].kind, pc, task[o][s].seen)

\* order.status = v; commit: the session emits an UPDATE only when v differs
\* from what it loaded, and never looks at what the row holds by now.
Writes(o, s, v) ==
    status' = [status EXCEPT ![o] = IF task[o][s].seen = v THEN @ ELSE v]

-----------------------------------------------------------------------------
(* The customer: api/v1/orders.py.                                         *)

InitOrder(o) ==
    /\ status[o] = "no_row"
    /\ HasSlot(o)
    /\ status' = [status EXCEPT ![o] = "generating"]
    /\ form' = [form EXCEPT ![o] = TRUE]
    /\ Spawn(o, NewTask("preview", FALSE))
    /\ UNCHANGED <<paidAt, payment, retries, document, locked, bank, journal,
                   claimer, sweep, mailed, crashes>>

\* Faulty: the payment is offered while the preview is still being made.
PayableEarly(o) == status[o] \in {"generating", "preview_ready", "pending_payment"}

Payable(o) == status[o] \in {"preview_ready", "pending_payment"}

\* SELECT ... FOR UPDATE SKIP LOCKED, then create_payment with the lock held.
PayBegin(o) ==
    /\ o \notin locked
    /\ Payable(o)
    /\ locked' = locked \cup {o}
    /\ UNCHANGED <<row, bank, journal, claimer, sweep, task, mailed, crashes>>

PayCommit(o, p) ==
    /\ o \in locked
    /\ charge[p] = "free"
    /\ charge' = [charge EXCEPT ![p] = "open"]
    /\ payer' = [payer EXCEPT ![p] = o]
    /\ payment' = [payment EXCEPT ![o] = p]
    /\ status' = [status EXCEPT ![o] = "pending_payment"]
    /\ locked' = locked \ {o}
    /\ UNCHANGED <<paidAt, retries, form, document, refunded, journal, claimer,
                   sweep, task, mailed, crashes>>

\* create_payment raised (502) or the request died: the transaction rolls back.
PayRollback(o) ==
    /\ o \in locked
    /\ locked' = locked \ {o}
    /\ UNCHANGED <<row, bank, journal, claimer, sweep, task, mailed, crashes>>

\* The customer pays on the provider's page, of this or of an older attempt.
CustomerPays(p) ==
    /\ charge[p] = "open"
    /\ charge' = [charge EXCEPT ![p] = "succeeded"]
    /\ UNCHANGED <<row, locked, payer, refunded, journal, claimer, sweep, task,
                   mailed, crashes>>

\* Faulty: "retry" also while the order generates; also when it is done.
RetryableAnyTime(o) == status[o] \in {"failed", "generating"}
RetryableWhenDone(o) == status[o] \in {"failed", "done"}

Retryable(o) == status[o] = "failed"

\* Paid: release the document again.  Not paid: a new preview.
RetryTask(o) == IF Paid(o) THEN NewTask("release", TRUE) ELSE NewTask("preview", FALSE)

RetryOrder(o) ==
    /\ o \notin locked
    /\ Retryable(o)
    /\ HasSlot(o)
    /\ status' = [status EXCEPT ![o] = "generating"]
    /\ Spawn(o, RetryTask(o))
    /\ UNCHANGED <<paidAt, payment, retries, form, document, locked, bank,
                   journal, claimer, sweep, mailed, crashes>>

\* Half an hour goes by since paid_at.
PaidLongAgo(o) ==
    /\ paidAt[o] = "recent"
    /\ paidAt' = [paidAt EXCEPT ![o] = "stale"]
    /\ UNCHANGED <<status, payment, retries, form, document, locked, bank,
                   journal, claimer, sweep, task, mailed, crashes>>

-----------------------------------------------------------------------------
(* Claiming a payment: yookassa_webhook and _payment_reconcile_loop.       *)

\* A notification reaches us and GET /payments/{id} confirms it.  The provider
\* repeats a notification until it is answered, or it never arrives at all.
HookArrives(h, p) ==
    /\ claimer[h].pc = "idle"
    /\ charge[p] = "succeeded"
    /\ claimer' = [claimer EXCEPT ![h] = About(p)]
    /\ UNCHANGED <<row, locked, bank, journal, sweep, task, mailed, crashes>>

\* Faulty: payments the journal already knows are left out of the pass.
PendingUnjournalled(o) ==
    status[o] = "pending_payment" /\ payment[o] # NoPayment /\ journal[payment[o]] = "none"

Pending(o) == status[o] = "pending_payment" /\ payment[o] # NoPayment

\* The reconcile loop's list of pending orders is read without a lock; it
\* asks the provider about the payment the row had at that moment.
ReconcileReads(w, o) ==
    /\ claimer[w].pc = "idle"
    /\ Pending(o)
    /\ claimer' = [claimer EXCEPT ![w] = About(payment[o])]
    /\ UNCHANGED <<row, locked, bank, journal, sweep, task, mailed, crashes>>

\* Faulty: no look at the status; no look at the row lock.
ClaimableAgain(c, o) == payment[o] = claimer[c].payment /\ o \notin locked
ClaimableLocked(c, o) == payment[o] = claimer[c].payment /\ status[o] = "pending_payment"

\* The row claim_paid_order's SELECT ... FOR UPDATE SKIP LOCKED returns.
Claimable(c, o) ==
    /\ payment[o] = claimer[c].payment
    /\ status[o] = "pending_payment"
    /\ o \notin locked

\* Faulty: the reconcile loop leaves the journal to the webhook.
ToRecordHooksOnly(c, o) ==
    IF c \in Hooks THEN [pc |-> "record", payment |-> claimer[c].payment, order |-> o]
                   ELSE IdleClaimer

ToRecord(c, o) == [pc |-> "record", payment |-> claimer[c].payment, order |-> o]

\* Faulty: the provider is not asked (what a development setup does).
VerifiedUnasked(c) == TRUE

Verified(c) == charge[claimer[c].payment] = "succeeded"

ClaimHit(c, o) ==
    /\ claimer[c].pc = "claim"
    /\ Verified(c)
    /\ Claimable(c, o)
    /\ status' = [status EXCEPT ![o] = "paid"]
    /\ paidAt' = [paidAt EXCEPT ![o] = "recent"]
    /\ claimer' = [claimer EXCEPT ![c] = ToRecord(c, o)]
    /\ UNCHANGED <<payment, retries, form, document, locked, bank, journal,
                   sweep, task, mailed, crashes>>

\* Nothing to claim: the webhook still writes the journal, the loop goes on.
ClaimMiss(c) ==
    /\ claimer[c].pc = "claim"
    /\ Verified(c) => \A o \in Orders : ~Claimable(c, o)
    /\ claimer' = [claimer EXCEPT ![c] = IF c \in Hooks THEN ToRecord(c, NoOrder)
                                                        ELSE IdleClaimer]
    /\ UNCHANGED <<row, locked, bank, journal, sweep, task, mailed, crashes>>

\* Faulty: whatever was not claimed just now is "unmatched".
OutcomeByClaim(c) ==
    IF claimer[c].order = NoOrder THEN "unmatched"
    ELSE IF c \in Hooks THEN "processed" ELSE "reconciled"

OutcomeOf(c) ==
    IF claimer[c].order # NoOrder
    THEN IF c \in Hooks THEN "processed" ELSE "reconciled"
    ELSE IF \E o \in Orders : payment[o] = claimer[c].payment
         THEN "duplicate" ELSE "unmatched"

\* UNIQUE (payment_id, event_type): the second row is refused.
Inserts(c) == journal[claimer[c].payment] = "none"

\* The webhook releases only what it claimed AND was first to journal; the
\* reconcile loop does not look at record_payment_event's answer.
ReleaseDue(c) ==
    /\ claimer[c].order # NoOrder
    /\ c \in Hooks => Inserts(c)

RecordEvent(c) ==
    /\ claimer[c].pc = "record"
    /\ LET p == claimer[c].payment IN
       journal' = IF Inserts(c) THEN [journal EXCEPT ![p] = OutcomeOf(c)] ELSE journal
    /\ IF ReleaseDue(c)
       THEN /\ HasSlot(claimer[c].order)
            /\ Spawn(claimer[c].order, NewTask("release", TRUE))
       ELSE task' = task
    /\ claimer' = [claimer EXCEPT ![c] = IdleClaimer]
    /\ UNCHANGED <<row, locked, bank, sweep, mailed, crashes>>

\* The request or the pass dies (restart of the worker, lost database).
ClaimerDies(c) ==
    /\ claimer[c].pc # "idle"
    /\ crashes < MaxCrashes
    /\ crashes' = crashes + 1
    /\ claimer' = [claimer EXCEPT ![c] = IdleClaimer]
    /\ UNCHANGED <<row, locked, bank, journal, sweep, task, mailed>>

-----------------------------------------------------------------------------
(* _auto_retry_loop, and the hourly cleanup.                               *)

\* Faulty: the cutoff compared the wrong way round; one retry too many.
StuckRecently == {o \in Orders : status[o] = "generating" /\ paidAt[o] = "recent"}
ExhaustedLate(o) == retries[o] > MaxRetries

Stuck == {o \in Orders : status[o] = "generating" /\ paidAt[o] = "stale"}
Exhausted(o) == retries[o] >= MaxRetries
GivenUp == {o \in Stuck : Exhausted(o) /\ payment[o] # NoPayment}
ToRetry == {o \in Orders : status[o] = "failed" /\ Paid(o) /\ ~Exhausted(o)}

\* tx1, the watchdog: generating for long after paid_at, hence "crashed".
SweepStuck(w) ==
    /\ sweep[w].pc = "idle"
    /\ status' = [o \in Orders |-> IF o \in GivenUp THEN "refunded"
                                   ELSE IF o \in Stuck THEN "failed" ELSE status[o]]
    /\ form' = [o \in Orders |-> form[o] /\ o \notin GivenUp]
    /\ sweep' = [sweep EXCEPT ![w] = [pc |-> "retry", refunds |-> GivenUp]]
    /\ UNCHANGED <<paidAt, payment, retries, document, locked, bank, journal,
                   claimer, task, mailed, crashes>>

\* The last of the retries is the one that refunds and notifies on failure.
SweepTask(o) == IF o \in ToRetry THEN NewTask("generate", retries[o] + 1 >= MaxRetries)
                                 ELSE NewTask("refund", FALSE)

\* tx2, then create_task for every refund and for every retry.
SweepRetry(w) ==
    /\ sweep[w].pc = "retry"
    /\ \A o \in ToRetry \cup sweep[w].refunds : HasSlot(o)
    /\ retries' = [o \in Orders |-> IF o \in ToRetry THEN retries[o] + 1 ELSE retries[o]]
    /\ status' = [o \in Orders |-> IF o \in ToRetry THEN "generating" ELSE status[o]]
    /\ task' = [o \in Orders |->
                 IF o \in ToRetry \cup sweep[w].refunds
                 THEN [task[o] EXCEPT ![FreeSlot(o)] = SweepTask(o)] ELSE task[o]]
    /\ sweep' = [sweep EXCEPT ![w] = IdleSweep]
    /\ UNCHANGED <<paidAt, payment, form, document, locked, bank, journal,
                   claimer, mailed, crashes>>

\* Between the two transactions: the list of refunds is gone.
SweepDies(w) ==
    /\ sweep[w].pc = "retry"
    /\ crashes < MaxCrashes
    /\ crashes' = crashes + 1
    /\ sweep' = [sweep EXCEPT ![w] = IdleSweep]
    /\ UNCHANGED <<row, locked, bank, journal, claimer, task, mailed>>

\* Step 3 of the cleanup: thirty days after paid_at, or after created_at when that
\* is null, form_data of a done or failed order is emptied.  Any order that was
\* never paid may be that old.
PurgeForm(o) ==
    /\ status[o] \in {"done", "failed"}
    /\ paidAt[o] # "recent"
    /\ form[o]
    /\ form' = [form EXCEPT ![o] = FALSE]
    /\ UNCHANGED <<status, paidAt, payment, retries, document, locked, bank, journal,
                   claimer, sweep, task, mailed, crashes>>

-----------------------------------------------------------------------------
(* Background tasks: services/generation.py.                               *)

Is(o, s, kind, pc) == task[o][s].kind = kind /\ task[o][s].pc = pc

\* The session loads the order, without a lock and without asking its status.
\* A release that finds no document turns into a full generation.
TaskLoads(o, s) ==
    /\ task[o][s].kind \in {"preview", "generate", "release"}
    /\ task[o][s].pc = "start"
    /\ IF task[o][s].kind = "release" /\ ~document[o]
       THEN Becomes(o, s, "generate", "start", task[o][s].seen)
       ELSE Becomes(o, s, task[o][s].kind, "work", status[o])
    /\ UNCHANGED <<row, locked, bank, journal, claimer, sweep, mailed, crashes>>

PreviewReady(o, s) ==
    /\ Is(o, s, "preview", "work")
    /\ ~document[o]
    /\ document' = [document EXCEPT ![o] = TRUE]
    /\ Writes(o, s, "preview_ready")
    /\ Ends(o, s)
    /\ UNCHANGED <<paidAt, payment, retries, form, locked, bank, journal,
                   claimer, sweep, mailed, crashes>>

\* _finalize_success (which upserts the document) and _finalize_release.
Delivers(o, s) ==
    /\ task[o][s].kind \in {"generate", "release"}
    /\ task[o][s].pc = "work"
    /\ document' = [document EXCEPT ![o] = TRUE]
    /\ Writes(o, s, "done")
    /\ Goes(o, s, "mail")
    /\ UNCHANGED <<paidAt, payment, retries, form, locked, bank, journal,
                   claimer, sweep, mailed, crashes>>

\* send_document_ready may fail; the form is wiped either way.
MailsAndWipes(o, s) ==
    /\ task[o][s].pc = "mail"
    /\ mailed' \in {mailed, mailed \cup {o}}
    /\ form' = [form EXCEPT ![o] = FALSE]
    /\ Ends(o, s)
    /\ UNCHANGED <<status, paidAt, payment, retries, document, locked, bank,
                   journal, claimer, sweep, crashes>>

\* Faulty: the form is wiped as after the last attempt of a generation.
ReleaseFailsWiping(o, s) ==
    /\ Is(o, s, "release", "work")
    /\ form' = [form EXCEPT ![o] = FALSE]
    /\ Ends(o, s)
    /\ UNCHANGED <<status, paidAt, payment, retries, document, locked, bank,
                   journal, claimer, sweep, mailed, crashes>>

\* run_document_release only logs: "order stays paid for retry".
ReleaseFails(o, s) ==
    /\ Is(o, s, "release", "work")
    /\ Ends(o, s)
    /\ UNCHANGED <<row, locked, bank, journal, claimer, sweep, mailed, crashes>>

RefundsOnFailure(o, s) == task[o][s].last /\ payment[o] # NoPayment

\* A preview, or a generation that is not the last attempt.
GenerationFails(o, s) ==
    /\ task[o][s].pc = "work"
    /\ \/ task[o][s].kind = "preview"
       \/ task[o][s].kind = "generate" /\ ~RefundsOnFailure(o, s)
    /\ Writes(o, s, "failed")
    /\ Ends(o, s)
    /\ UNCHANGED <<paidAt, payment, retries, form, document, locked, bank,
                   journal, claimer, sweep, mailed, crashes>>

\* The provider takes the refund, refuses it, or cannot be reached.
Refunds(o) == refunded' \in {refunded, refunded \cup {payment[o]}}

\* _handle_generation_failure of the last attempt: the money first ...
LastAttemptRefunds(o, s) ==
    /\ Is(o, s, "generate", "work")
    /\ RefundsOnFailure(o, s)
    /\ Refunds(o)
    /\ Goes(o, s, "refund")
    /\ UNCHANGED <<row, locked, charge, payer, journal, claimer, sweep, mailed, crashes>>

\* ... then the row, whatever the provider said.
LastAttemptFails(o, s) ==
    /\ task[o][s].pc = "refund"
    /\ Writes(o, s, "refunded")
    /\ form' = [form EXCEPT ![o] = FALSE]
    /\ Ends(o, s)
    /\ UNCHANGED <<paidAt, payment, retries, document, locked, bank, journal,
                   claimer, sweep, mailed, crashes>>

WatchdogRefunds(o, s) ==
    /\ task[o][s].kind = "refund"
    /\ payment[o] # NoPayment
    /\ Refunds(o)
    /\ Ends(o, s)
    /\ UNCHANGED <<row, locked, charge, payer, journal, claimer, sweep, mailed, crashes>>

\* Restart of the worker, a garbage-collected task, a failing database.
TaskDies(o, s) ==
    /\ ~IsFree(o, s)
    /\ crashes < MaxCrashes
    /\ crashes' = crashes + 1
    /\ Ends(o, s)
    /\ UNCHANGED <<row, locked, bank, journal, claimer, sweep, mailed>>

-----------------------------------------------------------------------------
Customer ==
    \/ \E o \in Orders : \/ InitOrder(o) \/ PayBegin(o) \/ PayRollback(o)
                         \/ RetryOrder(o) \/ PaidLongAgo(o)
                         \/ \E p \in Payments : PayCommit(o, p)
    \/ \E p \in Payments : CustomerPays(p)

Claims ==
    \/ \E h \in Hooks, p \in Payments : HookArrives(h, p)
    \/ \E w \in Workers, o \in Orders : ReconcileReads(w, o)
    \/ \E c \in Claimers : \/ ClaimMiss(c) \/ RecordEvent(c) \/ ClaimerDies(c)
                           \/ \E o \in Orders : ClaimHit(c, o)

Sweeping ==
    \/ \E w \in Workers : SweepStuck(w) \/ SweepRetry(w) \/ SweepDies(w)
    \/ \E o \in Orders : PurgeForm(o)

\* What a task does by itself.
TaskStep(o, s) ==
    \/ TaskLoads(o, s)
    \/ PreviewReady(o, s)
    \/ Delivers(o, s)
    \/ MailsAndWipes(o, s)
    \/ ReleaseFails(o, s)
    \/ GenerationFails(o, s)
    \/ LastAttemptRefunds(o, s)
    \/ LastAttemptFails(o, s)
    \/ WatchdogRefunds(o, s)

Tasks == \E o \in Orders, s \in Slots : TaskStep(o, s) \/ TaskDies(o, s)

Next == Customer \/ Claims \/ Sweeping \/ Tasks

Spec == Init /\ [][Next]_vars

\* What the deployment schedules: every handler and task that is alive goes on,
\* every loop comes round, time passes.  Customers and webhooks are not fair.
\* Strong fairness is only asked of the reconcile loop, whose every pass visits
\* every pending order.
Fairness ==
    /\ \A o \in Orders : /\ WF_vars(PayRollback(o) \/ \E p \in Payments : PayCommit(o, p))
                         /\ WF_vars(PaidLongAgo(o))
                         /\ \A s \in Slots : WF_vars(TaskStep(o, s))
    /\ \A c \in Claimers : /\ WF_vars(ClaimMiss(c) \/ \E o \in Orders : ClaimHit(c, o))
                           /\ WF_vars(RecordEvent(c))
    /\ \A w \in Workers : /\ WF_vars(SweepStuck(w))
                          /\ WF_vars(SweepRetry(w))
                          /\ \A o \in Orders : SF_vars(ReconcileReads(w, o))

FairSpec == Spec /\ Fairness

=============================================================================
