-------------------------- MODULE OrderRefinement --------------------------
(***************************************************************************)
(* The order lifecycle implements OrderPromise: every step of an endpoint, *)
(* webhook, loop or task captures a payment, settles an order, delivers    *)
(* it, wavers on an order of the old flow, or changes nothing promised.    *)
(* And the lifecycle with the page of one order (OrderSite) implements     *)
(* OrderPage, so that the theorems about that page hold on the site.       *)
(***************************************************************************)
EXTENDS OrderSafety, OrderSite

LEMMA InitKeeps == Init => Promise!Init
<1> SUFFICES ASSUME Init PROVE Promise!Init
  OBVIOUS
<1> USE ConstantsAssumption DEF Init
<1>1. \A o \in Orders : Paid(o) <=> payment[o] # NoPayment
  BY DEF Paid
<1>2. SettledBy = payment
  BY <1>1 DEF SettledBy
<1>3. \A o \in Orders \ Legacy : payment[o] = NoPayment
  OBVIOUS
<1>4. Captured = {p \in Payments : \E o \in Orders : payment[o] = p}
  BY DEF Captured
<1>5. Stage = [o \in Orders |-> IF payment[o] = NoPayment THEN "unpaid" ELSE "owed"]
  BY <1>1 DEF Stage, StageOf
<1> QED
  BY <1>2, <1>3, <1>4, <1>5 DEF Promise!Init

\* A step that captures and settles nothing and leaves the stage of every fresh
\* order alone only wavers.
LEMMA Wavers ==
    ASSUME TypeOK, Captured' = Captured, SettledBy' = SettledBy,
           \A o \in Orders : Paid(o)' <=> Paid(o),
           \A o \in Fresh : StageOf(o)' = StageOf(o)
    PROVE  Promise!Waver
<1> DEFINE S == {o \in Legacy : Stage[o] # "unpaid"}
           new == [o \in S |-> StageOf(o)']
<1>1. S \subseteq Orders
  BY ConstantsAssumption
<1>2. new \in [S -> {"owed", "delivered", "refunded"}]
  BY <1>1 DEF Stage, StageOf
<1>3. Stage' = [o \in Orders |-> IF o \in S THEN new[o] ELSE Stage[o]]
  BY ConstantsAssumption DEF Stage, StageOf, Fresh
<1> HIDE DEF new
<1> QED
  BY <1>2, <1>3 DEF Promise!Waver

\* What neither claims nor captures, and ends no fresh order, only wavers.
LEMMA StatusWavers ==
    ASSUME Inv, payment' = payment, charge' = charge,
           \A o \in Orders : Paid(o)' <=> Paid(o),
           \A o \in Fresh : Paid(o) => status'[o] = status[o]
    PROVE  Promise!Waver
<1>1. Captured' = Captured
  BY DEF Captured
<1>2. SettledBy' = SettledBy
  BY DEF SettledBy
<1>3. \A o \in Fresh : StageOf(o)' = StageOf(o)
  BY DEF StageOf, Fresh
<1> QED
  BY <1>1, <1>2, <1>3, Wavers DEF Inv

LEMMA CustomerKeeps == Inv /\ Customer => Promise!Next
<1> SUFFICES ASSUME Inv, Customer PROVE Promise!Next
  OBVIOUS
<1> USE DEF Inv, TypeOK, Paid, row, bank
<1>1. ASSUME NEW o \in Orders,
             InitOrder(o) \/ PayBegin(o) \/ PayRollback(o) \/ RetryOrder(o) \/ PaidLongAgo(o)
      PROVE  Promise!Waver
  <2>1. payment' = payment /\ charge' = charge
    BY <1>1 DEF InitOrder, PayBegin, PayRollback, RetryOrder, PaidLongAgo
  <2>2. \A x \in Orders : Paid(x)' <=> Paid(x)
    BY <1>1 DEF InitOrder, PayBegin, PayRollback, RetryOrder, PaidLongAgo
  <2>3. \A x \in Fresh : Paid(x) => status'[x] = status[x]
    BY <1>1 DEF InitOrder, PayBegin, PayRollback, RetryOrder, PaidLongAgo, Retryable, RowInv, Fresh
  <2> QED
    BY <2>1, <2>2, <2>3, StatusWavers
<1>2. ASSUME NEW o \in Orders, NEW p \in Payments, PayCommit(o, p)
      PROVE  Promise!Waver
  <2>1. Captured' = Captured
    BY <1>2 DEF PayCommit, Captured
  <2>2. ~Paid(o) /\ paidAt' = paidAt /\ \A x \in Orders \ {o} : payment'[x] = payment[x] /\ status'[x] = status[x]
    BY <1>2 DEF PayCommit, RowInv
  <2>3. SettledBy' = SettledBy
    BY <2>2 DEF SettledBy
  <2>4. \A x \in Fresh : StageOf(x)' = StageOf(x)
    BY <2>2 DEF StageOf, Fresh
  <2> QED
    BY <2>1, <2>2, <2>3, <2>4, Wavers
<1>3. ASSUME NEW p \in Payments, CustomerPays(p)
      PROVE  Promise!Capture(p)
  <2>1. Captured' = Captured \cup {p}
    BY <1>3 DEF CustomerPays, Captured
  <2>2. SettledBy' = SettledBy /\ Stage' = Stage
    BY <1>3 DEF CustomerPays, SettledBy, Stage, StageOf
  <2> QED
    BY <2>1, <2>2 DEF Promise!Capture
<1> QED
  BY <1>1, <1>2, <1>3 DEF Customer, Promise!Next

LEMMA ClaimsKeeps == Inv /\ Claims => Promise!Next
<1> SUFFICES ASSUME Inv, Claims PROVE Promise!Next
  OBVIOUS
<1> USE DEF Inv, TypeOK, Paid
<1>1. ASSUME NEW c \in Claimers, NEW o \in Orders, ClaimHit(c, o)
      PROVE  Promise!Settle(o, payment[o]) /\ payment[o] \in Payments
  <2> DEFINE p == payment[o]
  <2>1. p \in Payments /\ charge[p] = "succeeded" /\ status[o] = "pending_payment" /\ ~Paid(o)
    BY <1>1 DEF ClaimHit, Claimable, Verified, ClaimInv, ClaimOK, RowInv
  <2>2. /\ charge' = charge /\ payment' = payment
        /\ paidAt' = [paidAt EXCEPT ![o] = "recent"] /\ status' = [status EXCEPT ![o] = "paid"]
    BY <1>1 DEF ClaimHit, bank
  <2>3. Stage[o] = "unpaid" /\ p \in Captured /\ Captured' = Captured
    BY <2>1, <2>2 DEF Stage, StageOf, Captured
  <2>4. \A other \in Orders : SettledBy[other] # p
    BY <2>1, ConstantsAssumption DEF SettledBy, MoneyInv
  <2>5. SettledBy' = [SettledBy EXCEPT ![o] = p]
    BY <2>2 DEF SettledBy
  <2>6. Stage' = [Stage EXCEPT ![o] = "owed"]
    BY <2>2 DEF Stage, StageOf
  <2> QED
    BY <2>1, <2>3, <2>4, <2>5, <2>6 DEF Promise!Settle
<1>2. ASSUME row' = row, bank' = bank PROVE Promise!Waver
  BY <1>2, StatusWavers DEF row, bank
<1>3. ASSUME NEW h \in Hooks, NEW p \in Payments, HookArrives(h, p) PROVE Promise!Waver
  BY <1>2, <1>3 DEF HookArrives
<1>4. ASSUME NEW w \in Workers, NEW o \in Orders, ReconcileReads(w, o) PROVE Promise!Waver
  BY <1>2, <1>4 DEF ReconcileReads
<1>5. ASSUME NEW c \in Claimers, ClaimMiss(c) \/ RecordEvent(c) \/ ClaimerDies(c)
      PROVE  Promise!Waver
  BY <1>2, <1>5 DEF ClaimMiss, RecordEvent, ClaimerDies
<1> QED
  BY <1>1, <1>3, <1>4, <1>5 DEF Claims, Promise!Next

LEMMA SweepingKeeps == Inv /\ Sweeping => Promise!Next
<1> SUFFICES ASSUME Inv, Sweeping PROVE Promise!Waver
  BY DEF Promise!Next
<1> USE DEF Inv, TypeOK, Paid, row, bank
<1>1. payment' = payment /\ charge' = charge /\ paidAt' = paidAt
  BY DEF Sweeping, SweepStuck, SweepRetry, SweepDies, PurgeForm
<1>2. \A o \in Fresh : Paid(o) => o \notin Stuck /\ o \notin ToRetry
  BY DEF Stuck, ToRetry, RowInv, Fresh
<1>3. \A o \in Fresh : Paid(o) => status'[o] = status[o]
  BY <1>2 DEF Sweeping, SweepStuck, SweepRetry, SweepDies, PurgeForm, GivenUp, Fresh
<1> QED
  BY <1>1, <1>3, StatusWavers

LEMMA TasksKeep == Inv /\ Tasks => Promise!Next
<1> SUFFICES ASSUME Inv, NEW o \in Orders, NEW s \in Slots, TaskStep(o, s) \/ TaskDies(o, s)
             PROVE  Promise!Waver \/ Promise!Deliver(o)
  BY DEF Tasks, Promise!Next
<1> USE DEF Inv, TypeOK, Paid, row, bank, Writes, Is
<1>1. CASE Delivers(o, s)
  <2>1. /\ payment' = payment /\ charge' = charge /\ paidAt' = paidAt
        /\ \A x \in Orders \ {o} : status'[x] = status[x]
        /\ status'[o] \in {status[o], "done"}
    BY <1>1 DEF Delivers
  <2>2. Paid(o)
    BY <1>1 DEF Delivers, TaskInv, TaskOK
  <2>3. CASE o \in Legacy \/ status'[o] = status[o]
    BY <2>1, <2>3, StatusWavers DEF Fresh
  <2>4. CASE o \in Fresh /\ status'[o] # status[o]
    <3>1. status[o] = "paid" /\ status'[o] = "done"
      BY <1>1, <2>1, <2>4 DEF Delivers, TaskInv, TaskOK, Fresh
    <3>2. Stage[o] = "owed"
      BY <2>2, <3>1 DEF Stage, StageOf
    <3>3. Stage' = [Stage EXCEPT ![o] = "delivered"]
      BY <2>1, <2>2, <3>1 DEF Stage, StageOf
    <3>4. Captured' = Captured /\ SettledBy' = SettledBy
      BY <2>1 DEF Captured, SettledBy
    <3> QED
      BY <3>2, <3>3, <3>4 DEF Promise!Deliver
  <2> QED
    BY <2>3, <2>4 DEF Fresh
<1>2. CASE ~Delivers(o, s)
  <2>1. payment' = payment /\ charge' = charge /\ paidAt' = paidAt
    BY <1>2 DEF TaskStep, TaskLoads, PreviewReady, MailsAndWipes, ReleaseFails, GenerationFails,
       LastAttemptRefunds, LastAttemptFails, WatchdogRefunds, TaskDies
  <2>2. \/ status' = status
        \/ /\ \A x \in Orders \ {o} : status'[x] = status[x]
           /\ task[o][s].kind \in {"preview", "generate"}
    BY <1>2 DEF TaskStep, TaskLoads, PreviewReady, MailsAndWipes, ReleaseFails, GenerationFails,
       LastAttemptRefunds, LastAttemptFails, WatchdogRefunds, TaskDies, TaskInv, TaskOK
  <2>3. \A x \in Fresh : Paid(x) => status'[x] = status[x]
    BY <2>2 DEF TaskInv, TaskOK, Fresh
  <2> QED
    BY <2>1, <2>3, StatusWavers
<1> QED
  BY <1>1, <1>2

\* Settlement is final, by one captured payment per order and one order per
\* payment, and a fresh order is delivered once, in every behaviour.
THEOREM Refines == Spec => KeepsPromise
<1>1. Inv /\ [Next]_vars => [Promise!Next]_<<Captured, SettledBy, Stage>>
  <2>1. UNCHANGED vars => UNCHANGED <<Captured, SettledBy, Stage>>
    BY DEF vars, row, bank, Captured, SettledBy, Stage, StageOf, Paid
  <2> QED
    BY <2>1, CustomerKeeps, ClaimsKeeps, SweepingKeeps, TasksKeep DEF Next
<1>2. Inv /\ [Next]_vars => [Promise!Next]_Promise!promiseVars
  BY <1>1 DEF Promise!promiseVars
<1> QED
  BY <1>2, InitKeeps, Safe, PTL DEF Spec, KeepsPromise, Promise!Spec

-----------------------------------------------------------------------------
(* The server with the page of one of its orders.                          *)

Tab == INSTANCE OrderPageProofs WITH status <- Shown

\* The server is still the server.
LEMMA SiteServes ==
    ASSUME SiteAssumption
    PROVE  SiteSpec => Spec
<1>1. SiteInit => Init
  BY DEF SiteInit
<1>2. [SiteNext]_siteVars => [Next]_vars
  <2>1. RetryOrder(Watched) => Next
    BY DEF SiteAssumption, Next, Customer
  <2>2. ASSUME NEW p \in Payments, PayCommit(Watched, p) PROVE Next
    BY <2>2 DEF SiteAssumption, Next, Customer
  <2> QED
    BY <2>1, <2>2 DEF SiteNext, ServerAlone, RetryFromPage, PayFromPage, PageAlone, siteVars
<1> QED
  BY <1>1, <1>2, PTL DEF SiteSpec, Spec

\* What the server does alone moves the status the page is told along Flow.
LEMMA ServerMovesAlong ==
    ASSUME SiteAssumption, Inv, [Next]_vars, Shown' # Shown
    PROVE  Shown' \in ShownStatus /\ <<Shown, Shown'>> \in Flow
<1>1. status'[Watched] # status[Watched]
  BY DEF Shown
<1>2. <<status[Watched], status'[Watched]>> \in MovesOf(Watched)
  BY <1>1, LegalMoves DEF SiteAssumption
<1>3. \A m \in Moves : m[1] \in ShownStatus /\ m[2] \in ShownStatus
  BY DEF Moves, FreshMoves, LegacyMoves, Verdict, ShownStatus
<1>4. "no_row" \notin ShownStatus
  BY DEF ShownStatus
<1>5. CASE status[Watched] = "no_row"
  <2>1. status'[Watched] = "generating"
    BY <1>2, <1>3, <1>4, <1>5 DEF MovesOf, Moves
  <2> QED
    BY <1>5, <2>1 DEF Shown
<1>6. CASE status[Watched] # "no_row"
  <2>1. <<status[Watched], status'[Watched]>> \in Flow
    BY <1>2, <1>6 DEF MovesOf, Flow
  <2>2. status'[Watched] \in ShownStatus
    BY <1>3, <2>1 DEF Flow, Moves
  <2> QED
    BY <1>4, <1>6, <2>1, <2>2 DEF Shown
<1> QED
  BY <1>5, <1>6

\* Every step of the server, of the page and of both is a step of OrderPage.
LEMMA SiteShows ==
    ASSUME SiteAssumption, Inv, [SiteNext]_siteVars
    PROVE  [Page!Next]_(Page!vars)
<1>1. CASE ServerAlone
  <2>1. CASE Shown' = Shown
    BY <1>1, <2>1 DEF ServerAlone, inTab, Page!vars, Page!buttons, Page!metrics
  <2>2. CASE Shown' # Shown
    <3>1. Shown' \in ShownStatus /\ <<Shown, Shown'>> \in Flow
      BY <1>1, <2>2, ServerMovesAlong DEF ServerAlone
    <3>2. Page!Reaches(Shown')
      BY <1>1, <2>2 DEF ServerAlone, Page!Reaches
    <3>3. Page!ServerMoves
      BY <1>1, <3>1, <3>2 DEF ServerAlone, Page!ServerMoves, Page!ShownStatus, ShownStatus,
         inTab, Page!buttons, Page!metrics
    <3> QED
      BY <3>3 DEF Page!Next
  <2> QED
    BY <2>1, <2>2
<1>2. CASE RetryFromPage \/ PayFromPage \/ PageAlone
  BY <1>2 DEF RetryFromPage, PayFromPage, PageAlone, Page!Next, Page!Answers
<1>3. CASE UNCHANGED siteVars
  BY <1>3 DEF siteVars, inTab, vars, row, Shown, Page!vars, Page!buttons, Page!metrics
<1> QED
  BY <1>1, <1>2, <1>3 DEF SiteNext

\* The page of OrderPage is the page of this server.
THEOREM SiteRefinesPage ==
    ASSUME SiteAssumption
    PROVE  SiteSpec => KeepsPage
<1>1. SiteInit => Page!Init
  BY DEF SiteInit
<1>2. Inv /\ [SiteNext]_siteVars => [Page!Next]_(Page!vars)
  BY SiteShows
<1> QED
  BY <1>1, <1>2, SiteServes, Safe, PTL DEF SiteSpec, KeepsPage, Page!Spec

\* The page that the theorems of OrderPageProofs are about is the same page.
LEMMA SamePage ==
    /\ Page!Init <=> Tab!Init
    /\ [Page!Next]_(Page!vars) <=> [Tab!Next]_(Tab!vars)
BY DEF Page!vars, Page!buttons, Page!metrics, Page!Polled, Page!Offered, Page!Busy,
     Page!Open, Page!Idle, Page!ShownStatus, Page!Init, Page!Reaches, Page!Counts,
     Page!Shows, Page!ServerMoves, Page!OpenPage, Page!Leaves, Page!ClosePage,
     Page!CloseToast, Page!Poll, Page!ServePoll, Page!LosePoll, Page!TakePoll,
     Page!ClickRetry, Page!ServeRetry, Page!RefuseRetry, Page!TakeRetry, Page!ClickPay,
     Page!Prepared, Page!ServePay, Page!RefusePay, Page!GoToPayment, Page!Network,
     Page!Answers, Page!Next,
     Tab!vars, Tab!buttons, Tab!metrics, Tab!Polled, Tab!Offered, Tab!Busy, Tab!Open,
     Tab!Idle, Tab!ShownStatus, Tab!Init, Tab!Reaches, Tab!Counts, Tab!Shows,
     Tab!ServerMoves, Tab!OpenPage, Tab!Leaves, Tab!ClosePage, Tab!CloseToast, Tab!Poll,
     Tab!ServePoll, Tab!LosePoll, Tab!TakePoll, Tab!ClickRetry, Tab!ServeRetry,
     Tab!RefuseRetry, Tab!TakeRetry, Tab!ClickPay, Tab!Prepared, Tab!ServePay,
     Tab!RefusePay, Tab!GoToPayment, Tab!Network, Tab!Answers, Tab!Next

\* Nothing the page shows, announces or counts is ahead of the row it is about.
LEMMA SiteNeverAhead ==
    ASSUME SiteAssumption
    PROVE  SiteSpec => []Tab!NeverAhead
<1>1. Flow \subseteq Tab!Moves /\ MaxGoals \in Nat \ {0}
  BY DEF SiteAssumption, Flow, Moves, FreshMoves, LegacyMoves, Verdict, Tab!Moves, Tab!FreshMoves,
     Tab!LegacyMoves, Tab!Verdict
<1>2. SiteSpec => Tab!Spec
  BY SamePage, SiteRefinesPage, PTL DEF KeepsPage, Page!Spec, Tab!Spec
<1> QED
  BY <1>1, <1>2, Tab!PageIsNeverAhead, PTL

\* The theorem about the page and those about the server, taken together: what the
\* customer reads off the page is true of the row, the document and the money.
THEOREM PageWordIsKept ==
    ASSUME SiteAssumption
    PROVE  SiteSpec => []PageKeepsWord
<1>1. Inv /\ Tab!NeverAhead => PageKeepsWord
  <2> SUFFICES ASSUME Inv, Tab!NeverAhead, Watched \in Fresh
               PROVE  /\ view \in {"preview_ready", "pending_payment", "paid", "done"}
                            => document[Watched]
                      /\ view \in {"paid", "done"} \/ toast \/ marked =>
                            /\ Paid(Watched)
                            /\ charge[payment[Watched]] = "succeeded"
                            /\ payer[payment[Watched]] = Watched
                      /\ view = "done" \/ toast => status[Watched] = "done"
    BY DEF PageKeepsWord
  <2> DEFINE Sold == {"preview_ready", "pending_payment", "paid", "done"}
             Paying == {"paid", "done"}
  <2>1. /\ {Sold, Paying, {"done"}} \subseteq SUBSET Tab!ShownStatus
        /\ Tab!Closed(Sold) /\ Tab!Closed(Paying) /\ Tab!Closed({"done"})
    BY DEF Tab!ShownStatus, Tab!Closed, Tab!OwnMoves, Flow, FreshMoves
  <2>2. /\ view \in Sold => Shown \in Sold
        /\ view \in Paying \/ toast \/ marked => Shown \in Paying
        /\ view = "done" \/ toast => Shown = "done"
    BY <2>1 DEF Tab!NeverAhead
  <2>3. Shown \in Sold => status[Watched] = Shown
    BY DEF Shown
  <2>4. status[Watched] \in Sold => document[Watched]
    BY DEF SiteAssumption, Inv, RowInv
  <2>5. status[Watched] \in Paying => Paid(Watched)
    BY DEF SiteAssumption, Inv, RowInv
  <2>6. Paid(Watched) => /\ charge[payment[Watched]] = "succeeded"
                         /\ payer[payment[Watched]] = Watched
    BY DEF SiteAssumption, Inv, MoneyInv
  <2> QED
    BY <2>2, <2>3, <2>4, <2>5, <2>6
<1> QED
  BY <1>1, SiteServes, Safe, SiteNeverAhead, PTL

=============================================================================
