---------------------------- MODULE OrderSafety ----------------------------
(***************************************************************************)
(* Proofs about the order lifecycle, for any orders, payments, workers,    *)
(* webhook requests, task slots and bounds: every step keeps the types,    *)
(* the invariant is inductive, and the safety properties of                *)
(* OrderProperties follow from it.                                         *)
(***************************************************************************)
EXTENDS OrderProperties, TLAPS

\* A new task goes to a slot that is free (create_task never replaces one).
LEMMA FreeSlotIsFree ==
    ASSUME NEW o \in Orders, HasSlot(o)
    PROVE  FreeSlot(o) \in Slots /\ IsFree(o, FreeSlot(o))
BY DEF HasSlot, FreeSlot

LEMMA NewTaskType ==
    ASSUME NEW kind \in {"none", "preview", "generate", "release", "refund"},
           NEW last \in BOOLEAN
    PROVE  NewTask(kind, last) \in Task
BY DEF NewTask, Task, Status

LEMMA IdleTypes == IdleClaimer \in Claimer /\ IdleSweep \in Sweep /\ NoTask \in Task
BY NewTaskType DEF IdleClaimer, Claimer, IdleSweep, Sweep, NoTask

\* Moving a task on, or turning a release into a generation, keeps it a task.
LEMMA TaskUpdateType ==
    ASSUME TypeOK, NEW o \in Orders, NEW s \in Slots, NEW new \in Task,
           task' = [task EXCEPT ![o][s] = new]
    PROVE  task' \in [Orders -> [Slots -> Task]]
BY DEF TypeOK

LEMMA InitType == Init => TypeOK
BY ConstantsAssumption, IdleTypes DEF Init, TypeOK, Status, Outcome

\* Endpoints keep the types of the orders table, the provider and the tasks.
LEMMA CustomerType == TypeOK /\ Customer => TypeOK'
<1> SUFFICES ASSUME TypeOK, Customer PROVE TypeOK'
  OBVIOUS
<1> USE DEF TypeOK
<1>1. ASSUME NEW o \in Orders, InitOrder(o) PROVE TypeOK'
  BY <1>1, FreeSlotIsFree, NewTaskType DEF InitOrder, Spawn, bank, Status
<1>2. ASSUME NEW o \in Orders, PayBegin(o) PROVE TypeOK'
  BY <1>2 DEF PayBegin, row, bank
<1>3. ASSUME NEW o \in Orders, PayRollback(o) PROVE TypeOK'
  BY <1>3 DEF PayRollback, row, bank
<1>4. ASSUME NEW o \in Orders, RetryOrder(o) PROVE TypeOK'
  BY <1>4, FreeSlotIsFree, NewTaskType DEF RetryOrder, RetryTask, Spawn, bank, Status
<1>5. ASSUME NEW o \in Orders, PaidLongAgo(o) PROVE TypeOK'
  BY <1>5 DEF PaidLongAgo, bank
<1>6. ASSUME NEW o \in Orders, NEW p \in Payments, PayCommit(o, p) PROVE TypeOK'
  BY <1>6 DEF PayCommit, Status
<1>7. ASSUME NEW p \in Payments, CustomerPays(p) PROVE TypeOK'
  BY <1>7 DEF CustomerPays, row
<1> QED
  BY <1>1, <1>2, <1>3, <1>4, <1>5, <1>6, <1>7 DEF Customer

LEMMA ClaimsType == TypeOK /\ Claims => TypeOK'
<1> SUFFICES ASSUME TypeOK, Claims PROVE TypeOK'
  OBVIOUS
<1> USE DEF TypeOK, Claimer, IdleClaimer, About, Claimers
<1>1. ASSUME NEW h \in Hooks, NEW p \in Payments, HookArrives(h, p) PROVE TypeOK'
  BY <1>1 DEF HookArrives, row, bank
<1>2. ASSUME NEW w \in Workers, NEW o \in Orders, ReconcileReads(w, o) PROVE TypeOK'
  BY <1>2 DEF ReconcileReads, row, bank
<1>3. ASSUME NEW c \in Claimers, NEW o \in Orders, ClaimHit(c, o) PROVE TypeOK'
  BY <1>3 DEF ClaimHit, ToRecord, bank, Status
<1>4. ASSUME NEW c \in Claimers, ClaimMiss(c) PROVE TypeOK'
  BY <1>4 DEF ClaimMiss, ToRecord, row, bank
<1>5. ASSUME NEW c \in Claimers, RecordEvent(c) PROVE TypeOK'
  <2>1. OutcomeOf(c) \in Outcome
    <3>1. CASE claimer[c].order # NoOrder
      BY <3>1 DEF OutcomeOf, Outcome
    <3>2. CASE claimer[c].order = NoOrder
      BY <3>2 DEF OutcomeOf, Outcome
    <3> QED
      BY <3>1, <3>2
  <2>2. journal' \in [Payments -> Outcome]
    BY <1>5, <2>1 DEF RecordEvent
  <2>3. task' \in [Orders -> [Slots -> Task]]
    <3>1. CASE ReleaseDue(c)
      <4> DEFINE o == claimer[c].order
      <4>1. o \in Orders
        BY <3>1 DEF ReleaseDue
      <4>2. HasSlot(o) /\ Spawn(o, NewTask("release", TRUE))
        BY <1>5, <3>1 DEF RecordEvent
      <4>3. FreeSlot(o) \in Slots
        BY <4>1, <4>2, FreeSlotIsFree
      <4> QED
        BY <4>1, <4>2, <4>3, NewTaskType, TaskUpdateType DEF Spawn
    <3>2. CASE ~ReleaseDue(c)
      BY <1>5, <3>2 DEF RecordEvent
    <3> QED
      BY <3>1, <3>2
  <2> QED
    BY <1>5, <2>2, <2>3 DEF RecordEvent, row, bank
<1>6. ASSUME NEW c \in Claimers, ClaimerDies(c) PROVE TypeOK'
  BY <1>6, ConstantsAssumption DEF ClaimerDies, row, bank
<1> QED
  BY <1>1, <1>2, <1>3, <1>4, <1>5, <1>6 DEF Claims

LEMMA SweepingType == TypeOK /\ Sweeping => TypeOK'
<1> SUFFICES ASSUME TypeOK, Sweeping PROVE TypeOK'
  OBVIOUS
<1> USE DEF TypeOK, Sweep, IdleSweep
<1>1. ASSUME NEW w \in Workers, SweepStuck(w) PROVE TypeOK'
  BY <1>1 DEF SweepStuck, bank, Status, GivenUp, Stuck
<1>2. ASSUME NEW w \in Workers, SweepRetry(w) PROVE TypeOK'
  <2>1. retries' \in [Orders -> 0..MaxRetries]
    BY <1>2, ConstantsAssumption DEF SweepRetry, ToRetry, Exhausted
  <2>2. task' \in [Orders -> [Slots -> Task]]
    <3> SUFFICES ASSUME NEW o \in Orders PROVE task'[o] \in [Slots -> Task]
      BY <1>2 DEF SweepRetry
    <3>1. SweepTask(o) \in Task
      BY NewTaskType, (retries[o] + 1 >= MaxRetries) \in BOOLEAN DEF SweepTask
    <3> QED
      BY <3>1, <1>2, FreeSlotIsFree DEF SweepRetry
  <2>3. status' \in [Orders -> Status]
    BY <1>2 DEF SweepRetry, Status
  <2> QED
    BY <1>2, <2>1, <2>2, <2>3 DEF SweepRetry, bank
<1>3. ASSUME NEW w \in Workers, SweepDies(w) PROVE TypeOK'
  BY <1>3, ConstantsAssumption DEF SweepDies, row, bank
<1>4. ASSUME NEW o \in Orders, PurgeForm(o) PROVE TypeOK'
  BY <1>4 DEF PurgeForm, bank
<1> QED
  BY <1>1, <1>2, <1>3, <1>4 DEF Sweeping

LEMMA TasksType == TypeOK /\ Tasks => TypeOK'
<1> SUFFICES ASSUME TypeOK, NEW o \in Orders, NEW s \in Slots,
                    TaskStep(o, s) \/ TaskDies(o, s)
             PROVE  TypeOK'
  BY DEF Tasks
<1>0. ASSUME NEW kind \in {"preview", "generate", "release", "refund"},
             NEW pc \in {"start", "work", "refund", "mail"},
             NEW seen \in Status, Becomes(o, s, kind, pc, seen)
      PROVE  task' \in [Orders -> [Slots -> Task]]
  BY <1>0, TaskUpdateType DEF Becomes, Task, TypeOK
<1> USE IdleTypes DEF TypeOK, row, bank, Writes, Ends, Goes, Is
<1>1. CASE TaskLoads(o, s)
  BY <1>0, <1>1 DEF TaskLoads, Task
<1>2. CASE PreviewReady(o, s)
  BY <1>2 DEF PreviewReady, Status
<1>3. CASE Delivers(o, s)
  <2>1. task' \in [Orders -> [Slots -> Task]]
    BY <1>0, <1>3 DEF Delivers, Task
  <2> QED
    BY <2>1, <1>3 DEF Delivers, Status
<1>4. CASE MailsAndWipes(o, s)
  BY <1>4 DEF MailsAndWipes
<1>5. CASE ReleaseFails(o, s)
  BY <1>5 DEF ReleaseFails
<1>6. CASE GenerationFails(o, s)
  BY <1>6 DEF GenerationFails, Status
<1>7. CASE LastAttemptRefunds(o, s)
  BY <1>0, <1>7 DEF LastAttemptRefunds, RefundsOnFailure, Refunds, Task
<1>8. CASE LastAttemptFails(o, s)
  BY <1>8 DEF LastAttemptFails, Status
<1>9. CASE WatchdogRefunds(o, s)
  BY <1>9 DEF WatchdogRefunds, Refunds
<1>10. CASE TaskDies(o, s)
  BY <1>10, ConstantsAssumption DEF TaskDies
<1> QED
  BY <1>1, <1>2, <1>3, <1>4, <1>5, <1>6, <1>7, <1>8, <1>9, <1>10 DEF TaskStep

LEMMA StutterType == TypeOK /\ UNCHANGED vars => TypeOK'
BY DEF TypeOK, vars, row, bank

\* Rows, payments, journal, processes and tasks stay what their declarations
\* say they are, through every interleaving and crash.
THEOREM TypeCorrect == Spec => []TypeOK
<1>1. TypeOK /\ [Next]_vars => TypeOK'
  BY CustomerType, ClaimsType, SweepingType, TasksType, StutterType DEF Next
<1> QED
  BY <1>1, InitType, PTL DEF Spec

-----------------------------------------------------------------------------
\* A write to one task slot leaves the other slots and orders alone.
LEMMA TaskWrite ==
    ASSUME TypeOK, NEW o \in Orders, NEW s \in Slots, NEW new,
           task' = [task EXCEPT ![o][s] = new]
    PROVE  /\ task'[o][s] = new
           /\ \A u \in Slots \ {s} : task'[o][u] = task[o][u]
           /\ \A other \in Orders \ {o} : task'[other] = task[other]
BY DEF TypeOK

\* create_task only fills a slot that was free.
LEMMA SpawnFillsFree ==
    ASSUME TypeOK, NEW o \in Orders, NEW new, HasSlot(o), Spawn(o, new)
    PROVE  \E s \in Slots :
              /\ IsFree(o, s)
              /\ task'[o][s] = new
              /\ \A u \in Slots \ {s} : task'[o][u] = task[o][u]
              /\ \A other \in Orders \ {o} : task'[other] = task[other]
<1>1. PICK s \in Slots : s = FreeSlot(o) /\ IsFree(o, s)
  BY FreeSlotIsFree
<1>2. task' = [task EXCEPT ![o][s] = new]
  BY <1>1 DEF Spawn
<1>3. /\ task'[o][s] = new
      /\ \A u \in Slots \ {s} : task'[o][u] = task[o][u]
      /\ \A other \in Orders \ {o} : task'[other] = task[other]
  BY <1>2 DEF TypeOK
<1> QED
  BY <1>1, <1>3

\* An order whose row and tasks a step does not touch keeps its tasks in order.
LEMMA TasksKept ==
    ASSUME TaskInv, NEW o \in Orders, NEW s \in Slots, task'[o] = task[o],
           status'[o] = status[o], paidAt'[o] = paidAt[o], document'[o] = document[o]
    PROVE  TaskOK(o, s)'
BY DEF TaskInv, TaskOK, Paid, Live, IsFree, Fresh

LEMMA InitInv == Init => Inv
<1> SUFFICES ASSUME Init PROVE RowInv /\ TaskInv /\ ClaimInv /\ MoneyInv
  BY InitType DEF Inv
<1> USE ConstantsAssumption
<1>1. RowInv
  BY DEF Init, RowInv, Paid, Fresh, Payable
<1>2. TaskInv
  BY DEF Init, TaskInv, TaskOK, Paid, Fresh, Live, IsFree, NoTask, NewTask
<1>3. ClaimInv
  BY DEF Init, ClaimInv, ClaimOK, IdleClaimer, IdleSweep
<1>4. MoneyInv
  BY SMTT(30) DEF Init, MoneyInv, JournalledIsPaid, RefundedWasClaimed, Paid
<1> QED
  BY <1>1, <1>2, <1>3, <1>4

LEMMA CustomerInv == Inv /\ Customer => Inv'
<1> SUFFICES ASSUME Inv, Customer PROVE RowInv' /\ TaskInv' /\ ClaimInv' /\ MoneyInv'
  BY CustomerType DEF Inv
<1> USE ConstantsAssumption DEF Inv, TypeOK
<1>1. ASSUME NEW o \in Orders, InitOrder(o)
      PROVE  RowInv' /\ TaskInv' /\ ClaimInv' /\ MoneyInv'
  <2>1. RowInv'
    BY <1>1
    DEF RowInv, InitOrder, Paid, Fresh, Payable, bank
  <2>2. TaskInv'
    <3> SUFFICES ASSUME NEW other \in Orders, NEW t \in Slots PROVE TaskOK(other, t)'
      BY DEF TaskInv
    <3>1. o \in Fresh /\ ~Paid(o) /\ \A u \in Slots : IsFree(o, u)
      BY <1>1 DEF InitOrder, RowInv, TaskInv, TaskOK, IsFree, Paid, Fresh, Task
    <3>2. HasSlot(o) /\ Spawn(o, NewTask("preview", FALSE))
      BY <1>1 DEF InitOrder
    <3>3. PICK s \in Slots :
             /\ task'[o][s] = NewTask("preview", FALSE)
             /\ \A u \in Slots \ {s} : task'[o][u] = task[o][u]
             /\ \A x \in Orders \ {o} : task'[x] = task[x]
      BY <3>2, SpawnFillsFree DEF NewTask
    <3>4. task'[o][s].kind = "preview" /\ task'[o][s].pc = "start"
      BY <3>3 DEF NewTask
    <3>5. \A u \in Slots \ {s} : task'[o][u].kind = "none"
      BY <3>1, <3>3 DEF IsFree
    <3>6. status'[o] = "generating" /\ paidAt' = paidAt
      BY <1>1 DEF InitOrder
    <3>7. CASE other = o /\ t = s
      BY <3>1, <3>4, <3>5, <3>6, <3>7 DEF TaskOK, IsFree, Live, Paid, Fresh
    <3>8. CASE other = o /\ t # s
      BY <3>1, <3>3, <3>8 DEF TaskInv, TaskOK, IsFree, Live
    <3>9. CASE other # o
      BY <1>1, <3>3, <3>9, TasksKept DEF InitOrder
    <3> QED
      BY <3>7, <3>8, <3>9
  <2>3. ClaimInv'
    BY <1>1, SpawnFillsFree
    DEF ClaimInv, ClaimOK, RowInv, InitOrder, Paid, Fresh, Holds, IsFree, Claimers, bank, NewTask
  <2>4. MoneyInv'
    BY <1>1
    DEF MoneyInv, InitOrder, JournalledIsPaid, RefundedWasClaimed, Paid, bank
  <2> QED
    BY <2>1, <2>2, <2>3, <2>4
<1>2. ASSUME NEW o \in Orders, PayBegin(o)
      PROVE  RowInv' /\ TaskInv' /\ ClaimInv' /\ MoneyInv'
  <2>1. RowInv'
    BY <1>2
    DEF RowInv, PayBegin, Paid, Fresh, Payable, row, bank
  <2>2. TaskInv'
    BY <1>2
    DEF TaskInv, PayBegin, TaskOK, Paid, Fresh, Live, IsFree, row, bank
  <2>3. ClaimInv'
    BY <1>2
    DEF ClaimInv, ClaimOK, PayBegin, Paid, Fresh, Holds, IsFree, Claimers, row, bank
  <2>4. MoneyInv'
    BY <1>2
    DEF MoneyInv, PayBegin, JournalledIsPaid, RefundedWasClaimed, Paid, row, bank
  <2> QED
    BY <2>1, <2>2, <2>3, <2>4
<1>3. ASSUME NEW o \in Orders, PayRollback(o)
      PROVE  RowInv' /\ TaskInv' /\ ClaimInv' /\ MoneyInv'
  <2>1. RowInv'
    BY <1>3
    DEF RowInv, PayRollback, Paid, Fresh, Payable, row, bank
  <2>2. TaskInv'
    BY <1>3
    DEF TaskInv, PayRollback, TaskOK, Paid, Fresh, Live, IsFree, row, bank
  <2>3. ClaimInv'
    BY <1>3
    DEF ClaimInv, ClaimOK, PayRollback, Paid, Fresh, Holds, IsFree, Claimers, row, bank
  <2>4. MoneyInv'
    BY <1>3
    DEF MoneyInv, PayRollback, JournalledIsPaid, RefundedWasClaimed, Paid, row, bank
  <2> QED
    BY <2>1, <2>2, <2>3, <2>4
<1>4. ASSUME NEW o \in Orders, RetryOrder(o)
      PROVE  RowInv' /\ TaskInv' /\ ClaimInv' /\ MoneyInv'
  <2>1. RowInv'
    BY <1>4
    DEF RowInv, RetryOrder, Paid, Fresh, Payable, bank, RetryTask, Retryable
  <2>2. TaskInv'
    <3> SUFFICES ASSUME NEW other \in Orders, NEW t \in Slots PROVE TaskOK(other, t)'
      BY DEF TaskInv
    <3>1. PICK s \in Slots :
             /\ task'[o][s] = RetryTask(o)
             /\ \A u \in Slots \ {s} : task'[o][u] = task[o][u]
             /\ \A x \in Orders \ {o} : task'[x] = task[x]
      BY <1>4, SpawnFillsFree DEF RetryOrder
    <3>2. status[o] = "failed" /\ status'[o] = "generating" /\ paidAt' = paidAt /\ document' = document
      BY <1>4 DEF RetryOrder, Retryable
    <3>3. CASE other = o /\ Paid(o)
      <4>1. o \in Legacy /\ task'[o][s].kind = "release" /\ task'[o][s].pc = "start"
        BY <3>1, <3>2, <3>3 DEF RowInv, Fresh, RetryTask, NewTask
      <4>2. CASE t = s
        BY <3>2, <3>3, <4>1, <4>2 DEF TaskOK, Paid, Fresh
      <4>3. CASE t # s
        BY <3>1, <3>2, <3>3, <4>1, <4>3 DEF TaskInv, TaskOK, Paid, Fresh
      <4> QED
        BY <4>2, <4>3
    <3>4. CASE other = o /\ ~Paid(o)
      <4>1. o \in Fresh /\ task'[o][s].kind = "preview" /\ task'[o][s].pc = "start"
        BY <3>1, <3>2, <3>4 DEF RowInv, Fresh, RetryTask, NewTask
      <4>2. \A u \in Slots : IsFree(o, u)
        BY <3>2, <3>4 DEF TaskInv, TaskOK, IsFree, Task
      <4>3. \A u \in Slots \ {s} : task'[o][u].kind = "none"
        BY <3>1, <4>2 DEF IsFree
      <4>4. CASE t = s
        BY <3>2, <3>4, <4>1, <4>3, <4>4 DEF TaskOK, Paid, IsFree, Live, Fresh
      <4>5. CASE t # s
        BY <3>1, <3>4, <4>2, <4>5 DEF TaskInv, TaskOK, IsFree, Live
      <4> QED
        BY <4>4, <4>5
    <3>5. CASE other # o
      BY <1>4, <3>1, <3>5, TasksKept DEF RetryOrder
    <3> QED
      BY <3>3, <3>4, <3>5
  <2>3. ClaimInv'
    BY <1>4, SpawnFillsFree
    DEF ClaimInv, ClaimOK, RowInv, RetryOrder, Paid, Fresh, Holds, IsFree, Claimers, bank, RetryTask, Retryable, NewTask
  <2>4. MoneyInv'
    BY <1>4
    DEF MoneyInv, RetryOrder, JournalledIsPaid, RefundedWasClaimed, Paid, bank, RetryTask, Retryable
  <2> QED
    BY <2>1, <2>2, <2>3, <2>4
<1>5. ASSUME NEW o \in Orders, PaidLongAgo(o)
      PROVE  RowInv' /\ TaskInv' /\ ClaimInv' /\ MoneyInv'
  <2>1. RowInv'
    BY <1>5
    DEF RowInv, PaidLongAgo, Paid, Fresh, Payable, bank
  <2>2. TaskInv'
    BY <1>5
    DEF TaskInv, PaidLongAgo, TaskOK, Paid, Fresh, Live, IsFree, bank
  <2>3. ClaimInv'
    BY <1>5
    DEF ClaimInv, ClaimOK, PaidLongAgo, Paid, Fresh, Holds, IsFree, Claimers, bank
  <2>4. MoneyInv'
    BY <1>5
    DEF MoneyInv, PaidLongAgo, JournalledIsPaid, RefundedWasClaimed, Paid, bank
  <2> QED
    BY <2>1, <2>2, <2>3, <2>4
<1>6. ASSUME NEW o \in Orders, NEW p \in Payments, PayCommit(o, p)
      PROVE  RowInv' /\ TaskInv' /\ ClaimInv' /\ MoneyInv'
  <2>1. RowInv'
    BY <1>6
    DEF RowInv, PayCommit, Paid, Fresh, Payable
  <2>2. TaskInv'
    <3> SUFFICES ASSUME NEW other \in Orders, NEW t \in Slots PROVE TaskOK(other, t)'
      BY DEF TaskInv
    <3>1. ~Paid(o) /\ status[o] # "generating"
      BY <1>6 DEF PayCommit, RowInv, Payable
    <3> QED
      BY <1>6, <3>1 DEF PayCommit, TaskInv, TaskOK, Paid, Fresh, Live, IsFree
  <2>3. ClaimInv'
    BY <1>6
    DEF ClaimInv, ClaimOK, RowInv, PayCommit, Paid, Fresh, Holds, IsFree, Claimers
  <2>4. MoneyInv'
    BY <1>6
    DEF MoneyInv, RowInv, PayCommit, JournalledIsPaid, RefundedWasClaimed, Paid
  <2> QED
    BY <2>1, <2>2, <2>3, <2>4
<1>7. ASSUME NEW p \in Payments, CustomerPays(p)
      PROVE  RowInv' /\ TaskInv' /\ ClaimInv' /\ MoneyInv'
  <2>1. RowInv'
    BY <1>7
    DEF RowInv, CustomerPays, Paid, Fresh, Payable, row
  <2>2. TaskInv'
    BY <1>7
    DEF TaskInv, CustomerPays, TaskOK, Paid, Fresh, Live, IsFree, row
  <2>3. ClaimInv'
    BY <1>7
    DEF ClaimInv, ClaimOK, CustomerPays, Paid, Fresh, Holds, IsFree, Claimers, row
  <2>4. MoneyInv'
    BY <1>7
    DEF MoneyInv, CustomerPays, JournalledIsPaid, RefundedWasClaimed, Paid, row
  <2> QED
    BY <2>1, <2>2, <2>3, <2>4
<1> QED
  BY <1>1, <1>2, <1>3, <1>4, <1>5, <1>6, <1>7 DEF Customer

LEMMA ClaimsInv == Inv /\ Claims => Inv'
<1> SUFFICES ASSUME Inv, Claims PROVE RowInv' /\ TaskInv' /\ ClaimInv' /\ MoneyInv'
  BY ClaimsType DEF Inv
<1> USE ConstantsAssumption DEF Inv, TypeOK
<1>1. ASSUME NEW h \in Hooks, NEW p \in Payments, HookArrives(h, p)
      PROVE  RowInv' /\ TaskInv' /\ ClaimInv' /\ MoneyInv'
  <2>1. RowInv'
    BY <1>1
    DEF RowInv, HookArrives, Paid, Fresh, Payable, row, bank, About
  <2>2. TaskInv'
    BY <1>1
    DEF TaskInv, HookArrives, TaskOK, Paid, Fresh, Live, IsFree, row, bank, About
  <2>3. ClaimInv'
    BY <1>1
    DEF ClaimInv, ClaimOK, HookArrives, Paid, Fresh, Holds, IsFree, Claimers, row, bank, About
  <2>4. MoneyInv'
    BY <1>1
    DEF MoneyInv, HookArrives, JournalledIsPaid, RefundedWasClaimed, Paid, row, bank, About
  <2> QED
    BY <2>1, <2>2, <2>3, <2>4
<1>2. ASSUME NEW w \in Workers, NEW o \in Orders, ReconcileReads(w, o)
      PROVE  RowInv' /\ TaskInv' /\ ClaimInv' /\ MoneyInv'
  <2>1. RowInv'
    BY <1>2
    DEF RowInv, ReconcileReads, Paid, Fresh, Payable, row, bank, About, Pending
  <2>2. TaskInv'
    BY <1>2
    DEF TaskInv, ReconcileReads, TaskOK, Paid, Fresh, Live, IsFree, row, bank, About, Pending
  <2>3. ClaimInv'
    BY <1>2
    DEF ClaimInv, ClaimOK, ReconcileReads, Paid, Fresh, Holds, IsFree, Claimers, row, bank, About, Pending
  <2>4. MoneyInv'
    BY <1>2
    DEF MoneyInv, ReconcileReads, JournalledIsPaid, RefundedWasClaimed, Paid, row, bank, About, Pending
  <2> QED
    BY <2>1, <2>2, <2>3, <2>4
<1>3. ASSUME NEW c \in Claimers, NEW o \in Orders, ClaimHit(c, o)
      PROVE  RowInv' /\ TaskInv' /\ ClaimInv' /\ MoneyInv'
  <2>1. RowInv'
    BY <1>3
    DEF RowInv, ClaimHit, Paid, Fresh, Payable, bank, ToRecord, Claimable, Verified
  <2>2. TaskInv'
    BY <1>3
    DEF TaskInv, ClaimHit, TaskOK, Paid, Fresh, Live, IsFree, bank, ToRecord, Claimable, Verified
  <2>3. ClaimInv'
    <3>1. status[o] = "pending_payment" /\ ~Paid(o) /\ claimer[c].pc = "claim"
      BY <1>3 DEF ClaimHit, Claimable, RowInv
    <3>2. claimer[c].order = NoOrder /\ \A d \in Claimers : claimer[d].order # o
      BY <3>1, ZenonT(40) DEF ClaimInv, ClaimOK
    <3>3. \A s \in Slots : o \in Fresh => IsFree(o, s)
      BY <3>1 DEF TaskInv, TaskOK, IsFree, Task
    <3>4. /\ claimer'[c] = ToRecord(c, o)
          /\ \A d \in Claimers \ {c} : claimer'[d] = claimer[d]
      BY <1>3 DEF ClaimHit
    <3>5. claimer'[c].pc = "record" /\ claimer'[c].order = o /\ claimer'[c].payment = claimer[c].payment
      BY <3>4 DEF ToRecord
    <3>6. /\ status'[o] = "paid" /\ paidAt'[o] = "recent" /\ payment' = payment /\ task' = task
          /\ \A x \in Orders \ {o} : status'[x] = status[x] /\ paidAt'[x] = paidAt[x]
      BY <1>3 DEF ClaimHit
    <3>7. payment[o] = claimer[c].payment /\ claimer[c].payment \in Payments /\ sweep' = sweep
      BY <1>3, <3>1 DEF ClaimHit, Claimable, ClaimInv, ClaimOK
    <3>8. ASSUME NEW d \in Claimers PROVE ClaimOK(d)'
      <4>1. CASE d = c
        BY <3>2, <3>3, <3>4, <3>5, <3>6, <3>7, <4>1 DEF ClaimOK, Holds, Paid, IsFree
      <4>2. CASE d # c
        <5>1. claimer'[d] = claimer[d] /\ claimer[d].order # o /\ claimer[d].order \in Orders \cup {NoOrder}
          BY <3>2, <3>4, <4>2 DEF Claimer
        <5>2. \A e \in Claimers : claimer'[e].order = claimer[d].order /\ e # c => claimer[e].order = claimer[d].order
          BY <3>4
        <5> QED
          BY <3>5, <3>6, <5>1, <5>2 DEF ClaimInv, ClaimOK, Holds, Paid, IsFree
      <4> QED
        BY <4>1, <4>2
    <3>9. ASSUME NEW w \in Workers, NEW x \in Orders, x \in sweep'[w].refunds
          PROVE  x \in Legacy /\ Paid(x)'
      BY <3>6, <3>7, <3>9 DEF ClaimInv, ClaimOK, Paid
    <3> QED
      BY <3>8, <3>9 DEF ClaimInv
  <2>4. MoneyInv'
    BY <1>3
    DEF MoneyInv, RowInv, ClaimInv, ClaimOK, ClaimHit, JournalledIsPaid, RefundedWasClaimed, Paid, bank, ToRecord, Claimable, Verified
  <2> QED
    BY <2>1, <2>2, <2>3, <2>4
<1>4. ASSUME NEW c \in Claimers, ClaimMiss(c)
      PROVE  RowInv' /\ TaskInv' /\ ClaimInv' /\ MoneyInv'
  <2>1. RowInv'
    BY <1>4
    DEF RowInv, ClaimMiss, Paid, Fresh, Payable, row, bank, ToRecord, IdleClaimer
  <2>2. TaskInv'
    BY <1>4
    DEF TaskInv, ClaimMiss, TaskOK, Paid, Fresh, Live, IsFree, row, bank, ToRecord, IdleClaimer
  <2>3. ClaimInv'
    BY <1>4
    DEF ClaimInv, ClaimOK, ClaimMiss, Paid, Fresh, Holds, IsFree, Claimers, row, bank, ToRecord, IdleClaimer
  <2>4. MoneyInv'
    BY <1>4
    DEF MoneyInv, ClaimMiss, JournalledIsPaid, RefundedWasClaimed, Paid, row, bank, ToRecord, IdleClaimer
  <2> QED
    BY <2>1, <2>2, <2>3, <2>4
<1>5. ASSUME NEW c \in Claimers, RecordEvent(c)
      PROVE  RowInv' /\ TaskInv' /\ ClaimInv' /\ MoneyInv'
  <2>1. RowInv'
    BY <1>5
    DEF RowInv, RecordEvent, Paid, Fresh, Payable, row, bank, IdleClaimer, ReleaseDue, NewTask
  <2>2. TaskInv'
    <3> SUFFICES ASSUME NEW other \in Orders, NEW t \in Slots PROVE TaskOK(other, t)'
      BY DEF TaskInv
    <3>1. status' = status /\ paidAt' = paidAt /\ document' = document
      BY <1>5 DEF RecordEvent, row
    <3>2. CASE ~ReleaseDue(c)
      BY <1>5, <3>1, <3>2, TasksKept DEF RecordEvent
    <3>3. CASE ReleaseDue(c)
      <4>1. PICK o \in Orders : o = claimer[c].order
        BY <3>3 DEF ReleaseDue, Claimer
      <4> HasSlot(o) /\ Spawn(o, NewTask("release", TRUE))
        BY <1>5, <3>3, <4>1 DEF RecordEvent
      <4>2. PICK s \in Slots :
               /\ task'[o][s] = NewTask("release", TRUE)
               /\ \A u \in Slots \ {s} : task'[o][u] = task[o][u]
               /\ \A x \in Orders \ {o} : task'[x] = task[x]
        BY SpawnFillsFree DEF NewTask
      <4>3. task'[o][s].kind = "release" /\ task'[o][s].pc = "start"
        BY <4>2 DEF NewTask
      <4>4. Paid(o) /\ (o \in Fresh => status[o] = "paid" /\ \A u \in Slots : IsFree(o, u))
        BY <3>3, <4>1 DEF ReleaseDue, ClaimInv, ClaimOK
      <4>5. CASE other = o /\ t = s
        BY <3>1, <4>2, <4>3, <4>4, <4>5 DEF TaskOK, IsFree, Live, Paid, Fresh
      <4>6. CASE other = o /\ t # s
        BY <3>1, <4>2, <4>3, <4>4, <4>6 DEF TaskInv, TaskOK, IsFree, Live, Paid, Fresh
      <4>7. CASE other # o
        BY <3>1, <4>2, <4>7, TasksKept
      <4> QED
        BY <4>5, <4>6, <4>7
    <3> QED
      BY <3>2, <3>3
  <2>3. ClaimInv'
    <3>1. row' = row /\ sweep' = sweep /\ claimer' = [claimer EXCEPT ![c] = IdleClaimer]
      BY <1>5 DEF RecordEvent
    <3>2. ASSUME NEW d \in Claimers PROVE ClaimOK(d)'
      <4>1. CASE d = c
        BY <3>1, <4>1 DEF ClaimOK, IdleClaimer
      <4>2. CASE d # c /\ claimer[d].order # NoOrder
        <5>1. claimer'[d] = claimer[d] /\ claimer[d].order \in Orders
          BY <3>1, <4>2 DEF Claimer
        <5>2. \A e \in Claimers : Holds(e, claimer[d].order)' => Holds(e, claimer[d].order)
          BY <3>1, <4>2, <5>1 DEF Holds, IdleClaimer
        <5>3. claimer[d].order \in Fresh => task'[claimer[d].order] = task[claimer[d].order]
          <6> SUFFICES ASSUME claimer[d].order \in Fresh
                       PROVE  task'[claimer[d].order] = task[claimer[d].order]
            OBVIOUS
          <6>1. claimer[d].order # claimer[c].order
            BY <4>2 DEF ClaimInv, ClaimOK, Holds
          <6>2. CASE ~ReleaseDue(c)
            BY <1>5, <6>2 DEF RecordEvent
          <6>3. CASE ReleaseDue(c)
            <7>1. claimer[c].order \in Orders
              BY <6>3 DEF ReleaseDue, Claimer
            <7> QED
              BY <1>5, <5>1, <6>1, <6>3, <7>1 DEF RecordEvent, Spawn
          <6> QED
            BY <6>2, <6>3
        <5> QED
          BY <3>1, <4>2, <5>1, <5>2, <5>3 DEF ClaimInv, ClaimOK, Holds, Paid, IsFree, row
      <4>3. CASE d # c /\ claimer[d].order = NoOrder
        BY <3>1, <4>3 DEF ClaimInv, ClaimOK
      <4> QED
        BY <4>1, <4>2, <4>3
    <3> QED
      BY <3>1, <3>2 DEF ClaimInv, Paid, row
  <2>4. MoneyInv'
    <3>1. row' = row /\ bank' = bank
      BY <1>5 DEF RecordEvent
    <3>2. claimer[c].payment \in Payments
      BY <1>5 DEF RecordEvent, ClaimInv, ClaimOK
    <3>3. OutcomeOf(c) \in {"processed", "reconciled"} =>
             \E o \in Orders : payment[o] = claimer[c].payment /\ Paid(o)
      <4>1. CASE claimer[c].order = NoOrder
        BY <4>1 DEF OutcomeOf
      <4>2. CASE claimer[c].order # NoOrder
        BY <4>2 DEF ClaimInv, ClaimOK, Claimer
      <4> QED
        BY <4>1, <4>2
    <3>4. \A p \in Payments : \/ journal'[p] = journal[p]
                              \/ p = claimer[c].payment /\ journal'[p] = OutcomeOf(c)
      <4>1. \/ journal' = journal
            \/ journal' = [journal EXCEPT ![claimer[c].payment] = OutcomeOf(c)]
        BY <1>5 DEF RecordEvent
      <4> QED
        BY <3>2, <4>1
    <3>5. JournalledIsPaid'
      BY <3>1, <3>2, <3>3, <3>4 DEF MoneyInv, JournalledIsPaid, Paid, row
    <3> QED
      BY <3>1, <3>5 DEF MoneyInv, RefundedWasClaimed, Paid, row, bank
  <2> QED
    BY <2>1, <2>2, <2>3, <2>4
<1>6. ASSUME NEW c \in Claimers, ClaimerDies(c)
      PROVE  RowInv' /\ TaskInv' /\ ClaimInv' /\ MoneyInv'
  <2>1. RowInv'
    BY <1>6
    DEF RowInv, ClaimerDies, Paid, Fresh, Payable, row, bank, IdleClaimer
  <2>2. TaskInv'
    BY <1>6
    DEF TaskInv, ClaimerDies, TaskOK, Paid, Fresh, Live, IsFree, row, bank, IdleClaimer
  <2>3. ClaimInv'
    BY <1>6
    DEF ClaimInv, ClaimOK, ClaimerDies, Paid, Fresh, Holds, IsFree, Claimers, row, bank, IdleClaimer
  <2>4. MoneyInv'
    BY <1>6
    DEF MoneyInv, ClaimerDies, JournalledIsPaid, RefundedWasClaimed, Paid, row, bank, IdleClaimer
  <2> QED
    BY <2>1, <2>2, <2>3, <2>4
<1> QED
  BY <1>1, <1>2, <1>3, <1>4, <1>5, <1>6 DEF Claims

LEMMA SweepingInv == Inv /\ Sweeping => Inv'
<1> SUFFICES ASSUME Inv, Sweeping PROVE RowInv' /\ TaskInv' /\ ClaimInv' /\ MoneyInv'
  BY SweepingType DEF Inv
<1> USE ConstantsAssumption DEF Inv, TypeOK
<1>1. ASSUME NEW w \in Workers, SweepStuck(w)
      PROVE  RowInv' /\ TaskInv' /\ ClaimInv' /\ MoneyInv'
  <2>1. RowInv'
    BY <1>1
    DEF RowInv, SweepStuck, Paid, Fresh, Payable, bank, Stuck, GivenUp
  <2>2. TaskInv'
    BY <1>1
    DEF TaskInv, SweepStuck, TaskOK, Paid, Fresh, Live, IsFree, bank, Stuck, GivenUp
  <2>3. ClaimInv'
    BY <1>1
    DEF ClaimInv, ClaimOK, RowInv, SweepStuck, Paid, Fresh, Holds, IsFree, Claimers, bank, Stuck, GivenUp
  <2>4. MoneyInv'
    BY <1>1
    DEF MoneyInv, SweepStuck, JournalledIsPaid, RefundedWasClaimed, Paid, bank, Stuck, GivenUp
  <2> QED
    BY <2>1, <2>2, <2>3, <2>4
<1>2. ASSUME NEW w \in Workers, SweepRetry(w)
      PROVE  RowInv' /\ TaskInv' /\ ClaimInv' /\ MoneyInv'
  <2>1. RowInv'
    BY <1>2
    DEF RowInv, SweepRetry, Paid, Fresh, Payable, bank, ToRetry, IdleSweep, SweepTask, NewTask
  <2>2. TaskInv'
    <3> SUFFICES ASSUME NEW other \in Orders, NEW t \in Slots PROVE TaskOK(other, t)'
      BY DEF TaskInv
    <3>1. /\ paidAt' = paidAt /\ document' = document
          /\ status'[other] = IF other \in ToRetry THEN "generating" ELSE status[other]
      BY <1>2 DEF SweepRetry
    <3>2. CASE other \notin ToRetry \cup sweep[w].refunds
      BY <1>2, <3>1, <3>2, TasksKept DEF SweepRetry
    <3>3. CASE other \in ToRetry \cup sweep[w].refunds
      <4>1. other \in Legacy /\ Paid(other)
        BY <3>3 DEF ToRetry, RowInv, ClaimInv, Fresh
      <4>2. PICK s \in Slots : s = FreeSlot(other)
        BY <1>2, <3>3, FreeSlotIsFree DEF SweepRetry
      <4>3. task'[other] = [task[other] EXCEPT ![s] = SweepTask(other)]
        BY <1>2, <3>3, <4>2 DEF SweepRetry
      <4>4. task'[other][s] = SweepTask(other) /\ \A u \in Slots \ {s} : task'[other][u] = task[other][u]
        BY <4>3
      <4>5. SweepTask(other).kind \in {"generate", "refund"} /\ SweepTask(other).pc = "start"
        BY DEF SweepTask, NewTask
      <4>6. CASE t = s
        BY <3>1, <4>1, <4>4, <4>5, <4>6 DEF TaskOK, Paid, Fresh
      <4>7. CASE t # s
        BY <3>1, <4>1, <4>4, <4>7 DEF TaskInv, TaskOK, Paid, Fresh
      <4> QED
        BY <4>6, <4>7
    <3> QED
      BY <3>2, <3>3
  <2>3. ClaimInv'
    BY <1>2, ZenonT(40)
    DEF ClaimInv, ClaimOK, SweepRetry, Paid, Fresh, Holds, IsFree, Claimers, bank, ToRetry, IdleSweep, SweepTask, NewTask
  <2>4. MoneyInv'
    BY <1>2
    DEF MoneyInv, SweepRetry, JournalledIsPaid, RefundedWasClaimed, Paid, bank, ToRetry, IdleSweep, SweepTask, NewTask
  <2> QED
    BY <2>1, <2>2, <2>3, <2>4
<1>3. ASSUME NEW w \in Workers, SweepDies(w)
      PROVE  RowInv' /\ TaskInv' /\ ClaimInv' /\ MoneyInv'
  <2>1. RowInv'
    BY <1>3
    DEF RowInv, SweepDies, Paid, Fresh, Payable, row, bank, IdleSweep
  <2>2. TaskInv'
    BY <1>3
    DEF TaskInv, SweepDies, TaskOK, Paid, Fresh, Live, IsFree, row, bank, IdleSweep
  <2>3. ClaimInv'
    BY <1>3
    DEF ClaimInv, ClaimOK, SweepDies, Paid, Fresh, Holds, IsFree, Claimers, row, bank, IdleSweep
  <2>4. MoneyInv'
    BY <1>3
    DEF MoneyInv, SweepDies, JournalledIsPaid, RefundedWasClaimed, Paid, row, bank, IdleSweep
  <2> QED
    BY <2>1, <2>2, <2>3, <2>4
<1>4. ASSUME NEW o \in Orders, PurgeForm(o)
      PROVE  RowInv' /\ TaskInv' /\ ClaimInv' /\ MoneyInv'
  <2>1. UNCHANGED <<status, paidAt, payment, document, locked, bank, journal, claimer,
                    sweep, task, mailed>>
    BY <1>4 DEF PurgeForm
  <2>2. RowInv' /\ TaskInv'
    BY <2>1 DEF RowInv, TaskInv, TaskOK, Paid, Fresh, Payable, Live, IsFree
  <2>3. ClaimInv'
    BY <2>1 DEF ClaimInv, ClaimOK, Paid, Fresh, Holds, IsFree
  <2>4. MoneyInv'
    BY <2>1 DEF MoneyInv, JournalledIsPaid, RefundedWasClaimed, Paid, bank
  <2> QED
    BY <2>2, <2>3, <2>4
<1> QED
  BY <1>1, <1>2, <1>3, <1>4 DEF Sweeping

LEMMA TasksInv == Inv /\ Tasks => Inv'
<1> SUFFICES ASSUME Inv, Tasks PROVE RowInv' /\ TaskInv' /\ ClaimInv' /\ MoneyInv'
  BY TasksType DEF Inv
<1> USE ConstantsAssumption DEF Inv, TypeOK
<1>1. ASSUME NEW o \in Orders, NEW s \in Slots, TaskLoads(o, s)
      PROVE  RowInv' /\ TaskInv' /\ ClaimInv' /\ MoneyInv'
  <2>1. RowInv'
    BY <1>1
    DEF RowInv, TaskInv, TaskOK, TaskLoads, Paid, Fresh, Payable, row, bank, Is, Writes, Ends, Goes, Becomes, NoTask, NewTask
  <2>2. TaskInv'
    <3> SUFFICES ASSUME NEW other \in Orders, NEW t \in Slots PROVE TaskOK(other, t)'
      BY DEF TaskInv
    <3>1. row' = row
      BY <1>1 DEF TaskLoads
    <3>2. PICK kind \in {"preview", "generate", "release"}, pc \in {"start", "work"}, seen \in Status :
             /\ Becomes(o, s, kind, pc, seen)
             /\ kind = "preview" => task[o][s].kind = "preview" /\ pc = "work" /\ seen = status[o]
             /\ kind = "release" => task[o][s].kind = "release" /\ task[o][s].pc = "start"
             /\ kind = "generate" =>
                   \/ task[o][s].kind = "generate"
                   \/ task[o][s].kind = "release" /\ task[o][s].pc = "start" /\ ~document[o]
      BY <1>1 DEF TaskLoads, Task, NewTask
    <3>3. /\ task'[o][s].kind = kind /\ task'[o][s].pc = pc /\ task'[o][s].seen = seen
          /\ \A u \in Slots \ {s} : task'[o][u] = task[o][u]
          /\ \A x \in Orders \ {o} : task'[x] = task[x]
      BY <3>2 DEF Becomes
    <3>4. task[o][s].pc = "start" /\ task[o][s].kind \in {"preview", "generate", "release"}
      BY <1>1 DEF TaskLoads
    <3>5. CASE other = o /\ t = s
      BY <3>1, <3>2, <3>3, <3>4, <3>5 DEF RowInv, TaskInv, TaskOK, Paid, Fresh, IsFree, Live, row
    <3>6. CASE other = o /\ t # s
      BY <3>1, <3>3, <3>4, <3>6 DEF TaskInv, TaskOK, Paid, Fresh, IsFree, Live, row
    <3>7. CASE other # o
      BY <3>1, <3>3, <3>7, TasksKept DEF row
    <3> QED
      BY <3>5, <3>6, <3>7
  <2>3. ClaimInv'
    <3>1. /\ row' = row /\ claimer' = claimer /\ sweep' = sweep
          /\ \A x \in Orders \ {o} : task'[x] = task[x]
      BY <1>1 DEF TaskLoads, Becomes
    <3>2. ~IsFree(o, s)
      BY <1>1 DEF TaskLoads, IsFree
    <3>3. ASSUME NEW d \in Claimers PROVE ClaimOK(d)'
      BY <3>1, <3>2 DEF ClaimInv, ClaimOK, Holds, Paid, IsFree, Claimer, row
    <3> QED
      BY <3>1, <3>3 DEF ClaimInv, Paid, row
  <2>4. MoneyInv'
    BY <1>1
    DEF MoneyInv, TaskLoads, JournalledIsPaid, RefundedWasClaimed, Paid, row, bank, Is, Writes, Ends, Goes, Becomes, NoTask, NewTask
  <2> QED
    BY <2>1, <2>2, <2>3, <2>4
<1>2. ASSUME NEW o \in Orders, NEW s \in Slots, PreviewReady(o, s)
      PROVE  RowInv' /\ TaskInv' /\ ClaimInv' /\ MoneyInv'
  <2>1. RowInv'
    BY <1>2
    DEF RowInv, TaskInv, TaskOK, PreviewReady, Paid, Fresh, Payable, row, bank, Is, Writes, Ends, Goes, Becomes, NoTask, NewTask
  <2>2. TaskInv'
    BY <1>2, TaskWrite
    DEF TaskInv, RowInv, PreviewReady, TaskOK, Paid, Fresh, Live, IsFree, row, bank, Is, Writes, Ends, Goes, Becomes, NoTask, NewTask
  <2>3. ClaimInv'
    BY <1>2, TaskWrite
    DEF ClaimInv, ClaimOK, TaskInv, TaskOK, PreviewReady, Paid, Fresh, Holds, IsFree, Claimers, row, bank, Is, Writes, Ends, Goes, Becomes, NoTask, NewTask
  <2>4. MoneyInv'
    BY <1>2
    DEF MoneyInv, PreviewReady, JournalledIsPaid, RefundedWasClaimed, Paid, row, bank, Is, Writes, Ends, Goes, Becomes, NoTask, NewTask
  <2> QED
    BY <2>1, <2>2, <2>3, <2>4
<1>3. ASSUME NEW o \in Orders, NEW s \in Slots, Delivers(o, s)
      PROVE  RowInv' /\ TaskInv' /\ ClaimInv' /\ MoneyInv'
  <2>1. RowInv'
    BY <1>3
    DEF RowInv, TaskInv, TaskOK, Delivers, Paid, Fresh, Payable, row, bank, Is, Writes, Ends, Goes, Becomes, NoTask, NewTask
  <2>2. TaskInv'
    BY <1>3, TaskWrite
    DEF TaskInv, RowInv, Delivers, TaskOK, Paid, Fresh, Live, IsFree, row, bank, Is, Writes, Ends, Goes, Becomes, NoTask, NewTask
  <2>3. ClaimInv'
    BY <1>3, TaskWrite
    DEF ClaimInv, ClaimOK, TaskInv, TaskOK, Delivers, Paid, Fresh, Holds, IsFree, Claimers, row, bank, Is, Writes, Ends, Goes, Becomes, NoTask, NewTask
  <2>4. MoneyInv'
    BY <1>3
    DEF MoneyInv, Delivers, JournalledIsPaid, RefundedWasClaimed, Paid, row, bank, Is, Writes, Ends, Goes, Becomes, NoTask, NewTask
  <2> QED
    BY <2>1, <2>2, <2>3, <2>4
<1>4. ASSUME NEW o \in Orders, NEW s \in Slots, MailsAndWipes(o, s)
      PROVE  RowInv' /\ TaskInv' /\ ClaimInv' /\ MoneyInv'
  <2>1. RowInv'
    <3>1. Paid(o) /\ document[o]
      BY <1>4 DEF MailsAndWipes, TaskInv, TaskOK
    <3>2. mailed' \subseteq mailed \cup {o}
      BY <1>4 DEF MailsAndWipes
    <3> QED
      BY <1>4, <3>1, <3>2 DEF MailsAndWipes, RowInv, Paid, Fresh, Payable
  <2>2. TaskInv'
    BY <1>4, TaskWrite
    DEF TaskInv, RowInv, MailsAndWipes, TaskOK, Paid, Fresh, Live, IsFree, row, bank, Is, Writes, Ends, Goes, Becomes, NoTask, NewTask
  <2>3. ClaimInv'
    BY <1>4, TaskWrite
    DEF ClaimInv, ClaimOK, TaskInv, TaskOK, MailsAndWipes, Paid, Fresh, Holds, IsFree, Claimers, row, bank, Is, Writes, Ends, Goes, Becomes, NoTask, NewTask
  <2>4. MoneyInv'
    BY <1>4
    DEF MoneyInv, MailsAndWipes, JournalledIsPaid, RefundedWasClaimed, Paid, row, bank, Is, Writes, Ends, Goes, Becomes, NoTask, NewTask
  <2> QED
    BY <2>1, <2>2, <2>3, <2>4
<1>5. ASSUME NEW o \in Orders, NEW s \in Slots, ReleaseFails(o, s)
      PROVE  RowInv' /\ TaskInv' /\ ClaimInv' /\ MoneyInv'
  <2>1. RowInv'
    BY <1>5
    DEF RowInv, TaskInv, TaskOK, ReleaseFails, Paid, Fresh, Payable, row, bank, Is, Writes, Ends, Goes, Becomes, NoTask, NewTask
  <2>2. TaskInv'
    BY <1>5, TaskWrite
    DEF TaskInv, RowInv, ReleaseFails, TaskOK, Paid, Fresh, Live, IsFree, row, bank, Is, Writes, Ends, Goes, Becomes, NoTask, NewTask
  <2>3. ClaimInv'
    BY <1>5, TaskWrite
    DEF ClaimInv, ClaimOK, TaskInv, TaskOK, ReleaseFails, Paid, Fresh, Holds, IsFree, Claimers, row, bank, Is, Writes, Ends, Goes, Becomes, NoTask, NewTask
  <2>4. MoneyInv'
    BY <1>5
    DEF MoneyInv, ReleaseFails, JournalledIsPaid, RefundedWasClaimed, Paid, row, bank, Is, Writes, Ends, Goes, Becomes, NoTask, NewTask
  <2> QED
    BY <2>1, <2>2, <2>3, <2>4
<1>6. ASSUME NEW o \in Orders, NEW s \in Slots, GenerationFails(o, s)
      PROVE  RowInv' /\ TaskInv' /\ ClaimInv' /\ MoneyInv'
  <2>1. RowInv'
    BY <1>6
    DEF RowInv, TaskInv, TaskOK, GenerationFails, Paid, Fresh, Payable, row, bank, Is, Writes, Ends, Goes, Becomes, NoTask, NewTask, RefundsOnFailure
  <2>2. TaskInv'
    BY <1>6, TaskWrite
    DEF TaskInv, RowInv, GenerationFails, TaskOK, Paid, Fresh, Live, IsFree, row, bank, Is, Writes, Ends, Goes, Becomes, NoTask, NewTask, RefundsOnFailure
  <2>3. ClaimInv'
    BY <1>6, TaskWrite
    DEF ClaimInv, ClaimOK, TaskInv, TaskOK, GenerationFails, Paid, Fresh, Holds, IsFree, Claimers, row, bank, Is, Writes, Ends, Goes, Becomes, NoTask, NewTask, RefundsOnFailure
  <2>4. MoneyInv'
    BY <1>6
    DEF MoneyInv, GenerationFails, JournalledIsPaid, RefundedWasClaimed, Paid, row, bank, Is, Writes, Ends, Goes, Becomes, NoTask, NewTask, RefundsOnFailure
  <2> QED
    BY <2>1, <2>2, <2>3, <2>4
<1>7. ASSUME NEW o \in Orders, NEW s \in Slots, LastAttemptRefunds(o, s)
      PROVE  RowInv' /\ TaskInv' /\ ClaimInv' /\ MoneyInv'
  <2>1. RowInv'
    BY <1>7
    DEF RowInv, TaskInv, TaskOK, LastAttemptRefunds, Paid, Fresh, Payable, row, bank, Is, Writes, Ends, Goes, Becomes, NoTask, NewTask, RefundsOnFailure, Refunds
  <2>2. TaskInv'
    BY <1>7, TaskWrite
    DEF TaskInv, RowInv, LastAttemptRefunds, TaskOK, Paid, Fresh, Live, IsFree, row, bank, Is, Writes, Ends, Goes, Becomes, NoTask, NewTask, RefundsOnFailure, Refunds
  <2>3. ClaimInv'
    BY <1>7, TaskWrite
    DEF ClaimInv, ClaimOK, TaskInv, TaskOK, LastAttemptRefunds, Paid, Fresh, Holds, IsFree, Claimers, row, bank, Is, Writes, Ends, Goes, Becomes, NoTask, NewTask, RefundsOnFailure, Refunds
  <2>4. MoneyInv'
    BY <1>7
    DEF MoneyInv, TaskInv, TaskOK, LastAttemptRefunds, JournalledIsPaid, RefundedWasClaimed, Paid, row, bank, Is, Writes, Ends, Goes, Becomes, NoTask, NewTask, RefundsOnFailure, Refunds
  <2> QED
    BY <2>1, <2>2, <2>3, <2>4
<1>8. ASSUME NEW o \in Orders, NEW s \in Slots, LastAttemptFails(o, s)
      PROVE  RowInv' /\ TaskInv' /\ ClaimInv' /\ MoneyInv'
  <2>1. RowInv'
    BY <1>8
    DEF RowInv, TaskInv, TaskOK, LastAttemptFails, Paid, Fresh, Payable, row, bank, Is, Writes, Ends, Goes, Becomes, NoTask, NewTask
  <2>2. TaskInv'
    BY <1>8, TaskWrite
    DEF TaskInv, RowInv, LastAttemptFails, TaskOK, Paid, Fresh, Live, IsFree, row, bank, Is, Writes, Ends, Goes, Becomes, NoTask, NewTask
  <2>3. ClaimInv'
    <3>1. /\ claimer' = claimer /\ sweep' = sweep /\ paidAt' = paidAt /\ payment' = payment
          /\ \A x \in Orders \ {o} : task'[x] = task[x] /\ status'[x] = status[x]
      BY <1>8 DEF LastAttemptFails, Ends, Writes
    <3>2. o \in Legacy
      BY <1>8 DEF LastAttemptFails, TaskInv, TaskOK
    <3>3. ASSUME NEW d \in Claimers PROVE ClaimOK(d)'
      BY <3>1, <3>2 DEF ClaimInv, ClaimOK, Holds, Paid, IsFree, Claimer, Fresh
    <3> QED
      BY <3>1, <3>3 DEF ClaimInv, Paid
  <2>4. MoneyInv'
    BY <1>8
    DEF MoneyInv, LastAttemptFails, JournalledIsPaid, RefundedWasClaimed, Paid, row, bank, Is, Writes, Ends, Goes, Becomes, NoTask, NewTask
  <2> QED
    BY <2>1, <2>2, <2>3, <2>4
<1>9. ASSUME NEW o \in Orders, NEW s \in Slots, WatchdogRefunds(o, s)
      PROVE  RowInv' /\ TaskInv' /\ ClaimInv' /\ MoneyInv'
  <2>1. RowInv'
    BY <1>9
    DEF RowInv, TaskInv, TaskOK, WatchdogRefunds, Paid, Fresh, Payable, row, bank, Is, Writes, Ends, Goes, Becomes, NoTask, NewTask, Refunds
  <2>2. TaskInv'
    BY <1>9, TaskWrite
    DEF TaskInv, RowInv, WatchdogRefunds, TaskOK, Paid, Fresh, Live, IsFree, row, bank, Is, Writes, Ends, Goes, Becomes, NoTask, NewTask, Refunds
  <2>3. ClaimInv'
    BY <1>9, TaskWrite
    DEF ClaimInv, ClaimOK, TaskInv, TaskOK, WatchdogRefunds, Paid, Fresh, Holds, IsFree, Claimers, row, bank, Is, Writes, Ends, Goes, Becomes, NoTask, NewTask, Refunds
  <2>4. MoneyInv'
    BY <1>9
    DEF MoneyInv, TaskInv, TaskOK, WatchdogRefunds, JournalledIsPaid, RefundedWasClaimed, Paid, row, bank, Is, Writes, Ends, Goes, Becomes, NoTask, NewTask, Refunds
  <2> QED
    BY <2>1, <2>2, <2>3, <2>4
<1>10. ASSUME NEW o \in Orders, NEW s \in Slots, TaskDies(o, s)
      PROVE  RowInv' /\ TaskInv' /\ ClaimInv' /\ MoneyInv'
  <2>1. RowInv'
    BY <1>10
    DEF RowInv, TaskInv, TaskOK, TaskDies, Paid, Fresh, Payable, row, bank, Is, Writes, Ends, Goes, Becomes, NoTask, NewTask
  <2>2. TaskInv'
    BY <1>10, TaskWrite
    DEF TaskInv, RowInv, TaskDies, TaskOK, Paid, Fresh, Live, IsFree, row, bank, Is, Writes, Ends, Goes, Becomes, NoTask, NewTask
  <2>3. ClaimInv'
    BY <1>10, TaskWrite
    DEF ClaimInv, ClaimOK, TaskInv, TaskOK, TaskDies, Paid, Fresh, Holds, IsFree, Claimers, row, bank, Is, Writes, Ends, Goes, Becomes, NoTask, NewTask
  <2>4. MoneyInv'
    BY <1>10
    DEF MoneyInv, TaskDies, JournalledIsPaid, RefundedWasClaimed, Paid, row, bank, Is, Writes, Ends, Goes, Becomes, NoTask, NewTask
  <2> QED
    BY <2>1, <2>2, <2>3, <2>4
<1> QED
  BY <1>1, <1>2, <1>3, <1>4, <1>5, <1>6, <1>7, <1>8, <1>9, <1>10 DEF Tasks, TaskStep

LEMMA StutterInv == Inv /\ UNCHANGED vars => Inv'
BY StutterType DEF Inv, TypeOK, RowInv, TaskInv, TaskOK, ClaimInv, ClaimOK, MoneyInv,
   JournalledIsPaid, RefundedWasClaimed, Paid, Fresh, Live, Holds, IsFree, Payable, vars, row, bank

\* Rows, tasks, claimers and money stay consistent with one another in every
\* interleaving of endpoints, webhooks, loops, tasks and crashes.
THEOREM Safe == Spec => []Inv
<1>1. Inv /\ [Next]_vars => Inv'
  BY CustomerInv, ClaimsInv, SweepingInv, TasksInv, StutterInv DEF Next
<1> QED
  BY <1>1, InitInv, PTL DEF Spec

(***************************************************************************)
(* What the invariant is for.                                              *)
(***************************************************************************)

\* init_order and retry_order never start a second preview of an order, nor
\* one beside another task or of an order that has a document.
THEOREM PreviewsExclude == Spec => []PreviewExclusive
<1>1. Inv => PreviewExclusive
  BY DEF Inv, RowInv, TaskInv, TaskOK, PreviewExclusive, Payable, Live, IsFree, Fresh
<1> QED
  BY <1>1, Safe, PTL

\* claim_paid_order only sets paid_at for a captured payment of that order.
THEOREM PaidRightly == Spec => []PaidByItsPayment
<1>1. Inv => PaidByItsPayment
  BY DEF Inv, TypeOK, MoneyInv, PaidByItsPayment
<1> QED
  BY <1>1, Safe, PTL

\* The download gate opens, and the mail leaves, only after the payment.
THEOREM DonePaid == Spec => []DoneIsPaid
<1>1. Inv => DoneIsPaid
  BY DEF Inv, RowInv, DoneIsPaid
<1> QED
  BY <1>1, Safe, PTL

\* In the present flow a paid order has its document and never fails again.
THEOREM FreshPaidKept == Spec => []FreshPaidHasDocument
<1>1. Inv => FreshPaidHasDocument
  BY DEF Inv, RowInv, FreshPaidHasDocument, Fresh
<1> QED
  BY <1>1, Safe, PTL

\* Overlapping webhooks and reconcile passes release a paid order once.
THEOREM OneRelease == Spec => []ReleasedOnce
<1>1. Inv => ReleasedOnce
  <2> SUFFICES ASSUME Inv, NEW o \in Fresh, Paid(o)
               PROVE  /\ \A c, d \in Claimers : Holds(c, o) /\ Holds(d, o) => c = d
                      /\ \A s, t \in Slots : Live(o, s) /\ Live(o, t) => s = t
                      /\ \A c \in Claimers, s \in Slots : ~(Holds(c, o) /\ Live(o, s))
                      /\ \A c \in Claimers : Holds(c, o) => status[o] = "paid"
                      /\ \A s \in Slots : Live(o, s) /\ task[o][s].pc # "mail" => status[o] = "paid"
    BY DEF ReleasedOnce
  <2>1. o \in Orders /\ o # NoOrder
    BY ConstantsAssumption DEF Fresh
  <2>2. \A s \in Slots : Live(o, s) => \A t \in Slots \ {s} : IsFree(o, t)
    BY <2>1 DEF Inv, TaskInv, TaskOK
  <2>3. ASSUME NEW c \in Claimers, Holds(c, o)
        PROVE  /\ status[o] = "paid"
               /\ \A s \in Slots : IsFree(o, s)
               /\ \A d \in Claimers : Holds(d, o) => d = c
    BY <2>1, <2>3 DEF Inv, ClaimInv, ClaimOK, Holds
  <2>4. ASSUME NEW s \in Slots, Live(o, s), task[o][s].pc # "mail" PROVE status[o] = "paid"
    <3>1. task[o][s].kind = "release"
      BY <2>1, <2>4 DEF Inv, TypeOK, Task, TaskInv, TaskOK, Live, IsFree, Fresh
    <3> QED
      BY <2>1, <2>4, <3>1 DEF Inv, TaskInv, TaskOK
  <2> QED
    BY <2>2, <2>3, <2>4 DEF Live
<1> QED
  BY <1>1, Safe, PTL

\* The journal never claims more than the orders table.
THEOREM JournalIsTrue == Spec => []JournalledIsPaid
<1>1. Inv => JournalledIsPaid
  BY DEF Inv, MoneyInv
<1> QED
  BY <1>1, Safe, PTL

\* Refunds only touch money that was claimed for an order of the old flow: the
\* watchdog and the last attempt, whatever each of them had read before.
THEOREM RefundsWereClaimed == Spec => []RefundedWasClaimed
<1>1. Inv => RefundedWasClaimed
  BY DEF Inv, MoneyInv
<1> QED
  BY <1>1, Safe, PTL

\* No pay request that waits for the provider, no late webhook and no task
\* takes a claim back or puts another payment under it.
THEOREM ClaimsAreFinal == Spec => ClaimIsFinal
<1>1. Inv /\ [Next]_vars => \A o \in Orders : Paid(o) => Paid(o)' /\ payment'[o] = payment[o]
  <2> SUFFICES ASSUME Inv, [Next]_vars, NEW o \in Orders, Paid(o)
               PROVE  Paid(o)' /\ payment'[o] = payment[o]
    OBVIOUS
  <2> USE DEF Inv, TypeOK, Paid, row
  <2>1. ASSUME NEW x \in Orders, NEW p \in Payments, PayCommit(x, p)
        PROVE  Paid(o)' /\ payment'[o] = payment[o]
    BY <2>1 DEF PayCommit, RowInv
  <2>2. ASSUME NEW c \in Claimers, NEW x \in Orders, ClaimHit(c, x)
        PROVE  Paid(o)' /\ payment'[o] = payment[o]
    BY <2>2 DEF ClaimHit
  <2>3. ASSUME NEW x \in Orders, PaidLongAgo(x)
        PROVE  Paid(o)' /\ payment'[o] = payment[o]
    BY <2>3 DEF PaidLongAgo
  <2>4. CASE Customer
    BY <2>1, <2>3, <2>4 DEF Customer, InitOrder, PayBegin, PayRollback, RetryOrder, CustomerPays
  <2>5. CASE Claims
    BY <2>2, <2>5 DEF Claims, HookArrives, ReconcileReads, ClaimMiss, RecordEvent, ClaimerDies
  <2>6. CASE Sweeping
    BY <2>6 DEF Sweeping, SweepStuck, SweepRetry, SweepDies, PurgeForm
  <2>7. CASE Tasks
    BY <2>7 DEF Tasks, TaskStep, TaskLoads, PreviewReady, Delivers, MailsAndWipes, ReleaseFails,
       GenerationFails, LastAttemptRefunds, LastAttemptFails, WatchdogRefunds, TaskDies
  <2>8. CASE UNCHANGED vars
    BY <2>8 DEF vars
  <2> QED
    BY <2>4, <2>5, <2>6, <2>7, <2>8 DEF Next
<1>2. Inv /\ [Next]_vars
        => [\A o \in Orders : Paid(o) => Paid(o)' /\ payment'[o] = payment[o]]_vars
  BY <1>1
<1> QED
  BY <1>2, Safe, PTL DEF Spec, ClaimIsFinal

\* An order that keeps its tasks and is nobody's claim stays out of all hands.
LEMMA OutOfHands ==
    ASSUME NEW o \in Orders, \A c \in Claimers : ~Holds(c, o), task'[o] = task[o],
           \A c \in Claimers : claimer'[c] = claimer[c] \/ claimer'[c].order # o
    PROVE  /\ \A c \in Claimers : ~Holds(c, o)'
           /\ \A s \in Slots : IsFree(o, s) => IsFree(o, s)'
BY DEF Holds, IsFree

\* What is released is never released again: no endpoint, claim or loop starts
\* another task for a paid order of the present flow.
THEOREM NoSecondRelease == Spec => NeverReleasedAgain
<1> DEFINE Rests(o) == /\ \A c \in Claimers : ~Holds(c, o)'
                       /\ \A s \in Slots : IsFree(o, s) => IsFree(o, s)'
<1>1. Inv /\ [Next]_vars =>
        \A o \in Fresh : Paid(o) /\ (\A c \in Claimers : ~Holds(c, o)) => Rests(o)
  <2> SUFFICES ASSUME Inv, [Next]_vars, NEW o \in Fresh, Paid(o),
                      \A c \in Claimers : ~Holds(c, o)
               PROVE  Rests(o)
    OBVIOUS
  <2>0. o \in Orders /\ status[o] \in {"paid", "done"}
    BY DEF Fresh, Inv, RowInv
  <2> HIDE DEF Rests
  <2> USE DEF Inv, TypeOK
  <2>1. ASSUME task'[o] = task[o],
               \A c \in Claimers : claimer'[c] = claimer[c] \/ claimer'[c].order # o
        PROVE  Rests(o)
    BY <2>0, <2>1, OutOfHands DEF Rests
  <2>2. CASE Customer
    <3>1. claimer' = claimer
      BY <2>2 DEF Customer, InitOrder, PayBegin, PayCommit, PayRollback, CustomerPays, RetryOrder,
         PaidLongAgo
    <3>2. task'[o] = task[o]
      BY <2>0, <2>2, ZenonT(40) DEF Customer, InitOrder, PayBegin, PayCommit, PayRollback, CustomerPays,
         RetryOrder, Retryable, PaidLongAgo, Spawn
    <3> QED
      BY <2>1, <3>1, <3>2
  <2>3. CASE Claims
    <3>1. ASSUME NEW h \in Hooks, NEW p \in Payments, HookArrives(h, p) PROVE Rests(o)
      BY <2>0, <2>1, <3>1, ConstantsAssumption DEF HookArrives, About, Claimers
    <3>2. ASSUME NEW w \in Workers, NEW x \in Orders, ReconcileReads(w, x) PROVE Rests(o)
      BY <2>0, <2>1, <3>2, ConstantsAssumption DEF ReconcileReads, About, Claimers
    <3>3. ASSUME NEW c \in Claimers, ClaimMiss(c) \/ ClaimerDies(c) PROVE Rests(o)
      BY <2>0, <2>1, <3>3, ConstantsAssumption DEF ClaimMiss, ClaimerDies, ToRecord, IdleClaimer
    <3>4. ASSUME NEW c \in Claimers, RecordEvent(c) PROVE Rests(o)
      <4>1. claimer[c].order # o
        BY DEF Holds
      <4>2. task'[o] = task[o]
        BY <2>0, <3>4, <4>1 DEF RecordEvent, Spawn
      <4> QED
        BY <2>0, <2>1, <3>4, <4>2, ConstantsAssumption DEF RecordEvent, IdleClaimer
    <3>5. ASSUME NEW c \in Claimers, NEW x \in Orders, ClaimHit(c, x) PROVE Rests(o)
      <4>1. x # o
        BY <2>0, <3>5 DEF ClaimHit, Claimable
      <4> QED
        BY <2>1, <3>5, <4>1 DEF ClaimHit, ToRecord
    <3> QED
      BY <2>3, <3>1, <3>2, <3>3, <3>4, <3>5 DEF Claims
  <2>4. CASE Sweeping
    <3>1. \A w \in Workers : o \notin ToRetry \cup sweep[w].refunds
      BY <2>0 DEF ToRetry, ClaimInv, Fresh
    <3>2. claimer' = claimer /\ task'[o] = task[o]
      BY <2>0, <2>4, <3>1 DEF Sweeping, SweepStuck, SweepRetry, SweepDies, PurgeForm
    <3> QED
      BY <2>1, <3>2
  <2>5. CASE Tasks
    <3>1. PICK x \in Orders, t \in Slots : TaskStep(x, t) \/ TaskDies(x, t)
      BY <2>5 DEF Tasks
    <3>2. claimer' = claimer /\ ~IsFree(x, t) /\ \E new : task' = [task EXCEPT ![x][t] = new]
      BY <3>1, ZenonT(40) DEF TaskStep, TaskLoads, PreviewReady, Delivers, MailsAndWipes, ReleaseFails,
         GenerationFails, LastAttemptRefunds, LastAttemptFails, WatchdogRefunds, TaskDies,
         Ends, Becomes, Goes, Is, IsFree, TaskInv, TaskOK
    <3> QED
      BY <2>0, <3>2, TaskWrite DEF Rests, Holds, IsFree
  <2>6. CASE UNCHANGED vars
    BY <2>1, <2>6 DEF vars
  <2> QED
    BY <2>2, <2>3, <2>4, <2>5, <2>6 DEF Next
<1>2. Inv /\ [Next]_vars =>
        [\A o \in Fresh : Paid(o) /\ (\A c \in Claimers : ~Holds(c, o)) => Rests(o)]_vars
  BY <1>1
<1> QED
  BY <1>2, Safe, PTL DEF Spec, NeverReleasedAgain

\* What a task writes: a preview its own order's first verdict, everything else
\* one verdict over the status of a paid order.
LEMMA TaskMoves ==
    ASSUME Inv, NEW o \in Orders, NEW s \in Slots, TaskStep(o, s),
           status'[o] # status[o]
    PROVE  <<status[o], status'[o]>> \in MovesOf(o)
<1> USE DEF Inv, TypeOK, Writes, row
<1>1. CASE PreviewReady(o, s)
  <2>1. status[o] = "generating" /\ status'[o] = "preview_ready"
    BY <1>1 DEF PreviewReady, Is, TaskInv, TaskOK
  <2> QED
    BY <2>1 DEF MovesOf, Moves, FreshMoves
<1>2. CASE Delivers(o, s)
  <2>1. status'[o] = "done" /\ Paid(o)
    BY <1>2 DEF Delivers, TaskInv, TaskOK
  <2>2. status[o] \in {"paid", "generating", "done", "failed", "refunded"}
    BY <2>1 DEF RowInv, Status
  <2>3. o \in Fresh => status[o] = "paid"
    BY <2>1, <1>2 DEF RowInv, Delivers
  <2> QED
    BY <2>1, <2>2, <2>3 DEF MovesOf, Moves, FreshMoves, LegacyMoves, Verdict
<1>3. CASE GenerationFails(o, s)
  <2>1. status'[o] = "failed"
    BY <1>3 DEF GenerationFails
  <2>2. CASE task[o][s].kind = "preview"
    BY <2>1, <2>2 DEF TaskInv, TaskOK, MovesOf, Moves, FreshMoves
  <2>3. CASE task[o][s].kind = "generate"
    <3>1. Paid(o) /\ o \notin Fresh
      BY <2>3 DEF TaskInv, TaskOK, Fresh
    <3>2. status[o] \in {"paid", "generating", "done", "failed", "refunded"}
      BY <3>1 DEF RowInv, Status
    <3> QED
      BY <2>1, <3>1, <3>2 DEF MovesOf, Moves, LegacyMoves, Verdict
  <2> QED
    BY <1>3, <2>2, <2>3 DEF GenerationFails
<1>4. CASE LastAttemptFails(o, s)
  <2>1. status'[o] = "refunded"
    BY <1>4 DEF LastAttemptFails
  <2>2. Paid(o) /\ o \notin Fresh
    BY <1>4, ZenonT(40) DEF LastAttemptFails, TaskInv, TaskOK, Fresh
  <2>3. status[o] \in {"paid", "generating", "done", "failed", "refunded"}
    BY <2>2 DEF RowInv, Status
  <2> QED
    BY <2>1, <2>2, <2>3 DEF MovesOf, Moves, LegacyMoves, Verdict
<1> QED
  BY <1>1, <1>2, <1>3, <1>4 DEF TaskStep, TaskLoads, MailsAndWipes, ReleaseFails,
     LastAttemptRefunds, WatchdogRefunds

\* The status of an order of the present flow goes its one way; the old flow
\* puts verdicts in the place of each other, and nothing else moves it.
LEMMA LegalMoves ==
    ASSUME Inv, [Next]_vars, NEW o \in Orders, status'[o] # status[o]
    PROVE  <<status[o], status'[o]>> \in MovesOf(o)
<1> USE DEF Inv, TypeOK, row
<1>1. CASE Customer
  <2>1. ASSUME NEW x \in Orders, InitOrder(x)
        PROVE  <<status[o], status'[o]>> \in MovesOf(o)
    BY <2>1 DEF InitOrder, MovesOf
  <2>2. ASSUME NEW x \in Orders, NEW p \in Payments, PayCommit(x, p)
        PROVE  <<status[o], status'[o]>> \in MovesOf(o)
    BY <2>2 DEF PayCommit, RowInv, Payable, MovesOf, Moves, FreshMoves
  <2>3. ASSUME NEW x \in Orders, RetryOrder(x)
        PROVE  <<status[o], status'[o]>> \in MovesOf(o)
    BY <2>3 DEF RetryOrder, Retryable, MovesOf, Moves, FreshMoves
  <2> QED
    BY <1>1, <2>1, <2>2, <2>3 DEF Customer, PayBegin, PayRollback, CustomerPays, PaidLongAgo
<1>2. CASE Claims
  <2>1. ASSUME NEW c \in Claimers, NEW x \in Orders, ClaimHit(c, x)
        PROVE  <<status[o], status'[o]>> \in MovesOf(o)
    BY <2>1 DEF ClaimHit, Claimable, MovesOf, Moves, FreshMoves
  <2> QED
    BY <1>2, <2>1 DEF Claims, HookArrives, ReconcileReads, ClaimMiss, RecordEvent, ClaimerDies
<1>3. CASE Sweeping
  <2>1. ASSUME NEW w \in Workers, SweepStuck(w)
        PROVE  <<status[o], status'[o]>> \in MovesOf(o)
    <3>1. o \in Stuck /\ status'[o] \in {"refunded", "failed"}
      BY <2>1 DEF SweepStuck, GivenUp
    <3>2. status[o] = "generating" /\ o \notin Fresh
      BY <3>1 DEF Stuck, RowInv, Paid
    <3> QED
      BY <3>1, <3>2 DEF MovesOf, Moves, LegacyMoves, Verdict
  <2>2. ASSUME NEW w \in Workers, SweepRetry(w)
        PROVE  <<status[o], status'[o]>> \in MovesOf(o)
    BY <2>2 DEF SweepRetry, ToRetry, MovesOf, Moves, FreshMoves
  <2> QED
    BY <1>3, <2>1, <2>2 DEF Sweeping, SweepDies, PurgeForm
<1>4. CASE Tasks
  <2>1. PICK x \in Orders, s \in Slots : TaskStep(x, s) \/ TaskDies(x, s)
    BY <1>4 DEF Tasks
  <2>2. TaskStep(x, s)
    BY <2>1 DEF TaskDies
  <2>3. x = o
    BY <2>2 DEF TaskStep, TaskLoads, PreviewReady, Delivers, MailsAndWipes, ReleaseFails,
       GenerationFails, LastAttemptRefunds, LastAttemptFails, WatchdogRefunds, Writes
  <2> QED
    BY <2>2, <2>3, TaskMoves
<1>5. CASE UNCHANGED vars
  BY <1>5 DEF vars
<1> QED
  BY <1>1, <1>2, <1>3, <1>4, <1>5 DEF Next

\* The status of every order makes only the moves that its page reckons with.
THEOREM MovesKept == Spec => MovesOnly
<1> DEFINE Legal(o) == status'[o] # status[o] => <<status[o], status'[o]>> \in MovesOf(o)
<1>1. Inv /\ [Next]_vars => [\A o \in Orders : Legal(o)]_vars
  BY LegalMoves
<1> QED
  BY <1>1, Safe, PTL DEF Spec, MovesOnly

-----------------------------------------------------------------------------
(* The form: never emptied under a generation or a release.                *)

\* A step that leaves an order and its tasks alone.
LEMMA WipeKept ==
    ASSUME WipeInv, NEW o \in Fresh, status'[o] = status[o], task'[o] = task[o]
    PROVE  WipeOK(o)'
BY DEF WipeInv, WipeOK

\* A new task has done nothing yet; its order may start over, but not from "done".
LEMMA WipeSpawn ==
    ASSUME TypeOK, WipeInv, NEW o \in Fresh, NEW kind, NEW last,
           HasSlot(o), Spawn(o, NewTask(kind, last)),
           status[o] # "done" \/ status'[o] = status[o]
    PROVE  WipeOK(o)'
<1>1. PICK s \in Slots :
         /\ task'[o][s] = NewTask(kind, last)
         /\ \A u \in Slots \ {s} : task'[o][u] = task[o][u]
  BY SpawnFillsFree DEF Fresh
<1>2. task'[o][s].pc = "start"
  BY <1>1 DEF NewTask
<1>3. \A u \in Slots \ {s} : task[o][u].pc = "mail" => status'[o] = "done"
  BY DEF WipeInv, WipeOK
<1> QED
  BY <1>1, <1>2, <1>3 DEF WipeInv, WipeOK

LEMMA CustomerWipe == Inv /\ WipeInv /\ Customer => WipeInv'
<1> SUFFICES ASSUME Inv, WipeInv, Customer, NEW o \in Fresh PROVE WipeOK(o)'
  BY DEF WipeInv, Fresh
<1> USE DEF Inv, TypeOK, Fresh
<1>1. ASSUME NEW x \in Orders, InitOrder(x) PROVE WipeOK(o)'
  <2>1. CASE x = o
    <3>1. HasSlot(o) /\ Spawn(o, NewTask("preview", FALSE))
      BY <1>1, <2>1 DEF InitOrder
    <3>2. status[o] # "done"
      BY <1>1, <2>1 DEF InitOrder
    <3> QED
      BY <3>1, <3>2, WipeSpawn
  <2>2. CASE x # o
    BY <1>1, <2>2, WipeKept DEF InitOrder, Spawn
  <2> QED
    BY <2>1, <2>2
<1>2. ASSUME NEW x \in Orders, RetryOrder(x) PROVE WipeOK(o)'
  <2>1. CASE x = o
    <3>1. status[o] # "done" /\ HasSlot(o)
      BY <1>2, <2>1 DEF RetryOrder, Retryable
    <3>2. \/ Spawn(o, NewTask("release", TRUE))
          \/ Spawn(o, NewTask("preview", FALSE))
      BY <1>2, <2>1 DEF RetryOrder, RetryTask
    <3>3. CASE Spawn(o, NewTask("release", TRUE))
      BY <3>1, <3>3, WipeSpawn
    <3>4. CASE Spawn(o, NewTask("preview", FALSE))
      BY <3>1, <3>4, WipeSpawn
    <3> QED
      BY <3>2, <3>3, <3>4
  <2>2. CASE x # o
    BY <1>2, <2>2, WipeKept DEF RetryOrder, Spawn
  <2> QED
    BY <2>1, <2>2
<1>3. ASSUME NEW x \in Orders, NEW p \in Payments, PayCommit(x, p) PROVE WipeOK(o)'
  <2>1. x \in locked /\ task' = task /\ status[x] \in {"preview_ready", "pending_payment"}
    BY <1>3 DEF PayCommit, RowInv, Payable
  <2>2. CASE x = o
    <3>1. \A s \in Slots : task[o][s].pc # "mail"
      BY <2>1, <2>2 DEF WipeInv, WipeOK
    <3> QED
      BY <2>1, <3>1 DEF WipeInv, WipeOK
  <2>3. CASE x # o
    BY <1>3, <2>1, <2>3, WipeKept DEF PayCommit
  <2> QED
    BY <2>2, <2>3
<1>4. CASE UNCHANGED <<status, task>>
  BY <1>4, WipeKept
<1> QED
  BY <1>1, <1>2, <1>3, <1>4 DEF Customer, PayBegin, PayRollback, PaidLongAgo, CustomerPays, row

LEMMA ClaimsWipe == Inv /\ WipeInv /\ Claims => WipeInv'
<1> SUFFICES ASSUME Inv, WipeInv, Claims, NEW o \in Fresh PROVE WipeOK(o)'
  BY DEF WipeInv, Fresh
<1> USE DEF Inv, TypeOK, Fresh
<1>1. ASSUME NEW c \in Claimers, NEW x \in Orders, ClaimHit(c, x) PROVE WipeOK(o)'
  <2>1. CASE x = o
    BY <1>1, <2>1 DEF ClaimHit, Claimable, WipeInv, WipeOK
  <2>2. CASE x # o
    BY <1>1, <2>2, WipeKept DEF ClaimHit
  <2> QED
    BY <2>1, <2>2
<1>2. ASSUME NEW c \in Claimers, RecordEvent(c) PROVE WipeOK(o)'
  <2>1. status' = status
    BY <1>2 DEF RecordEvent, row
  <2>2. CASE ReleaseDue(c) /\ claimer[c].order = o
    BY <1>2, <2>1, <2>2, WipeSpawn DEF RecordEvent
  <2>3. CASE ~(ReleaseDue(c) /\ claimer[c].order = o)
    <3>1. task'[o] = task[o]
      BY <1>2, <2>3 DEF RecordEvent, Spawn
    <3> QED
      BY <2>1, <3>1, WipeKept
  <2> QED
    BY <2>2, <2>3
<1>3. CASE UNCHANGED <<status, task>>
  BY <1>3, WipeKept
<1> QED
  BY <1>1, <1>2, <1>3 DEF Claims, HookArrives, ReconcileReads, ClaimMiss, ClaimerDies, row

LEMMA SweepingWipe == Inv /\ WipeInv /\ Sweeping => WipeInv'
<1> SUFFICES ASSUME Inv, WipeInv, Sweeping, NEW o \in Fresh PROVE WipeOK(o)'
  BY DEF WipeInv, Fresh
<1> USE DEF Inv, TypeOK, Fresh
<1>1. o \notin Stuck /\ o \notin ToRetry /\ \A w \in Workers : o \notin sweep[w].refunds
  BY DEF Stuck, ToRetry, RowInv, ClaimInv, Paid
<1>2. status'[o] = status[o] /\ task'[o] = task[o]
  <2>1. ASSUME NEW w \in Workers, SweepStuck(w) \/ SweepRetry(w) \/ SweepDies(w)
        PROVE  status'[o] = status[o] /\ task'[o] = task[o]
    <3>1. CASE SweepStuck(w)
      <4>1. o \notin GivenUp /\ task' = task
        BY <1>1, <3>1 DEF GivenUp, SweepStuck
      <4> QED
        BY <1>1, <3>1, <4>1 DEF SweepStuck
    <3>2. CASE SweepRetry(w)
      BY <1>1, <3>2 DEF SweepRetry
    <3>3. CASE SweepDies(w)
      BY <3>3 DEF SweepDies, row
    <3> QED
      BY <2>1, <3>1, <3>2, <3>3
  <2>2. ASSUME NEW x \in Orders, PurgeForm(x) PROVE status' = status /\ task' = task
    BY <2>2 DEF PurgeForm
  <2> QED
    BY <2>1, <2>2 DEF Sweeping
<1> QED
  BY <1>2, WipeKept

LEMMA TasksWipe == Inv /\ WipeInv /\ Tasks => WipeInv'
<1> SUFFICES ASSUME Inv, WipeInv, NEW o \in Fresh,
                    NEW x \in Orders, NEW s \in Slots, TaskStep(x, s) \/ TaskDies(x, s)
             PROVE  WipeOK(o)'
  BY DEF WipeInv, Tasks, Fresh
<1> USE DEF Inv, TypeOK, Fresh, row
<1>1. CASE x # o
  <2>1. status'[o] = status[o] /\ task'[o] = task[o]
    BY <1>1 DEF TaskStep, TaskLoads, PreviewReady, Delivers, MailsAndWipes, ReleaseFails,
       GenerationFails, LastAttemptRefunds, LastAttemptFails, WatchdogRefunds, TaskDies,
       Becomes, Goes, Ends, Writes
  <2> QED
    BY <2>1, WipeKept
<1>2. CASE x = o
  <2> DEFINE Rest == \A u \in Slots \ {s} : task'[o][u] = task[o][u]
  <2>1. CASE TaskLoads(o, s)
    <3>1. status' = status /\ Rest
      BY <2>1 DEF TaskLoads, Becomes
    <3>2. task'[o][s].kind = "release" /\ task'[o][s].pc = "work" => task'[o][s].seen = "paid"
      BY <2>1 DEF TaskLoads, Becomes, TaskInv, TaskOK
    <3>3. task'[o][s].pc # "mail"
      BY <2>1 DEF TaskLoads, Becomes
    <3> QED
      BY <3>1, <3>2, <3>3 DEF WipeInv, WipeOK
  <2>2. CASE Delivers(o, s)
    <3>1. task[o][s].kind = "release" /\ task[o][s].seen = "paid"
      BY <2>2 DEF Delivers, TaskInv, TaskOK, WipeInv, WipeOK
    <3>2. status'[o] = "done" /\ Rest
      BY <2>2, <3>1 DEF Delivers, Writes, Goes, Becomes
    <3>3. task'[o][s].pc = "mail"
      BY <2>2 DEF Delivers, Goes, Becomes
    <3>4. \A u \in Slots : task'[o][u].kind = "release" /\ task'[o][u].pc = "work" =>
             task'[o][u].seen = "paid"
      <4>1. \A u \in Slots : task[o][u].kind = "release" /\ task[o][u].pc = "work" =>
               task[o][u].seen = "paid"
        BY DEF WipeInv, WipeOK
      <4> HIDE DEF Inv, TypeOK
      <4> QED
        BY <3>2, <3>3, <4>1
    <3> QED
      BY <3>2, <3>4 DEF WipeOK
  <2>3. CASE MailsAndWipes(o, s)
    <3>1. status[o] = "done" /\ status' = status /\ Rest /\ task'[o][s] = NoTask
      BY <2>3 DEF MailsAndWipes, Ends, WipeInv, WipeOK
    <3>2. task'[o][s].pc = "start"
      BY <3>1 DEF NoTask, NewTask
    <3> QED
      BY <3>1, <3>2 DEF WipeInv, WipeOK
  <2>4. CASE PreviewReady(o, s) \/ (GenerationFails(o, s) /\ task[o][s].kind = "preview")
    <3>1. status[o] = "generating"
      BY <2>4 DEF PreviewReady, GenerationFails, Is, TaskInv, TaskOK
    <3>2. \A u \in Slots : task[o][u].pc # "mail"
      BY <3>1 DEF WipeInv, WipeOK
    <3>3. Rest /\ task'[o][s] = NoTask
      BY <2>4 DEF PreviewReady, GenerationFails, Ends
    <3>4. task'[o][s].pc = "start"
      BY <3>3 DEF NoTask, NewTask
    <3>5. \A u \in Slots : task'[o][u].pc # "mail"
      BY <3>2, <3>3, <3>4
    <3>6. \A u \in Slots : task'[o][u].kind = "release" /\ task'[o][u].pc = "work" =>
             task'[o][u].seen = "paid"
      BY <3>3, <3>4 DEF WipeInv, WipeOK
    <3> QED
      BY <3>5, <3>6 DEF WipeOK
  <2>5. CASE ReleaseFails(o, s) \/ TaskDies(o, s)
    <3>1. status' = status /\ Rest /\ task'[o][s] = NoTask
      BY <2>5 DEF ReleaseFails, TaskDies, Ends
    <3>2. task'[o][s].pc = "start"
      BY <3>1 DEF NoTask, NewTask
    <3> QED
      BY <3>1, <3>2 DEF WipeInv, WipeOK
  <2>6. task[o][s].kind \notin {"generate", "refund"} /\ task[o][s].pc # "refund"
    BY ZenonT(40) DEF TaskInv, TaskOK
  <2> QED
    BY <1>2, <2>1, <2>2, <2>3, <2>4, <2>5, <2>6 DEF TaskStep, GenerationFails,
       LastAttemptRefunds, LastAttemptFails, WatchdogRefunds, Is
<1> QED
  BY <1>1, <1>2

LEMMA InitWipe == Init => WipeInv
BY ConstantsAssumption DEF Init, WipeInv, WipeOK, Fresh, NoTask, NewTask

\* Who empties the form of an order of the present flow, and when.
LEMMA FormGoes ==
    ASSUME Inv, WipeInv, Next, NEW o \in Fresh, form[o], ~form'[o]
    PROVE  \/ status[o] = "done"
           \/ status[o] = "failed" /\ ~Paid(o) /\ \A s \in Slots : IsFree(o, s)
<1> USE DEF Inv, TypeOK, Fresh
<1>1. CASE Customer
  BY <1>1 DEF Customer, InitOrder, PayBegin, PayCommit, PayRollback, RetryOrder, PaidLongAgo,
     CustomerPays, row
<1>2. CASE Claims
  BY <1>2 DEF Claims, HookArrives, ReconcileReads, ClaimHit, ClaimMiss, RecordEvent, ClaimerDies,
     row
<1>3. CASE Sweeping
  <2>1. o \notin Stuck
    BY DEF Stuck, RowInv, Paid
  <2>2. PurgeForm(o)
    BY <1>3, <2>1 DEF Sweeping, SweepStuck, SweepRetry, SweepDies, PurgeForm, GivenUp, row
  <2>3. CASE status[o] = "failed"
    <3>1. ~Paid(o)
      BY <2>3 DEF RowInv
    <3>2. \A s \in Slots : task[o][s].kind \notin {"preview", "generate", "release", "refund"}
      BY <2>3, <3>1 DEF TaskInv, TaskOK
    <3>3. \A s \in Slots : task[o][s].kind \in {"none", "preview", "generate", "release", "refund"}
      BY DEF Task
    <3> QED
      BY <2>3, <3>1, <3>2, <3>3 DEF IsFree
  <2> QED
    BY <2>2, <2>3 DEF PurgeForm
<1>4. CASE Tasks
  <2>1. PICK x \in Orders, s \in Slots : TaskStep(x, s) \/ TaskDies(x, s)
    BY <1>4 DEF Tasks
  <2>2. x = o /\ (MailsAndWipes(o, s) \/ LastAttemptFails(o, s))
    BY <2>1 DEF TaskStep, TaskLoads, PreviewReady, Delivers, MailsAndWipes, ReleaseFails,
       GenerationFails, LastAttemptRefunds, LastAttemptFails, WatchdogRefunds, TaskDies, row
  <2>3. ~LastAttemptFails(o, s)
    BY DEF LastAttemptFails, TaskInv, TaskOK
  <2> QED
    BY <2>2, <2>3 DEF MailsAndWipes, WipeInv, WipeOK
<1> QED
  BY <1>1, <1>2, <1>3, <1>4 DEF Next

\* The form of an order of the present flow is never emptied under a preview or a
\* release, nor that of an order that can be paid or is paid and not delivered.
THEOREM FormStays == Spec => FormOutlivesWork
<1> DEFINE Idle(o) == \/ status[o] = "done"
                      \/ status[o] = "failed" /\ ~Paid(o) /\ \A s \in Slots : IsFree(o, s)
<1>1. Inv /\ WipeInv /\ [Next]_vars => WipeInv'
  <2>1. WipeInv /\ UNCHANGED vars => WipeInv'
    BY WipeKept DEF WipeInv, vars, row, Fresh
  <2> QED
    BY <2>1, CustomerWipe, ClaimsWipe, SweepingWipe, TasksWipe DEF Next
<1>2. Inv /\ WipeInv /\ [Next]_vars
        => [\A o \in Fresh : form[o] /\ ~form'[o] => Idle(o)]_vars
  BY FormGoes
<1> QED
  BY <1>1, <1>2, InitWipe, Safe, PTL DEF Spec, FormOutlivesWork
-----------------------------------------------------------------------------
(* The journal, read backwards.                                            *)

\* What moves neither money nor journal nor claims keeps the audit.
LEMMA AuditKept ==
    ASSUME AuditInv, journal' = journal, charge' = charge, payment' = payment,
           claimer' = claimer, crashes' = 0 => crashes = 0,
           \A o \in Orders : Paid(o)' => Paid(o)
    PROVE  AuditInv'
BY DEF AuditInv, UnmatchedIsOrphan, PaidIsJournalled, Holds, Fresh

LEMMA InitAudit == Init => AuditInv
BY ConstantsAssumption
DEF Init, AuditInv, UnmatchedIsOrphan, PaidIsJournalled, Paid, Fresh, IdleClaimer

LEMMA CustomerAudit == Inv /\ AuditInv /\ Customer => AuditInv'
<1> SUFFICES ASSUME Inv, AuditInv, Customer PROVE AuditInv'
  OBVIOUS
<1> USE DEF Inv, TypeOK, row, bank
<1>1. ASSUME NEW o \in Orders, NEW p \in Payments, PayCommit(o, p) PROVE AuditInv'
  <2>1. ~Paid(o) /\ charge[p] = "free" /\ crashes' = crashes /\ claimer' = claimer /\ journal' = journal
    BY <1>1 DEF PayCommit, RowInv
  <2>2. \A q \in Payments : charge[q] = "succeeded" => charge'[q] = "succeeded" /\ q # p
    BY <1>1, <2>1 DEF PayCommit
  <2>3. \A x \in Orders : payment'[x] = IF x = o THEN p ELSE payment[x]
    <3>1. payment' = [payment EXCEPT ![o] = p]
      BY <1>1 DEF PayCommit
    <3> QED
      BY <3>1
  <2>4. UnmatchedIsOrphan'
    BY <2>1, <2>2, <2>3 DEF AuditInv, UnmatchedIsOrphan
  <2>5. PaidIsJournalled'
    BY <1>1, <2>1, <2>3 DEF PayCommit, AuditInv, PaidIsJournalled, Paid, Holds, Fresh
  <2>6. \A c \in Claimers : claimer[c].pc # "idle" => claimer[c].payment \in Payments
    BY DEF ClaimInv, ClaimOK
  <2>7. \A c \in Claimers :
           claimer'[c].pc = "record" \/ (c \in Hooks /\ claimer'[c].pc = "claim") =>
               charge'[claimer'[c].payment] = "succeeded"
    BY <2>1, <2>2, <2>6 DEF AuditInv
  <2> QED
    BY <2>1, <2>2, <2>4, <2>5, <2>7 DEF AuditInv
<1>2. ASSUME NEW p \in Payments, CustomerPays(p) PROVE AuditInv'
  <2>1. /\ crashes' = crashes /\ claimer' = claimer /\ journal' = journal
        /\ payment' = payment /\ paidAt' = paidAt
    BY <1>2 DEF CustomerPays
  <2>2. \A q \in Payments : charge[q] = "succeeded" => charge'[q] = "succeeded"
    BY <1>2 DEF CustomerPays
  <2>3. UnmatchedIsOrphan' /\ PaidIsJournalled'
    BY <2>1 DEF AuditInv, UnmatchedIsOrphan, PaidIsJournalled, Paid, Holds
  <2>4. \A c \in Claimers : claimer[c].pc # "idle" => claimer[c].payment \in Payments
    BY DEF ClaimInv, ClaimOK
  <2>5. \A c \in Claimers :
           claimer'[c].pc = "record" \/ (c \in Hooks /\ claimer'[c].pc = "claim") =>
               charge'[claimer'[c].payment] = "succeeded"
    BY <2>1, <2>2, <2>4 DEF AuditInv
  <2> QED
    BY <2>1, <2>2, <2>3, <2>5 DEF AuditInv
<1>3. ASSUME NEW o \in Orders, PaidLongAgo(o) PROVE AuditInv'
  <2>1. \A x \in Orders : Paid(x)' => Paid(x)
    BY <1>3 DEF PaidLongAgo, Paid
  <2> QED
    BY <1>3, <2>1, AuditKept DEF PaidLongAgo
<1>4. ASSUME NEW o \in Orders, InitOrder(o) \/ PayBegin(o) \/ PayRollback(o) \/ RetryOrder(o)
      PROVE  AuditInv'
  <2>1. /\ journal' = journal /\ charge' = charge /\ payment' = payment
        /\ claimer' = claimer /\ crashes' = crashes /\ paidAt' = paidAt
    BY <1>4 DEF InitOrder, PayBegin, PayRollback, RetryOrder
  <2> QED
    BY <2>1, AuditKept DEF Paid
<1> QED
  BY <1>1, <1>2, <1>3, <1>4 DEF Customer

LEMMA ClaimsAudit == Inv /\ AuditInv /\ Claims => AuditInv'
<1> SUFFICES ASSUME Inv, AuditInv, Claims PROVE AuditInv'
  OBVIOUS
<1> USE DEF Inv, TypeOK, row, bank
\* What a claimer that arrives, misses or dies can disturb: its own entry.
<1>1. ASSUME NEW c \in Claimers, NEW new,
             claimer' = [claimer EXCEPT ![c] = new],
             journal' = journal, charge' = charge, payment' = payment, paidAt' = paidAt,
             claimer[c].order = NoOrder \/ crashes' # 0,
             crashes' = 0 => crashes = 0,
             new.pc = "record" \/ (c \in Hooks /\ new.pc = "claim") =>
                 charge[new.payment] = "succeeded"
      PROVE  AuditInv'
  <2>1. claimer'[c] = new /\ \A d \in Claimers \ {c} : claimer'[d] = claimer[d]
    BY <1>1
  <2>2. \A d \in Claimers, o \in Orders : Holds(d, o) /\ crashes' = 0 => Holds(d, o)'
    BY <1>1, <2>1, ConstantsAssumption DEF Holds
  <2>3. UnmatchedIsOrphan'
    BY <1>1 DEF AuditInv, UnmatchedIsOrphan
  <2>4. PaidIsJournalled'
    BY <1>1, <2>2 DEF AuditInv, PaidIsJournalled, Paid, Fresh
  <2> QED
    BY <1>1, <2>1, <2>3, <2>4 DEF AuditInv
<1>2. ASSUME NEW h \in Hooks, NEW p \in Payments, HookArrives(h, p) PROVE AuditInv'
  <2>1. h \in Claimers /\ claimer[h].order = NoOrder
    BY <1>2, ZenonT(40) DEF HookArrives, ClaimInv, ClaimOK, Claimers
  <2>2. About(p).payment = p
    BY DEF About
  <2> QED
    BY <1>1, <1>2, <2>1, <2>2 DEF HookArrives
<1>3. ASSUME NEW w \in Workers, NEW o \in Orders, ReconcileReads(w, o) PROVE AuditInv'
  <2>1. w \in Claimers /\ w \notin Hooks
    BY ConstantsAssumption DEF Claimers
  <2>2. claimer[w].order = NoOrder
    BY <1>3, <2>1, ZenonT(40) DEF ReconcileReads, ClaimInv, ClaimOK
  <2>3. About(payment[o]).pc = "claim"
    BY DEF About
  <2> QED
    BY <1>1, <1>3, <2>1, <2>2, <2>3 DEF ReconcileReads
<1>4. ASSUME NEW c \in Claimers, ClaimMiss(c) PROVE AuditInv'
  <2>1. claimer[c].pc = "claim" /\ claimer[c].order = NoOrder
    BY <1>4, ZenonT(40) DEF ClaimMiss, ClaimInv, ClaimOK
  <2>2. CASE c \in Hooks
    <3>1. charge[ToRecord(c, NoOrder).payment] = "succeeded"
      BY <2>1, <2>2 DEF AuditInv, ToRecord
    <3> QED
      BY <1>1, <1>4, <2>1, <2>2, <3>1 DEF ClaimMiss
  <2>3. CASE c \notin Hooks
    <3>1. IdleClaimer.pc = "idle"
      BY DEF IdleClaimer
    <3> QED
      BY <1>1, <1>4, <2>1, <2>3, <3>1 DEF ClaimMiss
  <2> QED
    BY <2>2, <2>3
<1>5. ASSUME NEW c \in Claimers, ClaimerDies(c) PROVE AuditInv'
  <2>1. crashes' # 0 /\ IdleClaimer.pc = "idle"
    BY <1>5, ConstantsAssumption DEF ClaimerDies, IdleClaimer
  <2> QED
    BY <1>1, <1>5, <2>1 DEF ClaimerDies
<1>6. ASSUME NEW c \in Claimers, NEW o \in Orders, ClaimHit(c, o) PROVE AuditInv'
  <2>1. claimer[c].order = NoOrder
    BY <1>6, ZenonT(40) DEF ClaimHit, ClaimInv, ClaimOK
  <2>2. /\ journal' = journal /\ charge' = charge /\ payment' = payment /\ crashes' = crashes
        /\ claimer'[c] = ToRecord(c, o)
        /\ \A d \in Claimers \ {c} : claimer'[d] = claimer[d]
        /\ \A x \in Orders \ {o} : paidAt'[x] = paidAt[x]
    BY <1>6 DEF ClaimHit
  <2>3. charge[claimer[c].payment] = "succeeded"
    BY <1>6 DEF ClaimHit, Verified
  <2>4. ToRecord(c, o).order = o /\ ToRecord(c, o).payment = claimer[c].payment
    BY DEF ToRecord
  <2>5. Holds(c, o)'
    BY <2>2, <2>4 DEF Holds
  <2>6. \A d \in Claimers, x \in Orders : Holds(d, x) => Holds(d, x)'
    BY <2>1, <2>2, ConstantsAssumption DEF Holds
  <2>7. UnmatchedIsOrphan'
    BY <2>2 DEF AuditInv, UnmatchedIsOrphan
  <2>8. PaidIsJournalled'
    BY <2>2, <2>5, <2>6 DEF AuditInv, PaidIsJournalled, Paid, Fresh
  <2> QED
    BY <2>2, <2>3, <2>4, <2>7, <2>8 DEF AuditInv
<1>7. ASSUME NEW c \in Claimers, RecordEvent(c) PROVE AuditInv'
  <2> DEFINE p == claimer[c].payment
  <2>1. p \in Payments /\ charge[p] = "succeeded"
    BY <1>7 DEF RecordEvent, ClaimInv, ClaimOK, AuditInv
  <2>2. /\ charge' = charge /\ payment' = payment /\ paidAt' = paidAt /\ crashes' = crashes
        /\ claimer'[c] = IdleClaimer
        /\ \A d \in Claimers \ {c} : claimer'[d] = claimer[d]
    BY <1>7 DEF RecordEvent
  <2>3. /\ \A q \in Payments \ {p} : journal'[q] = journal[q]
        /\ journal'[p] = IF journal[p] = "none" THEN OutcomeOf(c) ELSE journal[p]
    BY <1>7, <2>1 DEF RecordEvent, Inserts
  <2>4. OutcomeOf(c) # "none"
    BY DEF OutcomeOf
  <2>5. OutcomeOf(c) = "unmatched" => \A o \in Orders : payment[o] # p
    BY DEF OutcomeOf
  <2>6. UnmatchedIsOrphan'
    BY <2>2, <2>3, <2>5 DEF AuditInv, UnmatchedIsOrphan
  <2>7. claimer[c].order # NoOrder => payment[claimer[c].order] = p
    BY DEF ClaimInv, ClaimOK
  <2>8. PaidIsJournalled'
    <3> SUFFICES ASSUME crashes' = 0, NEW o \in Fresh, Paid(o)', journal'[payment'[o]] = "none"
                 PROVE  \E d \in Claimers : Holds(d, o)'
      BY DEF PaidIsJournalled
    <3>1. payment[o] \in Payments /\ Paid(o)
      BY <2>2, ConstantsAssumption DEF MoneyInv, Paid, Fresh
    <3>2. journal[payment[o]] = "none" /\ payment[o] # p
      BY <2>2, <2>3, <2>4, <3>1
    <3>3. PICK d \in Claimers : Holds(d, o)
      BY <2>2, <3>1, <3>2 DEF AuditInv, PaidIsJournalled
    <3>4. d # c
      BY <2>7, <3>2, <3>3, ConstantsAssumption DEF Holds, Fresh
    <3> QED
      BY <2>2, <3>3, <3>4 DEF Holds
  <2>9. IdleClaimer.pc = "idle"
    BY DEF IdleClaimer
  <2> QED
    BY <2>1, <2>2, <2>3, <2>6, <2>8, <2>9, SMTT(30) DEF AuditInv
<1> QED
  BY <1>2, <1>3, <1>4, <1>5, <1>6, <1>7 DEF Claims

LEMMA LoopsAudit == Inv /\ AuditInv /\ (Sweeping \/ Tasks) => AuditInv'
<1> SUFFICES ASSUME Inv, AuditInv, Sweeping \/ Tasks PROVE AuditInv'
  OBVIOUS
<1>1. /\ journal' = journal /\ charge' = charge /\ payment' = payment
      /\ claimer' = claimer /\ paidAt' = paidAt
      /\ crashes' = crashes \/ crashes' = crashes + 1
  BY DEF Sweeping, SweepStuck, SweepRetry, SweepDies, PurgeForm, Tasks, TaskStep, TaskLoads, PreviewReady,
     Delivers, MailsAndWipes, ReleaseFails, GenerationFails, LastAttemptRefunds,
     LastAttemptFails, WatchdogRefunds, TaskDies, row, bank
<1>2. crashes' = 0 => crashes = 0
  BY <1>1, ConstantsAssumption DEF Inv, TypeOK
<1> QED
  BY <1>1, <1>2, AuditKept DEF Paid

LEMMA AuditSafe == Spec => []AuditInv
<1>1. Inv /\ AuditInv /\ [Next]_vars => AuditInv'
  <2>1. AuditInv /\ UNCHANGED vars => AuditInv'
    BY AuditKept DEF vars, row, bank, Paid
  <2> QED
    BY <2>1, CustomerAudit, ClaimsAudit, LoopsAudit DEF Next
<1> QED
  BY <1>1, InitAudit, Safe, PTL DEF Spec

\* Money that webhooks.py journalled as nobody's is nobody's for ever.
THEOREM UnmatchedServesNobody == Spec => []UnmatchedIsOrphan
<1>1. AuditInv => UnmatchedIsOrphan
  BY DEF AuditInv
<1> QED
  BY <1>1, AuditSafe, PTL

\* Money that settled an order of the present flow is in the journal, or on its way
\* there, as long as no handler died between its claim and record_payment_event.
THEOREM AuditIsComplete == Spec => []PaidIsJournalled
<1>1. AuditInv => PaidIsJournalled
  BY DEF AuditInv
<1> QED
  BY <1>1, AuditSafe, PTL

=============================================================================
