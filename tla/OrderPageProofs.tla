--------------------------- MODULE OrderPageProofs ---------------------------
(***************************************************************************)
(* The page of an order: PageInv is inductive, for any number of requests  *)
(* under way and whatever way the order's status takes.                    *)
(***************************************************************************)
EXTENDS OrderPageProperties, TLAPS

\* The page knows every status the server moves to, and no status looks like
\* an idle request or a closed page.
LEMMA MovesAreShown ==
    /\ \A s : <<status, s>> \in Flow => s \in ShownStatus
    /\ "idle" \notin ShownStatus /\ "asked" \notin ShownStatus /\ "closed" \notin ShownStatus
    /\ {"generating", "pending_payment", "done"} \subseteq ShownStatus
BY PageAssumption DEF Moves, FreshMoves, LegacyMoves, Verdict, ShownStatus

\* The effect that counts the payment keeps the mark and the counter together.
LEMMA CountsKeep ==
    ASSUME TypeOK, MarkCounts, NEW s, Counts(s)
    PROVE  MarkCounts' /\ marked' \in BOOLEAN /\ goals' \in 0..MaxGoals
<1>1. CASE s = "paid" /\ view # "paid" /\ ~marked
  BY <1>1, PageAssumption DEF MarkCounts, Counts, TypeOK
<1>2. CASE ~(s = "paid" /\ view # "paid" /\ ~marked)
  BY <1>2 DEF MarkCounts, Counts, TypeOK, metrics
<1> QED
  BY <1>1, <1>2

\* setOrder with a status the order had keeps what the page shows true.
LEMMA ShowsKeep ==
    ASSUME PageInv, Open, NEW s \in was, Shows(s), was' = was
    PROVE  /\ view' = s /\ Open' /\ toast' \in BOOLEAN
           /\ MarkCounts' /\ marked' \in BOOLEAN /\ goals' \in 0..MaxGoals
           /\ ToastIsNews'
<1>1. view' = s /\ Open'
  BY MovesAreShown DEF Shows, Open, PageInv, TypeOK
<1>2. MarkCounts' /\ marked' \in BOOLEAN /\ goals' \in 0..MaxGoals
  BY CountsKeep DEF Shows, PageInv
<1>3. toast' \in BOOLEAN /\ ToastIsNews'
  BY DEF Shows, ToastIsNews, PageInv, TypeOK, ShownWasTrue
<1> QED
  BY <1>1, <1>2, <1>3

\* A page that is not there (before it is opened, after it is left).
LEMMA ClosedPage ==
    ASSUME status' \in ShownStatus, view' = "closed", polls' = Idle, retry' = "no",
           pay' = "no", gate' = FALSE, toast' = FALSE, was' = {},
           goals' \in 0..MaxGoals, marked' \in BOOLEAN, MarkCounts'
    PROVE  PageInv'
<1>1. \A i \in Polls : polls'[i] = "idle"
  BY DEF Idle
<1>2. TypeOK'
  BY DEF TypeOK, Idle
<1>3. ShownWasTrue' /\ ToastIsNews'
  BY DEF ShownWasTrue, ToastIsNews, Open
<1>4. AnswersWereTrue'
  BY <1>1, MovesAreShown DEF AnswersWereTrue, Open, Idle
<1> QED
  BY <1>2, <1>3, <1>4 DEF PageInv

LEMMA InitPage == Init => PageInv
<1> SUFFICES ASSUME Init PROVE PageInv
  OBVIOUS
<1>1. TypeOK
  <2>1. goals \in 0..MaxGoals
    BY PageAssumption DEF Init
  <2>2. gate \in BOOLEAN /\ toast \in BOOLEAN /\ marked \in BOOLEAN
    BY DEF Init
  <2> QED
    BY <2>1, <2>2 DEF Init, TypeOK, Idle
<1>2. ShownWasTrue /\ ToastIsNews /\ MarkCounts
  BY DEF Init, ShownWasTrue, ToastIsNews, MarkCounts, Open
<1>3. AnswersWereTrue
  BY MovesAreShown DEF Init, AnswersWereTrue, Open, Idle
<1> QED
  BY <1>1, <1>2, <1>3 DEF PageInv

\* The order moves on: what was true stays in the history.
LEMMA ReachesKeep ==
    ASSUME PageInv, NEW s \in ShownStatus, Reaches(s),
           UNCHANGED <<view, polls, toast, metrics>>,
           retry' \in {"no", "asked", "ok", "refused"}, pay' \in Busy \cup {"no"},
           gate' \in BOOLEAN,
           ~Open => retry' = "no", retry' = "ok" => retry = "ok" \/ s = "generating"
    PROVE  PageInv'
<1>1. was \subseteq was' /\ was' \subseteq ShownStatus
  BY DEF Reaches, PageInv, TypeOK
<1>2. Open => s \in was'
  BY DEF Reaches
<1>3. TypeOK'
  BY <1>1 DEF Reaches, PageInv, TypeOK, metrics
<1>4. ShownWasTrue' /\ ToastIsNews' /\ MarkCounts'
  BY <1>1 DEF PageInv, ShownWasTrue, ToastIsNews, MarkCounts, Open, metrics
<1>5. AnswersWereTrue'
  BY <1>1, <1>2 DEF PageInv, AnswersWereTrue, Open, Reaches, Idle
<1> QED
  BY <1>3, <1>4, <1>5 DEF PageInv

LEMMA NextPage == PageInv /\ [Next]_vars => PageInv'
<1> SUFFICES ASSUME PageInv, [Next]_vars PROVE PageInv'
  OBVIOUS
<1> USE MovesAreShown
<1>1. CASE ServerMoves
  BY <1>1, ReachesKeep DEF ServerMoves, buttons, PageInv, TypeOK, AnswersWereTrue
<1>2. CASE OpenPage
  <2>1. MarkCounts' /\ marked' \in BOOLEAN /\ goals' \in 0..MaxGoals
    BY <1>2, CountsKeep DEF OpenPage, PageInv
  <2>2. TypeOK'
    BY <1>2, <2>1 DEF OpenPage, PageInv, TypeOK, buttons
  <2>3. ShownWasTrue' /\ ToastIsNews' /\ AnswersWereTrue'
    BY <1>2 DEF OpenPage, PageInv, TypeOK, ShownWasTrue, ToastIsNews, AnswersWereTrue, Open,
       buttons, Idle
  <2> QED
    BY <2>1, <2>2, <2>3 DEF PageInv
<1>3. CASE ClosePage \/ GoToPayment
  <2>1. status' = status /\ goals' = goals /\ marked' = marked /\ Leaves
    BY <1>3 DEF ClosePage, GoToPayment, metrics
  <2>2. goals' \in 0..MaxGoals /\ marked' \in BOOLEAN /\ status' \in ShownStatus /\ MarkCounts'
    BY <2>1 DEF PageInv, TypeOK, MarkCounts
  <2> QED
    BY <2>1, <2>2, ClosedPage DEF Leaves
<1>4. CASE CloseToast
  BY <1>4 DEF CloseToast, PageInv, TypeOK, ShownWasTrue, ToastIsNews, AnswersWereTrue,
     MarkCounts, Open, Idle, buttons, metrics
<1>5. ASSUME NEW i \in Polls, Poll(i) \/ LosePoll(i) \/ ServePoll(i) PROVE PageInv'
  <2>1. Open
    BY <1>5 DEF Poll, LosePoll, ServePoll, PageInv, AnswersWereTrue, Idle, Polled, Open
  <2>2. TypeOK'
    BY <1>5 DEF Poll, LosePoll, ServePoll, PageInv, TypeOK, buttons, metrics
  <2>3. AnswersWereTrue'
    BY <1>5, <2>1 DEF Poll, LosePoll, ServePoll, PageInv, TypeOK, AnswersWereTrue, Open, buttons
  <2> QED
    BY <1>5, <2>2, <2>3 DEF Poll, LosePoll, ServePoll, PageInv, ShownWasTrue, ToastIsNews,
       MarkCounts, Open, metrics
<1>6. ASSUME NEW i \in Polls, TakePoll(i) PROVE PageInv'
  <2>1. Open /\ polls[i] \in was
    BY <1>6 DEF TakePoll, PageInv, AnswersWereTrue, Idle
  <2>2. /\ view' = polls[i] /\ Open' /\ toast' \in BOOLEAN
        /\ MarkCounts' /\ marked' \in BOOLEAN /\ goals' \in 0..MaxGoals
        /\ ToastIsNews'
    BY <1>6, <2>1, ShowsKeep DEF TakePoll
  <2>3. TypeOK'
    BY <1>6, <2>1, <2>2 DEF TakePoll, PageInv, TypeOK, buttons
  <2>4. ShownWasTrue' /\ AnswersWereTrue'
    BY <1>6, <2>1, <2>2 DEF TakePoll, PageInv, TypeOK, ShownWasTrue, AnswersWereTrue, buttons
  <2> QED
    BY <2>2, <2>3, <2>4 DEF PageInv
<1>7. CASE ServeRetry
  BY <1>7, ReachesKeep DEF ServeRetry, PageInv, TypeOK, AnswersWereTrue
<1>8. CASE ServePay
  <2>1. ~Open => retry' = "no"
    BY <1>8 DEF ServePay, PageInv, AnswersWereTrue
  <2> QED
    BY <1>8, <2>1, ReachesKeep DEF ServePay, PageInv, TypeOK, Busy
<1>9. CASE TakeRetry
  <2>1. Open
    BY <1>9 DEF TakeRetry, PageInv, AnswersWereTrue
  <2>2. CASE retry = "ok"
    <3>1. "generating" \in was
      BY <2>2 DEF PageInv, AnswersWereTrue
    <3>2. /\ view' = "generating" /\ Open' /\ toast' \in BOOLEAN
          /\ MarkCounts' /\ marked' \in BOOLEAN /\ goals' \in 0..MaxGoals
          /\ ToastIsNews'
      BY <1>9, <2>1, <2>2, <3>1, ShowsKeep DEF TakeRetry
    <3>3. TypeOK'
      BY <1>9, <3>1, <3>2 DEF TakeRetry, PageInv, TypeOK
    <3>4. ShownWasTrue' /\ AnswersWereTrue'
      BY <1>9, <2>1, <3>1, <3>2 DEF TakeRetry, PageInv, ShownWasTrue, AnswersWereTrue
    <3> QED
      BY <3>2, <3>3, <3>4 DEF PageInv
  <2>3. CASE retry # "ok"
    BY <1>9, <2>3 DEF TakeRetry, PageInv, TypeOK, ShownWasTrue, ToastIsNews, AnswersWereTrue,
       MarkCounts, Open, Idle, metrics
  <2> QED
    BY <2>2, <2>3
<1>10. CASE ClickRetry \/ RefuseRetry \/ ClickPay \/ Prepared \/ RefusePay
  <2>1. TypeOK'
    BY <1>10 DEF ClickRetry, RefuseRetry, ClickPay, Prepared, RefusePay, PageInv, TypeOK,
       Busy, metrics
  <2>2. AnswersWereTrue'
    BY <1>10 DEF ClickRetry, RefuseRetry, ClickPay, Prepared, RefusePay, PageInv,
       AnswersWereTrue, Open, Idle, Offered
  <2> QED
    BY <1>10, <2>1, <2>2 DEF ClickRetry, RefuseRetry, ClickPay, Prepared, RefusePay, PageInv,
       ShownWasTrue, ToastIsNews, MarkCounts, Open, metrics
<1>11. CASE UNCHANGED vars
  BY <1>11 DEF vars, buttons, metrics, PageInv, TypeOK, ShownWasTrue, ToastIsNews,
     AnswersWereTrue, MarkCounts, Open, Idle
<1> QED
  BY <1>1, <1>2, <1>3, <1>4, <1>5, <1>6, <1>7, <1>8, <1>9, <1>10, <1>11
  DEF Next, Network, Answers

\* The invariant of the page holds, however many answers are under way.
THEOREM PageSafe == Spec => []PageInv
<1> QED
  BY InitPage, NextPage, PTL DEF Spec

\* No late, repeated or lost answer makes the page show what never was.
THEOREM ShownIsTrue == Spec => []ShownWasTrue
<1>1. PageInv => ShownWasTrue
  BY DEF PageInv
<1> QED
  BY <1>1, PageSafe, PTL

\* Nobody is told about a document that was ready when the page was opened.
THEOREM ToastsAreNews == Spec => []ToastIsNews
<1>1. PageInv => ToastIsNews
  BY DEF PageInv
<1> QED
  BY <1>1, PageSafe, PTL

\* The payment of an order is counted once in a tab.
THEOREM GoalsAreCountedOnce == Spec => []GoalCountedOnce
<1>1. PageInv => GoalCountedOnce
  BY DEF PageInv, MarkCounts, GoalCountedOnce
<1> QED
  BY <1>1, PageSafe, PTL

-----------------------------------------------------------------------------
(* The page is never ahead of its order.                                   *)

\* The order takes one of its moves, or one the page asked for.
LEMMA ReachesBehind ==
    ASSUME BehindInv, NEW s, Reaches(s), UNCHANGED <<toast, metrics>>,
           s = status \/ <<status, s>> \in Flow \cup OwnMoves
    PROVE  BehindInv'
<1>1. status' = s /\ was \subseteq was' /\ was' \subseteq was \cup {s} /\ toast' = toast
      /\ marked' = marked
  BY DEF Reaches, metrics
<1>2. ASSUME NEW S, Closed(S), status \in S PROVE s \in S
  <2>1. CASE s = status
    BY <1>2, <2>1
  <2>2. CASE <<status, s>> \in Flow \cup OwnMoves
    BY <1>2, <2>2 DEF Closed
  <2> QED
    BY <2>1, <2>2
<1>3. ASSUME NEW S \in SUBSET ShownStatus, Closed(S),
             was' \cap S # {} \/ (marked' /\ "paid" \in S)
      PROVE  status' \in S
  <2>1. CASE s \in S
    BY <1>1, <2>1
  <2>2. CASE s \notin S
    <3>1. was \cap S # {} \/ (marked /\ "paid" \in S)
      BY <1>1, <1>3, <2>2
    <3>2. status \in S
      BY <1>3, <3>1 DEF BehindInv
    <3> QED
      BY <1>2, <1>3, <2>2, <3>2
  <2> QED
    BY <2>1, <2>2
<1>4. \A S : Closed(S)' <=> Closed(S)
  BY DEF Closed
<1> QED
  BY <1>1, <1>3, <1>4 DEF BehindInv

\* The page takes over a status the order has had.
LEMMA ShowsBehind ==
    ASSUME BehindInv, NEW s \in was, Shows(s), status' = status, was' = was
    PROVE  BehindInv'
<1>1. toast' => "done" \in was
  BY DEF Shows, BehindInv
<1>2. marked' => marked \/ s = "paid"
  BY DEF Shows, Counts, metrics
<1>3. ASSUME NEW S \in SUBSET ShownStatus, Closed(S),
             was \cap S # {} \/ (marked' /\ "paid" \in S)
      PROVE  status \in S
  <2>1. was \cap S # {} \/ (marked /\ "paid" \in S)
    BY <1>2, <1>3
  <2> QED
    BY <1>3, <2>1 DEF BehindInv
<1>4. \A S : Closed(S)' <=> Closed(S)
  BY DEF Closed
<1> QED
  BY <1>1, <1>3, <1>4 DEF BehindInv

\* What shows nothing new, or loses the page, keeps it behind.
LEMMA ForgetsBehind ==
    ASSUME BehindInv, status' = status, was' = was \/ was' = {},
           toast' => toast /\ was' = was, marked' => marked
    PROVE  BehindInv'
<1>1. \A S : Closed(S)' <=> Closed(S)
  BY DEF Closed
<1> QED
  BY <1>1 DEF BehindInv

LEMMA NextBehind == PageInv /\ BehindInv /\ [Next]_vars => BehindInv'
<1> SUFFICES ASSUME PageInv, BehindInv, [Next]_vars PROVE BehindInv'
  OBVIOUS
<1>1. CASE ServerMoves
  <2> PICK s \in ShownStatus : <<status, s>> \in Flow /\ Reaches(s)
    BY <1>1 DEF ServerMoves
  <2> QED
    BY <1>1, ReachesBehind DEF ServerMoves
<1>2. CASE OpenPage
  <2>1. status' = status /\ was' = {status} /\ toast' = FALSE /\ Counts(status)
    BY <1>2 DEF OpenPage
  <2>2. marked' => marked \/ status = "paid"
    BY <2>1 DEF Counts, metrics
  <2>3. ASSUME NEW S \in SUBSET ShownStatus, Closed(S),
               was' \cap S # {} \/ (marked' /\ "paid" \in S)
        PROVE  status \in S
    <3>1. CASE status \in S
      BY <3>1
    <3>2. CASE status \notin S
      <4>1. marked /\ "paid" \in S
        BY <2>1, <2>2, <2>3, <3>2
      <4> QED
        BY <2>3, <4>1 DEF BehindInv
    <3> QED
      BY <3>1, <3>2
  <2>4. \A S : Closed(S)' <=> Closed(S)
    BY DEF Closed
  <2> QED
    BY <2>1, <2>3, <2>4 DEF BehindInv
<1>3. CASE ClosePage \/ GoToPayment \/ CloseToast
  BY <1>3, ForgetsBehind DEF ClosePage, GoToPayment, CloseToast, Leaves, metrics
<1>4. ASSUME NEW i \in Polls, Poll(i) \/ LosePoll(i) \/ ServePoll(i) PROVE BehindInv'
  BY <1>4, ForgetsBehind DEF Poll, LosePoll, ServePoll, metrics
<1>5. ASSUME NEW i \in Polls, TakePoll(i) PROVE BehindInv'
  <2>1. polls[i] \in was
    BY <1>5, MovesAreShown DEF TakePoll, PageInv, AnswersWereTrue, Idle
  <2> QED
    BY <1>5, <2>1, ShowsBehind DEF TakePoll
<1>6. CASE ServeRetry
  <2>1. <<status, "generating">> \in OwnMoves
    BY <1>6 DEF ServeRetry, OwnMoves
  <2> QED
    BY <1>6, <2>1, ReachesBehind DEF ServeRetry
<1>7. CASE ServePay
  <2>1. "pending_payment" = status \/ <<status, "pending_payment">> \in OwnMoves
    BY <1>7 DEF ServePay, Offered, OwnMoves
  <2> QED
    BY <1>7, <2>1, ReachesBehind DEF ServePay
<1>8. CASE TakeRetry
  <2>1. CASE retry = "ok"
    <3>1. "generating" \in was
      BY <2>1 DEF PageInv, AnswersWereTrue
    <3> QED
      BY <1>8, <2>1, <3>1, ShowsBehind DEF TakeRetry
  <2>2. CASE retry # "ok"
    BY <1>8, <2>2, ForgetsBehind DEF TakeRetry, metrics
  <2> QED
    BY <2>1, <2>2
<1>9. CASE ClickRetry \/ RefuseRetry \/ ClickPay \/ Prepared \/ RefusePay
  BY <1>9, ForgetsBehind DEF ClickRetry, RefuseRetry, ClickPay, Prepared, RefusePay, metrics
<1>10. CASE UNCHANGED vars
  BY <1>10, ForgetsBehind DEF vars, metrics
<1> QED
  BY <1>1, <1>2, <1>3, <1>4, <1>5, <1>6, <1>7, <1>8, <1>9, <1>10
  DEF Next, Network, Answers

LEMMA InitBehind == Init => BehindInv
BY DEF Init, BehindInv

\* Whatever an order cannot leave again is shown, announced and counted only of an
\* order that is there, however late the answers come.
THEOREM PageIsNeverAhead == Spec => []NeverAhead
<1>1. PageInv /\ BehindInv => NeverAhead
  <2> SUFFICES ASSUME PageInv, BehindInv, NEW S \in SUBSET ShownStatus, Closed(S),
                      view \in S \/ (toast /\ "done" \in S) \/ (marked /\ "paid" \in S)
               PROVE  status \in S
    BY DEF NeverAhead
  <2>1. view \in S => view \in was
    BY MovesAreShown DEF PageInv, ShownWasTrue, Open
  <2>2. was \cap S # {} \/ (marked /\ "paid" \in S)
    BY <2>1 DEF BehindInv
  <2> QED
    BY <2>2 DEF BehindInv
<1> QED
  BY <1>1, InitBehind, NextBehind, PageSafe, PTL DEF Spec

\* For an order of the present flow: a page that offers the download is the page of
\* a finished order, and one that thanks for the payment, or has counted it, of a paid one.
THEOREM FreshPageIsEarned ==
    ASSUME Flow \subseteq FreshMoves
    PROVE  Spec => [](/\ view = "done" \/ toast => status = "done"
                      /\ view = "paid" \/ marked => status \in {"paid", "done"})
<1>1. Closed({"done"}) /\ Closed({"paid", "done"})
  BY DEF Closed, OwnMoves, FreshMoves
<1>2. NeverAhead => /\ view = "done" \/ toast => status = "done"
                    /\ view = "paid" \/ marked => status \in {"paid", "done"}
  <2>1. {"done"} \in SUBSET ShownStatus /\ {"paid", "done"} \in SUBSET ShownStatus
    BY DEF ShownStatus
  <2> QED
    BY <1>1, <2>1 DEF NeverAhead
<1> QED
  BY <1>2, PageIsNeverAhead, PTL

=============================================================================
