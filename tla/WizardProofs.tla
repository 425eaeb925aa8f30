----------------------------- MODULE WizardProofs -----------------------------
(***************************************************************************)
(* Proofs about the form, for any situation whose fields satisfy the       *)
(* assumptions of Wizard.                                                  *)
(***************************************************************************)
EXTENDS WizardProperties, TLAPS

\* A date field holds what its input lets through.
DatesHold(a) == \A f \in Dates : a[f] \in Values[f] \cup {Unset}

\* The steps behind the current one have no gap.
StepsDone ==
    \A f \in Required :
       StepOf[f] < step /\ Visible(f, answers) => Filled(f, answers)

\* No rule about dates is broken on the day of the browser.
DatesFit(d) ==
    \A f \in Dates : Filled(f, d) =>
       /\ d[f] # Bad
       /\ f \in NotFuture => ~(d[f] > Today)
       /\ \A r \in Rules :
             (r.field = f /\ IsDay(r.lo, d) /\ IsDay(r.hi, d)) => ~(d[r.lo] > d[r.hi])

\* What handleSubmit lets through.
Checked(d) ==
    /\ Complete(d)
    /\ DatesHold(d)
    /\ DatesFit(d)
    /\ \A f \in Fields : Filled(f, d) => Visible(f, d)

\* A reply about an order follows the order.
ReplyHasOrder == request.pc = "created" \/ request.redirect => made > 0

FormInv ==
    /\ TypeOK
    /\ DatesHold(answers)
    /\ StepsDone
    /\ ReplyHasOrder
    /\ request.pc # "none" => Checked(request.data) /\ Rows(request.data) = request.checked

-----------------------------------------------------------------------------
LEMMA NothingIsFilled ==
    /\ NoAnswers \in Answers /\ NoRequest \in Request /\ DatesHold(NoAnswers)
    /\ \A f \in Fields : ~Filled(f, NoAnswers)
    /\ \A f \in Fields : NoAnswers[f] = Unset
BY FieldsAssumption
   DEF NoAnswers, Answers, NoRequest, Request, Value, DatesHold, Filled, Empty

LEMMA FormInit == Init => FormInv
<1> SUFFICES ASSUME Init PROVE FormInv
  OBVIOUS
<1>1. TypeOK
  <2>1. 0 \in 0..Last /\ Unset \in Value /\ 0 \in 0..0
    BY StepsAssumption DEF Value
  <2> QED
    BY <2>1, NothingIsFilled DEF Init, TypeOK
<1>2. StepsDone
  BY StepsAssumption, FieldsAssumption DEF Init, StepsDone
<1> QED
  BY <1>1, <1>2, NothingIsFilled DEF Init, FormInv, NoRequest, ReplyHasOrder

\* Leaving hidden fields out keeps what every other field says: a control is
\* never hidden itself, so the same fields are visible afterwards.
LEMMA SentKeepsVisible ==
    ASSUME NEW a \in Answers
    PROVE  /\ Sent(a) \in Answers
           /\ \A f \in Fields : Visible(f, Sent(a)) <=> Visible(f, a)
           /\ \A f \in Fields : Visible(f, a) => Sent(a)[f] = a[f]
           /\ \A f \in Fields : Filled(f, Sent(a)) => Visible(f, a) /\ Sent(a)[f] = a[f]
<1>1. Sent(a) \in Answers /\ \A f \in Fields : Visible(f, a) => Sent(a)[f] = a[f]
  BY DEF Sent, Answers, Value
<1>2. ASSUME NEW f \in Fields PROVE Visible(f, Sent(a)) <=> Visible(f, a)
  <2>1. CASE f \in Conditional
    <3>1. ShowIf[f].field \in Fields /\ Visible(ShowIf[f].field, a)
      BY <2>1, ShowIfAssumption DEF Visible
    <3> QED
      BY <3>1, <1>1 DEF Visible
  <2> QED
    BY <2>1 DEF Visible
<1>3. ASSUME NEW f \in Fields, Filled(f, Sent(a)) PROVE Visible(f, a) /\ Sent(a)[f] = a[f]
  BY <1>3 DEF Filled, Sent, Empty
<1> QED
  BY <1>1, <1>2, <1>3

\* What handleSubmit checks on the form, what it sends satisfies.
LEMMA SubmitChecks ==
    ASSUME FormInv, HandleSubmit
    PROVE  Checked(Sent(answers))
<1> DEFINE d == Sent(answers)
<1>0. answers \in Answers /\ StepOf \in [Fields -> 0..Last] /\ Last \in Nat /\ step = Last
  BY StepsAssumption DEF FormInv, TypeOK, HandleSubmit
<1>1. /\ d \in Answers
      /\ \A f \in Fields : Visible(f, d) <=> Visible(f, answers)
      /\ \A f \in Fields : Visible(f, answers) => d[f] = answers[f]
      /\ \A f \in Fields : Filled(f, d) => Visible(f, answers) /\ d[f] = answers[f]
  BY <1>0, SentKeepsVisible
<1> HIDE DEF d
<1>2. ASSUME NEW f \in Required, Visible(f, d) PROVE Filled(f, d)
  <2>1. f \in Fields /\ Visible(f, answers) /\ d[f] = answers[f]
    BY <1>1, <1>2, FieldsAssumption
  <2>2. CASE StepOf[f] = Last
    BY <2>1, <2>2, <1>0 DEF HandleSubmit, Missing, OnStep, Filled
  <2>3. CASE StepOf[f] < Last
    BY <2>1, <2>3, <1>0 DEF FormInv, StepsDone, Filled
  <2> QED
    BY <2>1, <2>2, <2>3, <1>0
<1>3. ASSUME NEW g \in Groups PROVE \E f \in g : Filled(f, d)
  <2>1. \A f \in g : f \in Fields /\ Visible(f, answers)
    BY FieldsAssumption, ShowIfAssumption DEF Visible
  <2>2. g # {}
    BY FieldsAssumption
  <2>3. g \cap VisibleOf(Fields, answers) # {}
    BY <2>1, <2>2 DEF VisibleOf
  <2>4. \E f \in g : Filled(f, answers)
    BY <2>3 DEF HandleSubmit, Problems, GroupEmpty
  <2> QED
    BY <2>1, <2>4, <1>1 DEF Filled
<1>4. DatesHold(d)
  BY <1>1, FieldsAssumption DEF FormInv, DatesHold, Filled, d, Sent
<1>5. DatesFit(d)
  <2> SUFFICES ASSUME NEW f \in Dates, Filled(f, d)
               PROVE  /\ d[f] # Bad
                      /\ f \in NotFuture => ~(d[f] > Today)
                      /\ \A r \in Rules :
                            (r.field = f /\ IsDay(r.lo, d) /\ IsDay(r.hi, d))
                               => ~(d[r.lo] > d[r.hi])
    BY DEF DatesFit
  <2>1. f \in Fields /\ Visible(f, answers) /\ d[f] = answers[f] /\ Filled(f, answers)
    BY <1>1, FieldsAssumption DEF Filled
  <2>2. f \notin DateErrors(VisibleOf(VisibleOf(Fields, answers), answers), answers)
    BY DEF HandleSubmit, Problems
  <2>3. f \in VisibleOf(VisibleOf(Fields, answers), answers)
    BY <2>1 DEF VisibleOf
  <2>4. /\ answers[f] # Bad
        /\ f \in NotFuture => ~(answers[f] > Today)
        /\ \A r \in Rules :
              (r.field = f /\ IsDay(r.lo, answers) /\ IsDay(r.hi, answers))
                 => ~(answers[r.lo] > answers[r.hi])
    BY <2>1, <2>2, <2>3 DEF DateErrors
  <2>5. ASSUME NEW r \in Rules, IsDay(r.lo, d), IsDay(r.hi, d)
        PROVE  /\ IsDay(r.lo, answers) /\ IsDay(r.hi, answers)
               /\ d[r.lo] = answers[r.lo] /\ d[r.hi] = answers[r.hi]
    BY <2>5, <1>1, FieldsAssumption DEF IsDay, Filled
  <2> QED
    BY <2>1, <2>4, <2>5
<1>6. \A f \in Fields : Filled(f, d) => Visible(f, d)
  BY <1>1
<1> QED
  BY <1>2, <1>3, <1>4, <1>5, <1>6 DEF Checked, Complete, d

\* The rows of the summary are those of what is sent: leaving hidden answers out
\* drops none that is shown.
LEMMA SentIsSummary ==
    ASSUME NEW a \in Answers
    PROVE  Rows(Sent(a)) = Summary(a) /\ Summary(a) \in SUBSET (Fields \X Value)
<1>1. ASSUME NEW f \in Fields
      PROVE  /\ Filled(f, Sent(a)) <=> Visible(f, a) /\ Filled(f, a)
             /\ Filled(f, Sent(a)) => Sent(a)[f] = a[f]
  BY SentKeepsVisible DEF Filled
<1>2. {g \in Fields : Filled(g, Sent(a))} = {g \in Fields : Visible(g, a) /\ Filled(g, a)}
  BY <1>1
<1>3. Summary(a) \subseteq Fields \X Value
  BY DEF Summary, Answers
<1> HIDE DEF Sent, Visible, Filled
<1> QED
  BY <1>1, <1>2, <1>3 DEF Rows, Summary

\* Every step of the form, the server and the answer keeps the invariant.
LEMMA FormStep == FormInv /\ [Next]_vars => FormInv'
<1> SUFFICES ASSUME FormInv, [Next]_vars PROVE FormInv'
  OBVIOUS
<1> USE NothingIsFilled, StepsAssumption, FieldsAssumption
<1>0. /\ answers \in Answers /\ request \in Request /\ step \in 0..Last /\ made \in Nat
      /\ cookie \in 0..made /\ seen \subseteq 1..made /\ lost \subseteq 1..made
      /\ guests \subseteq 1..made /\ savedEmail \in Value /\ bucket \in Nat
  BY DEF FormInv, TypeOK
<1>1. CASE NewVisit
  <2>1. /\ request' \in Request
        /\ request'.data = request.data /\ request'.pc = request.pc
        /\ request'.redirect = request.redirect /\ request'.checked = request.checked
    BY <1>0, <1>1 DEF NewVisit, Request
  <2>2. step' = 0 /\ step' \in 0..Last /\ UNCHANGED <<browser, server, history>>
    BY <1>1 DEF NewVisit
  <2>3. answers' = NoAnswers /\ answers' \in Answers
    BY <1>1 DEF NewVisit
  <2>4. TypeOK'
    BY <1>0, <1>1, <2>1, <2>2, <2>3 DEF NewVisit, FormInv, TypeOK, browser, server, history
  <2>5. StepsDone'
    BY <2>2 DEF StepsDone
  <2>6. ReplyHasOrder'
    BY <2>1, <2>2 DEF FormInv, ReplyHasOrder, server
  <2> QED
    BY <2>1, <2>3, <2>4, <2>5, <2>6 DEF FormInv
<1>2. ASSUME PrefillContact \/ PrefillEmail PROVE FormInv'
  <2>1. /\ answers' \in Answers
        /\ \A f \in Fields \ Contact : answers'[f] = answers[f]
        /\ \A f \in Fields : Filled(f, answers) => answers'[f] = answers[f]
    BY <1>0, <1>2, ValuesAssumption DEF PrefillContact, PrefillEmail, Answers, Filled, Empty
  <2>2. UNCHANGED <<place, step, consent, browser, request, server, history>>
    BY <1>2 DEF PrefillContact, PrefillEmail
  <2>3. \A f \in Fields : Visible(f, answers') <=> Visible(f, answers)
    BY <2>1, ShowIfAssumption DEF Visible
  <2>4. TypeOK'
    BY <1>0, <1>2, <2>1, <2>2
       DEF FormInv, TypeOK, browser, server, history, PrefillContact, PrefillEmail
  <2>5. DatesHold(answers')
    BY <2>1, ValuesAssumption DEF FormInv, DatesHold
  <2>6. StepsDone'
    BY <2>1, <2>2, <2>3 DEF FormInv, StepsDone, Filled
  <2> QED
    BY <2>2, <2>4, <2>5, <2>6 DEF FormInv, ReplyHasOrder, server
<1>3. ASSUME NEW f \in Fields, NEW v \in Values[f], HandleChange(f, v) PROVE FormInv'
  <2>1. /\ answers' = [answers EXCEPT ![f] = v] /\ StepOf[f] = step
        /\ UNCHANGED <<place, step, consent, prefill, browser, request, server, history>>
    BY <1>3 DEF HandleChange, OnStep
  <2>2. answers' \in Answers
    BY <1>0, <2>1 DEF Answers, Value
  <2>3. TypeOK'
    BY <1>0, <2>1, <2>2 DEF FormInv, TypeOK, browser, server, history
  <2>4. DatesHold(answers')
    BY <1>0, <2>1 DEF FormInv, DatesHold, Answers
  <2>5. StepsDone'
    <3> SUFFICES ASSUME NEW g \in Required, StepOf[g] < step, Visible(g, answers')
                 PROVE  Filled(g, answers')
      BY <2>1 DEF StepsDone
    <3>1. g \in Fields /\ g # f
      BY <2>1, <1>0
    <3>2. answers'[g] = answers[g]
      BY <2>1, <3>1, <1>0 DEF Answers
    <3>3. Visible(g, answers)
      <4>1. CASE g \in Conditional
        <5>1. ShowIf[g].field \in Fields /\ StepOf[ShowIf[g].field] <= StepOf[g]
          BY <4>1, ShowIfAssumption
        <5>2. StepOf[ShowIf[g].field] \in Int /\ StepOf[g] \in Int /\ step \in Int
          BY <5>1, <3>1, <1>0
        <5>3. ShowIf[g].field # f
          BY <5>1, <5>2, <2>1
        <5> QED
          BY <5>1, <5>3, <2>1, <1>0 DEF Visible, Answers
      <4> QED
        BY <4>1 DEF Visible
    <3> QED
      BY <3>1, <3>2, <3>3 DEF FormInv, StepsDone, Filled
  <2> QED
    BY <2>1, <2>3, <2>4, <2>5 DEF FormInv, ReplyHasOrder, server
<1>4. CASE ToggleConsent
  BY <1>0, <1>4 DEF ToggleConsent, FormInv, TypeOK, StepsDone, ReplyHasOrder, browser, server, history
<1>5. CASE HandleNext
  <2>1. /\ step < Last /\ Missing(OnStep(step), answers) = {} /\ step' = step + 1
        /\ UNCHANGED <<place, answers, consent, prefill, browser, request, server, history>>
    BY <1>5 DEF HandleNext
  <2>2. step' \in 0..Last
    BY <1>0, <2>1
  <2>3. TypeOK'
    BY <1>0, <2>1, <2>2 DEF FormInv, TypeOK, browser, server, history
  <2>4. StepsDone'
    <3> SUFFICES ASSUME NEW f \in Required, StepOf[f] < step + 1, Visible(f, answers)
                 PROVE  Filled(f, answers)
      BY <2>1 DEF StepsDone
    <3>1. f \in Fields /\ StepOf[f] \in Int /\ step \in Int
      BY <1>0
    <3>2. CASE StepOf[f] = step
      BY <2>1, <3>1, <3>2 DEF Missing, OnStep
    <3>3. CASE StepOf[f] < step
      BY <3>1, <3>3 DEF FormInv, StepsDone
    <3> QED
      BY <3>1, <3>2, <3>3
  <2> QED
    BY <2>1, <2>3, <2>4 DEF FormInv, ReplyHasOrder, server
<1>6. CASE HandleBack
  <2>1. /\ step > 0 /\ step' = step - 1
        /\ UNCHANGED <<place, answers, consent, prefill, browser, request, server, history>>
    BY <1>6 DEF HandleBack
  <2>2. step' \in 0..Last
    BY <1>0, <2>1
  <2>3. TypeOK'
    BY <1>0, <2>1, <2>2 DEF FormInv, TypeOK, browser, server, history
  <2>4. StepsDone'
    BY <1>0, <2>1 DEF FormInv, StepsDone
  <2> QED
    BY <2>1, <2>3, <2>4 DEF FormInv, ReplyHasOrder, server
<1>7. CASE HandleSubmit
  <2>1. /\ Sent(answers) \in Answers /\ Checked(Sent(answers))
        /\ Rows(Sent(answers)) = Summary(answers)
        /\ Summary(answers) \in SUBSET (Fields \X Value)
    BY <1>0, <1>7, SentKeepsVisible, SubmitChecks, SentIsSummary
  <2>2. /\ request' \in Request /\ request'.data = Sent(answers)
        /\ request'.checked = Summary(answers)
        /\ request'.pc = "sent" /\ request'.redirect = FALSE
    BY <1>7, <2>1 DEF HandleSubmit, Sends, NoRequest, Request
  <2> QED
    BY <1>0, <1>7, <2>1, <2>2
       DEF HandleSubmit, FormInv, TypeOK, StepsDone, ReplyHasOrder, form, browser, server, history
<1>8. CASE SessionEnds
  BY <1>0, <1>8 DEF SessionEnds, FormInv, TypeOK, StepsDone, ReplyHasOrder, form, server, history
<1>9. CASE Server
  <2>1. UNCHANGED <<form, browser>>
    BY <1>9 DEF Server, SubmitWizard, WindowEnds, InitOrderRefuses, InitOrder, TakeReply, BackendFails
  <2>2. request' \in Request /\ request'.data = request.data
        /\ request'.checked = request.checked
        /\ (request'.pc # "none" => request.pc # "none")
    BY <1>0, <1>9 DEF Server, SubmitWizard, WindowEnds, InitOrderRefuses, InitOrder, TakeReply,
       BackendFails, Returns, Request
  <2>3. /\ made' \in {made, made + 1} /\ bucket' \in Nat /\ guests' \subseteq 1..made'
        /\ seen' \subseteq 1..made' /\ lost' \subseteq 1..made' /\ ReplyHasOrder'
    <3>1. CASE InitOrder
      <4>1. made' = made + 1 /\ made + 1 \in 1..made' /\ 1..made \subseteq 1..made'
        BY <1>0, <3>1 DEF InitOrder
      <4>2. UNCHANGED <<bucket, seen, lost>> /\ guests' \subseteq guests \cup {made + 1}
        BY <3>1 DEF InitOrder, history
      <4> QED
        BY <1>0, <4>1, <4>2 DEF ReplyHasOrder
    <3>2. CASE BackendFails
      <4>1. UNCHANGED server /\ UNCHANGED seen /\ request'.pc = "answered" /\ request'.redirect = FALSE
        BY <1>0, <3>2 DEF BackendFails, Returns, Request
      <4>2. lost' \subseteq 1..made
        <5>1. CASE request.pc = "created"
          <6>1. made \in 1..made
            BY <1>0, <5>1 DEF FormInv, ReplyHasOrder
          <6> QED
            BY <1>0, <3>2, <6>1 DEF BackendFails
        <5>2. CASE request.pc # "created"
          BY <1>0, <3>2, <5>2 DEF BackendFails
        <5> QED
          BY <5>1, <5>2
      <4> QED
        BY <1>0, <4>1, <4>2 DEF server, ReplyHasOrder
    <3>3. CASE SubmitWizard \/ WindowEnds \/ InitOrderRefuses \/ TakeReply
      <4>1. UNCHANGED <<made, guests, seen, lost>> /\ bucket' \in Nat
        <5>1. CASE SubmitWizard
          <6>1. bucket + 1 \in Nat
            BY <1>0
          <6> QED
            BY <1>0, <5>1, <6>1 DEF SubmitWizard, Counts, history
        <5>2. CASE WindowEnds
          BY <5>2 DEF WindowEnds, history
        <5>3. CASE InitOrderRefuses \/ TakeReply
          BY <1>0, <5>3 DEF InitOrderRefuses, TakeReply, server, history
        <5> QED
          BY <3>3, <5>1, <5>2, <5>3
      <4>2. \/ request'.redirect = request.redirect /\ request'.pc # "created"
            \/ request'.redirect = FALSE /\ request'.pc # "created"
            \/ request.pc = "created"
            \/ UNCHANGED request
        BY <1>0, <3>3 DEF SubmitWizard, WindowEnds, InitOrderRefuses, TakeReply, Returns, Request
      <4>3. ReplyHasOrder'
        BY <4>1, <4>2 DEF FormInv, ReplyHasOrder
      <4> QED
        BY <1>0, <4>1, <4>3
    <3> QED
      BY <1>9, <3>1, <3>2, <3>3 DEF Server
  <2>4. TypeOK'
    <3>1. cookie' \in 0..made'
      BY <1>0, <2>1, <2>3 DEF browser
    <3>2. step' \in 0..Last /\ answers' \in Answers /\ made' \in Nat
      BY <1>0, <2>1, <2>3 DEF form
    <3> QED
      BY <2>1, <2>2, <2>3, <3>1, <3>2 DEF FormInv, TypeOK, form, browser
  <2> QED
    BY <2>1, <2>2, <2>3, <2>4 DEF FormInv, StepsDone, form
<1>10. CASE RedirectArrives
  <2>1. made \in 1..made /\ request.data[Email] \in Value
    BY <1>0, <1>10 DEF RedirectArrives, FormInv, ReplyHasOrder, Request, Answers
  <2>2. UNCHANGED <<step, answers, consent, prefill, signedIn, server, lost>>
    BY <1>10 DEF RedirectArrives
  <2>3. /\ cookie' \in 0..made /\ savedEmail' \in Value /\ seen' \subseteq 1..made
        /\ place' = "order" /\ request' = NoRequest
    <3>1. /\ cookie' = IF made \in guests THEN made ELSE cookie
          /\ savedEmail' = request.data[Email] /\ seen' = seen \cup {made}
          /\ place' = "order" /\ request' = NoRequest
      BY <1>10 DEF RedirectArrives
    <3>2. made \in 0..made
      BY <1>0
    <3> HIDE DEF NoRequest, Value
    <3> QED
      BY <1>0, <2>1, <3>1, <3>2
  <2>4. TypeOK'
    BY <1>0, <2>2, <2>3 DEF FormInv, TypeOK, server
  <2> QED
    BY <2>2, <2>3, <2>4 DEF FormInv, StepsDone, ReplyHasOrder, NoRequest, server
<1>11. CASE ErrorArrives
  BY <1>0, <1>11
     DEF ErrorArrives, FormInv, TypeOK, StepsDone, ReplyHasOrder, NoRequest, form, browser, server, history
<1>12. CASE AnswerLost
  <2>1. lost' \subseteq 1..made
    <3>1. CASE request.redirect
      <4>1. made \in 1..made
        BY <1>0, <3>1 DEF FormInv, ReplyHasOrder
      <4> QED
        BY <1>0, <1>12, <3>1, <4>1 DEF AnswerLost
    <3>2. CASE ~request.redirect
      BY <1>0, <1>12, <3>2 DEF AnswerLost
    <3> QED
      BY <3>1, <3>2
  <2>2. UNCHANGED <<browser, server, seen>> /\ request' = NoRequest
    BY <1>12 DEF AnswerLost
  <2>3. CASE UNCHANGED form
    BY <1>0, <2>1, <2>2, <2>3
       DEF FormInv, TypeOK, StepsDone, ReplyHasOrder, NoRequest, form, browser, server
  <2>4. CASE /\ step' = 0 /\ answers' = NoAnswers /\ consent' = FALSE
             /\ prefill' = "asking" /\ place' = place
    <3>1. step' \in 0..Last /\ answers' \in Answers /\ StepsDone'
      BY <2>4 DEF StepsDone
    <3>2. TypeOK'
      BY <1>0, <2>1, <2>2, <2>4, <3>1 DEF FormInv, TypeOK, browser, server
    <3> QED
      BY <2>2, <2>4, <3>1, <3>2 DEF FormInv, ReplyHasOrder, NoRequest
  <2> QED
    BY <1>12, <2>3, <2>4 DEF AnswerLost
<1>13. CASE UNCHANGED vars
  BY <1>13 DEF vars, FormInv, TypeOK, StepsDone, ReplyHasOrder, form, browser, server, history
<1> QED
  BY <1>1, <1>2, <1>3, <1>4, <1>5, <1>6, <1>7, <1>8, <1>9, <1>10, <1>11, <1>12, <1>13
     DEF Next, Customer, Answer

-----------------------------------------------------------------------------
LEMMA FormSafe == Spec => []FormInv
BY FormInit, FormStep, PTL DEF Spec

\* The types of the form's state, for any situation.
THEOREM FormTypes == Spec => []TypeOK
<1>1. FormInv => TypeOK
  BY DEF FormInv
<1> QED
  BY <1>1, FormSafe, PTL

\* Every order is complete although only the form asks for what is required.
THEOREM OrdersAreComplete == Spec => []OrdersComplete
<1>1. FormInv => OrdersComplete
  BY DEF FormInv, Checked, OrdersComplete
<1> QED
  BY <1>1, FormSafe, PTL

\* What is ordered is what the summary on the last step showed when it was sent.
THEOREM OrdersAreSummaries == Spec => []OrderedIsSummary
<1>1. FormInv => OrderedIsSummary
  BY DEF FormInv, OrderedIsSummary
<1> QED
  BY <1>1, FormSafe, PTL

\* The form mirrors the validators of the backend but for what it cannot know.
THEOREM FormMirrorsServer == Spec => []MirrorsServer
<1>1. FormInv => MirrorsServer
  <2> SUFFICES ASSUME FormInv, request.pc = "posted", NEW day \in ServerDays,
                      \A f \in Fields : request.data[f] \notin Unwelcome, ~(day < Today)
               PROVE  BackendAccepts(request.data, day)
    BY DEF MirrorsServer
  <2> DEFINE d == request.data
  <2>1. Checked(d)
    BY DEF FormInv
  <2> HIDE DEF d
  <2>2. day \in Int /\ Today \in Int /\ Today <= day
    BY NumbersAssumption
  <2>3. \A f \in Dates : IsDay(f, d) => d[f] \in Int
    BY <2>1, ValuesAssumption DEF Checked, DatesHold, IsDay, Filled, Empty
  <2>4. ASSUME NEW f \in Dates, Filled(f, d)
        PROVE  /\ d[f] # Bad
               /\ f \in NotFuture => d[f] <= day
               /\ \A r \in Rules :
                     (r.field = f /\ IsDay(r.lo, d) /\ IsDay(r.hi, d)) => d[r.lo] <= d[r.hi]
    <3>1. /\ d[f] # Bad
          /\ f \in NotFuture => ~(d[f] > Today)
          /\ \A r \in Rules :
                (r.field = f /\ IsDay(r.lo, d) /\ IsDay(r.hi, d)) => ~(d[r.lo] > d[r.hi])
      BY <2>1, <2>4 DEF Checked, DatesFit
    <3>2. f \in NotFuture => d[f] <= day
      BY <2>2, <2>3, <2>4, <3>1 DEF IsDay
    <3>3. ASSUME NEW r \in Rules, r.field = f, IsDay(r.lo, d), IsDay(r.hi, d)
          PROVE  d[r.lo] <= d[r.hi]
      <4>1. d[r.lo] \in Int /\ d[r.hi] \in Int
        BY <2>3, <3>3, FieldsAssumption
      <4> QED
        BY <3>1, <3>3, <4>1
    <3> QED
      BY <3>1, <3>2, <3>3
  <2> QED
    BY <2>1, <2>4 DEF BackendAccepts, Checked, Complete, d
<1> QED
  BY <1>1, FormSafe, PTL

\* No order is made behind the customer's back but by the loss of an answer.
THEOREM UnseenWereLost == Spec => []UnseenWasLost
<1>1. Init => UnseenWasLost
  BY DEF Init, UnseenWasLost
<1>2. FormInv /\ UnseenWasLost /\ [Next]_vars => UnseenWasLost'
  <2> SUFFICES ASSUME FormInv, UnseenWasLost, [Next]_vars PROVE UnseenWasLost'
    OBVIOUS
  <2>0. request \in Request /\ made \in Nat
    BY DEF FormInv, TypeOK
  <2>1. CASE InitOrder
    BY <2>0, <2>1 DEF InitOrder, UnseenWasLost, history, Request
  <2>2. CASE TakeReply \/ BackendFails \/ RedirectArrives
    <3>1. CASE TakeReply
      BY <2>0, <3>1 DEF TakeReply, Returns, UnseenWasLost, history, server, Request
    <3>2. CASE BackendFails
      BY <2>0, <3>2 DEF BackendFails, Returns, UnseenWasLost, history, server, Request
    <3>3. CASE RedirectArrives
      BY <2>0, <3>3 DEF RedirectArrives, UnseenWasLost, server
    <3> QED
      BY <2>2, <3>1, <3>2, <3>3
  <2>3. CASE ErrorArrives \/ AnswerLost
    BY <2>0, <2>3 DEF ErrorArrives, AnswerLost, UnseenWasLost, server, history
  <2>4. CASE SubmitWizard \/ InitOrderRefuses \/ WindowEnds
    BY <2>0, <2>4 DEF SubmitWizard, InitOrderRefuses, WindowEnds, Returns, UnseenWasLost, server,
       history, Request
  <2>5. CASE NewVisit \/ HandleSubmit
    BY <2>0, <2>5 DEF NewVisit, HandleSubmit, Sends, NoRequest, UnseenWasLost, server, history,
       Request
  <2>6. CASE UNCHANGED <<request, server, history>>
    BY <2>6 DEF UnseenWasLost, server, history
  <2>7. ASSUME NEW f \in Fields, NEW v \in Values[f], HandleChange(f, v) PROVE UnseenWasLost'
    BY <2>6, <2>7 DEF HandleChange
  <2>8. CASE PrefillContact \/ PrefillEmail \/ ToggleConsent \/ HandleNext \/ HandleBack \/ SessionEnds
    BY <2>6, <2>8
       DEF PrefillContact, PrefillEmail, ToggleConsent, HandleNext, HandleBack, SessionEnds
  <2>9. CASE UNCHANGED vars
    BY <2>6, <2>9 DEF vars
  <2> QED
    BY <2>1, <2>2, <2>3, <2>4, <2>5, <2>7, <2>8, <2>9 DEF Next, Customer, Server, Answer
<1> QED
  BY <1>1, <1>2, FormSafe, PTL DEF Spec

\* A prefill replaces nothing that was typed, be it on the step that is shown.
THEOREM TypedAnswersStay == Spec => TypedStays
<1>1. FormInv /\ [Next]_vars =>
        [\A f \in Fields : Filled(f, answers) /\ answers'[f] # answers[f]
             => \/ answers' = NoAnswers
                \/ StepOf[f] = step /\ prefill' = prefill]_vars
  <2> SUFFICES ASSUME FormInv, [Next]_vars, NEW f \in Fields,
                      Filled(f, answers), answers'[f] # answers[f]
               PROVE  answers' = NoAnswers \/ (StepOf[f] = step /\ prefill' = prefill)
    OBVIOUS
  <2>0. answers \in Answers
    BY DEF FormInv, TypeOK
  <2>1. CASE NewVisit \/ AnswerLost
    BY <2>1 DEF NewVisit, AnswerLost, form
  <2>2. ASSUME PrefillContact \/ PrefillEmail PROVE FALSE
    BY <2>0, <2>2 DEF PrefillContact, PrefillEmail, Filled, Empty, Answers
  <2>3. ASSUME NEW g \in Fields, NEW v \in Values[g], HandleChange(g, v)
        PROVE  StepOf[f] = step /\ prefill' = prefill
    BY <2>0, <2>3 DEF HandleChange, OnStep, Answers
  <2>4. CASE UNCHANGED answers
    BY <2>4
  <2>5. ASSUME ToggleConsent \/ HandleNext \/ HandleBack \/ HandleSubmit \/ SessionEnds \/ Server
               \/ RedirectArrives \/ ErrorArrives \/ UNCHANGED vars
        PROVE  FALSE
    BY <2>5 DEF ToggleConsent, HandleNext, HandleBack, HandleSubmit, SessionEnds, Server,
       SubmitWizard, WindowEnds, InitOrderRefuses, InitOrder, TakeReply, BackendFails,
       RedirectArrives, ErrorArrives, form, vars
  <2> QED
    BY <2>1, <2>2, <2>3, <2>5 DEF Next, Customer, Answer
<1> QED
  BY <1>1, FormSafe, PTL DEF Spec, TypedStays

\* No submission makes two orders, none is made with a gap, and the fate of each
\* is settled once: every step of the form, the action and the backend is a step
\* of OrderIntake or leaves its variables alone.
THEOREM IntakeRefines == Spec => KeepsIntake
<1>1. Init => Intake!Init
  BY DEF Init, NoRequest, Intake!Init, Draft, Underway
<1>2. FormInv /\ [Next]_vars => [Intake!Next]_(Intake!intakeVars)
  <2> SUFFICES ASSUME FormInv, [Next]_vars
               PROVE  Intake!Next \/ UNCHANGED <<made, Draft, seen, lost>>
    BY DEF Intake!intakeVars
  <2>0. /\ request \in Request
        /\ Underway => Draft = "complete"
        /\ ~Underway => Draft = "none"
    BY DEF FormInv, TypeOK, Draft, Underway, Checked
  <2>1. CASE InitOrder
    <3>1. made' = made + 1 /\ UNCHANGED <<seen, lost>> /\ ~Underway
      BY <2>1 DEF InitOrder, history, Underway
    <3>2. request'.pc = "created" /\ Complete(request'.data)
      BY <2>0, <2>1 DEF InitOrder, Request, FormInv, Checked
    <3>3. Draft' = "complete"
      BY <3>2 DEF Draft, Underway, Complete, Visible, Filled
    <3> QED
      BY <2>0, <3>1, <3>3 DEF Intake!Next, Intake!Make
  <2>2. CASE RedirectArrives
    <3>1. Underway /\ seen' = seen \cup {made} /\ UNCHANGED <<made, lost>>
      BY <2>2 DEF RedirectArrives, Underway, server
    <3>2. Draft' = "none"
      BY <2>2 DEF RedirectArrives, NoRequest, Draft, Underway
    <3> QED
      BY <2>0, <3>1, <3>2 DEF Intake!Next, Intake!Show
  <2>3. CASE BackendFails
    <3>1. request'.pc = "answered" /\ request'.redirect = FALSE /\ UNCHANGED <<made, seen>>
      BY <2>0, <2>3 DEF BackendFails, Returns, Request, server
    <3>2. Draft' = "none"
      BY <3>1 DEF Draft, Underway
    <3>3. CASE request.pc = "created"
      BY <2>0, <2>3, <3>1, <3>2, <3>3 DEF BackendFails, Underway, Intake!Next, Intake!Lose
    <3>4. CASE request.pc = "posted"
      BY <2>0, <2>3, <3>1, <3>2, <3>4 DEF BackendFails, Underway
    <3> QED
      BY <2>3, <3>3, <3>4 DEF BackendFails
  <2>4. CASE AnswerLost
    <3>1. request.pc = "answered" /\ UNCHANGED <<made, seen>>
      BY <2>4 DEF AnswerLost, server
    <3>2. Draft' = "none"
      BY <2>4 DEF AnswerLost, NoRequest, Draft, Underway
    <3>3. CASE request.redirect
      BY <2>0, <2>4, <3>1, <3>2, <3>3 DEF AnswerLost, Underway, Intake!Next, Intake!Lose
    <3>4. CASE ~request.redirect
      BY <2>0, <2>4, <3>1, <3>2, <3>4 DEF AnswerLost, Underway
    <3> QED
      BY <3>3, <3>4
  <2>5. CASE TakeReply \/ NewVisit
    <3>1. /\ UNCHANGED <<made, seen, lost>> /\ request'.data = request.data
          /\ Underway' <=> Underway
      BY <2>0, <2>5 DEF TakeReply, Returns, NewVisit, Request, Underway, server, history
    <3> QED
      BY <3>1 DEF Draft, Complete, Visible, Filled
  <2>6. CASE SubmitWizard \/ InitOrderRefuses \/ HandleSubmit \/ ErrorArrives
    <3>1. UNCHANGED <<made, seen, lost>> /\ ~Underway
      BY <2>6
         DEF SubmitWizard, InitOrderRefuses, HandleSubmit, ErrorArrives, Underway, server, history
    <3>2. \/ request'.pc \in {"none", "sent", "posted"}
          \/ request'.pc = "answered" /\ request'.redirect = FALSE
      <4>1. CASE SubmitWizard \/ InitOrderRefuses
        BY <2>0, <4>1 DEF SubmitWizard, InitOrderRefuses, Returns, Request
      <4>2. CASE HandleSubmit
        BY <4>2 DEF HandleSubmit, Sends, NoRequest
      <4>3. CASE ErrorArrives
        BY <4>3 DEF ErrorArrives, NoRequest
      <4> QED
        BY <2>6, <4>1, <4>2, <4>3
    <3>3. Draft' = "none"
      BY <3>2 DEF Draft, Underway
    <3> QED
      BY <2>0, <3>1, <3>3
  <2>7. CASE UNCHANGED <<request, made, history>>
    BY <2>7 DEF Draft, Underway, Complete, Visible, Filled, history
  <2>8. ASSUME NEW f \in Fields, NEW v \in Values[f], HandleChange(f, v)
        PROVE  UNCHANGED <<request, made, history>>
    BY <2>8 DEF HandleChange, server
  <2>9. ASSUME PrefillContact \/ PrefillEmail \/ ToggleConsent \/ HandleNext \/ HandleBack
               \/ SessionEnds \/ WindowEnds \/ UNCHANGED vars
        PROVE  UNCHANGED <<request, made, history>>
    BY <2>9 DEF PrefillContact, PrefillEmail, ToggleConsent, HandleNext, HandleBack, SessionEnds,
       WindowEnds, server, vars
  <2> QED
    BY <2>1, <2>2, <2>3, <2>4, <2>5, <2>6, <2>7, <2>8, <2>9 DEF Next, Customer, Server, Answer
<1> QED
  BY <1>1, <1>2, FormSafe, PTL DEF Spec, KeepsIntake, Intake!Spec

=============================================================================
