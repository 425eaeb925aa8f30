--------------------------- MODULE DeliveryProofs ---------------------------
(***************************************************************************)
(* A finished order's forms: what they say of letters and reviews is true, *)
(* for any addresses and texts, whatever other tabs and late answers do.   *)
(* The invariant falls into a half for the letter and a half for the       *)
(* review; a step of one leaves the other alone.                           *)
(***************************************************************************)
EXTENDS DeliveryProperties, TLAPS

\* The half of the letter and its form.
MailInv ==
    /\ order \in Rows
    /\ was \subseteq Rows
    /\ shown \in Final \cup {"generating", "closed"}
    /\ form \in [view : FormViews, current : MaybeAddress, mailed : MaybeAddress,
                 behind : BOOLEAN]
    /\ letter \in [at : LetterStages, email : MaybeAddress, typed : MaybeAddress,
                   due : BOOLEAN, to : MaybeAddress]
    /\ signedIn \in BOOLEAN
    /\ LetterFits
    /\ BeliefFits
    /\ form.view # "absent" <=> shown \in Final
    /\ SaidIsSent

\* The half of the review and its form.
ReviewInv ==
    /\ stored \in MaybeText
    /\ opinion \in [view : OpinionViews, text : MaybeText]
    /\ post \in [at : {"no", "sent", "ok", "refused"}, text : MaybeText]
    /\ PostFits
    /\ opinion.view # "absent" <=> shown = "done"
    /\ ReviewIsThere

LEMMA Halves == DeliveryInv <=> MailInv /\ ReviewInv
BY DEF DeliveryInv, MailInv, ReviewInv, TypeOK, FormsFit

LEMMA InitDelivery == Init => DeliveryInv
<1> SUFFICES ASSUME Init PROVE MailInv /\ ReviewInv
  BY Halves
<1>1. MailInv
  BY DEF Init, MailInv, Rows, NoForm, NoLetter, LetterFits, BeliefFits, SaidIsSent, Final,
     MaybeAddress, FormViews, LetterStages
<1>2. ReviewInv
  BY DEF Init, ReviewInv, NoOpinion, NoPost, PostFits, ReviewIsThere, MaybeText, OpinionViews
<1> QED
  BY <1>1, <1>2

\* An answer on its way speaks of a row there has been.
LEMMA WatchesRows ==
    ASSUME was \subseteq Rows, order' \in Rows, Watches
    PROVE  was' \subseteq Rows
BY DEF Watches

\* A form that stays keeps its request, one that goes loses it, and one that
\* comes is behind the row unless it was told what the row says.
LEMMA ShowsMail ==
    ASSUME MailInv, NEW n \in [status : Final \cup {"generating", "closed"},
                               email : MaybeAddress],
           Shows(n), order' \in Rows, order'.email = order.email, was' \subseteq Rows,
           signedIn' = signedIn
    PROVE  MailInv'
<1>1. shown' = n.status /\ n.email \in MaybeAddress
      /\ shown' \in Final \cup {"generating", "closed"}
  BY DEF Shows
<1>2. CASE n.status \notin Final
  <2>1. form' = NoForm /\ letter' = NoLetter
    BY <1>2 DEF Shows
  <2> QED
    BY <1>1, <1>2, <2>1 DEF MailInv, NoForm, NoLetter, LetterFits, BeliefFits, SaidIsSent,
       FormViews, LetterStages, MaybeAddress
<1>3. CASE n.status \in Final /\ shown \in Final
  <2>1. form' = form /\ letter' = letter
    BY <1>3 DEF Shows
  <2> QED
    BY <1>1, <1>3, <2>1 DEF MailInv, LetterFits, BeliefFits, SaidIsSent
<1>4. CASE n.status \in Final /\ shown \notin Final
  <2>1. letter' = letter /\ letter.at = "no"
    BY <1>4 DEF Shows, MailInv, LetterFits
  <2>2. form' = [view |-> "shown", current |-> n.email, mailed |-> None,
                 behind |-> n.email # order.email]
    BY <1>4 DEF Shows, NoForm
  <2>3. form' \in [view : FormViews, current : MaybeAddress, mailed : MaybeAddress,
                   behind : BOOLEAN]
        /\ form'.view = "shown" /\ (~form'.behind => order'.email = form'.current)
    <3>1. (n.email # order.email) \in BOOLEAN /\ None \in MaybeAddress
      BY DEF MaybeAddress
    <3> QED
      BY <1>1, <2>2, <3>1 DEF FormViews
  <2>4. LetterFits' /\ BeliefFits' /\ SaidIsSent'
    BY <2>1, <2>3 DEF LetterFits, BeliefFits, SaidIsSent
  <2> QED
    BY <1>1, <1>4, <2>1, <2>3, <2>4 DEF MailInv
<1> QED
  BY <1>2, <1>3, <1>4

LEMMA ShowsReview ==
    ASSUME ReviewInv, NEW n, Shows(n), stored' = stored
    PROVE  ReviewInv'
<1>1. CASE n.status # "done"
  BY <1>1 DEF Shows, NoOpinion, NoPost, ReviewInv, PostFits, ReviewIsThere, OpinionViews,
     MaybeText
<1>2. CASE n.status = "done" /\ shown = "done"
  <2>1. opinion' = opinion /\ post' = post /\ shown' = "done"
    BY <1>2 DEF Shows
  <2> QED
    BY <1>2, <2>1 DEF ReviewInv, PostFits, ReviewIsThere
<1>3. CASE n.status = "done" /\ shown # "done"
  <2>1. opinion' = [view |-> "loading", text |-> None] /\ post' = post /\ shown' = "done"
    BY <1>3 DEF Shows, NoOpinion
  <2>2. post.at = "no"
    BY <1>3 DEF ReviewInv, PostFits
  <2> QED
    BY <2>1, <2>2 DEF ReviewInv, PostFits, ReviewIsThere, OpinionViews, MaybeText
<1> QED
  BY <1>1, <1>2, <1>3

LEMMA PageSteps ==
    ASSUME MailInv, ReviewInv, OpenPage \/ ClosePage \/ TakeAnswer \/ RetryHere
    PROVE  MailInv' /\ ReviewInv'
<1>1. CASE OpenPage
  <2>1. order \in [status : Final \cup {"generating", "closed"}, email : MaybeAddress]
    BY DEF MailInv, Rows
  <2>2. was' \subseteq Rows
    BY <1>1, WatchesRows DEF OpenPage, MailInv
  <2> QED
    BY <1>1, <2>1, <2>2, ShowsMail, ShowsReview DEF OpenPage, MailInv
<1>2. CASE ClosePage
  <2> DEFINE n == [status |-> "closed", email |-> None]
  <2>1. n \in [status : Final \cup {"generating", "closed"}, email : MaybeAddress]
    BY DEF MaybeAddress
  <2>2. was' \subseteq Rows
    BY <1>2, WatchesRows DEF ClosePage, MailInv
  <2>3. Shows(n)
    BY <1>2 DEF ClosePage
  <2> HIDE DEF n
  <2> QED
    BY <1>2, <2>1, <2>2, <2>3, ShowsMail, ShowsReview DEF ClosePage, MailInv
<1>3. CASE TakeAnswer
  <2> PICK n \in was : Shows(n)
    BY <1>3 DEF TakeAnswer
  <2>1. n \in [status : Final \cup {"generating", "closed"}, email : MaybeAddress]
    BY DEF MailInv, Rows
  <2>2. was' \subseteq Rows
    BY <1>3, WatchesRows DEF TakeAnswer, MailInv
  <2> QED
    BY <1>3, <2>1, <2>2, ShowsMail, ShowsReview DEF TakeAnswer, MailInv
<1>4. CASE RetryHere
  <2> DEFINE n == [order EXCEPT !.status = "generating"]
  <2>1. n \in [status : Final \cup {"generating", "closed"}, email : MaybeAddress]
        /\ n \in Rows /\ n.email = order.email
    BY DEF MailInv, Rows
  <2>2. order' = n /\ Shows(n)
    BY <1>4 DEF RetryHere
  <2>3. was' \subseteq Rows
    BY <1>4, <2>1, <2>2, WatchesRows DEF RetryHere, MailInv
  <2> HIDE DEF n
  <2> QED
    BY <1>4, <2>1, <2>2, <2>3, ShowsMail, ShowsReview DEF RetryHere
<1> QED
  BY <1>1, <1>2, <1>3, <1>4

\* The steps that touch neither form: the order moves on, the session changes.
LEMMA OtherSteps ==
    ASSUME MailInv, ReviewInv,
           SessionChanges \/ RetryElsewhere \/ (\E s \in Final : Generated(s))
    PROVE  MailInv' /\ ReviewInv'
<1>1. order' \in Rows /\ order'.email = order.email /\ signedIn' \in BOOLEAN
  BY DEF SessionChanges, RetryElsewhere, Generated, MailInv, Rows
<1>2. UNCHANGED <<shown, mail, review>>
  BY DEF SessionChanges, RetryElsewhere, Generated
<1>3. was' \subseteq Rows
  BY <1>1, WatchesRows DEF SessionChanges, RetryElsewhere, Generated, MailInv
<1>4. MailInv'
  BY <1>1, <1>2, <1>3 DEF MailInv, LetterFits, BeliefFits, SaidIsSent, mail
<1>5. ReviewInv'
  BY <1>2 DEF ReviewInv, PostFits, ReviewIsThere, review
<1> QED
  BY <1>4, <1>5

\* Another tab changes the address: the form is behind, if it is there.
LEMMA SavedElsewhereStep ==
    ASSUME MailInv, NEW a \in Addresses, SavedElsewhere(a)
    PROVE  MailInv'
<1>1. order' \in Rows /\ order'.email = a
  BY DEF SavedElsewhere, MailInv, Rows, MaybeAddress
<1>2. was' \subseteq Rows
  BY <1>1, WatchesRows DEF SavedElsewhere, MailInv
<1> DEFINE b == form.behind \/ (form.view # "absent" /\ a # order.email)
<1>3. form' = [form EXCEPT !.behind = b]
      /\ UNCHANGED <<shown, letter, signedIn>>
  BY DEF SavedElsewhere
<1>4. b \in BOOLEAN
  BY DEF MailInv
<1>5. (form.behind => b) /\ (form.view # "absent" /\ ~b => order.email = a)
  OBVIOUS
<1> HIDE DEF b
<1>6. form' \in [view : FormViews, current : MaybeAddress, mailed : MaybeAddress,
                 behind : BOOLEAN]
      /\ form'.view = form.view /\ form'.current = form.current
      /\ form'.mailed = form.mailed /\ form'.behind = b
  BY <1>3, <1>4 DEF MailInv
<1>7. LetterFits' /\ BeliefFits' /\ SaidIsSent'
  BY <1>1, <1>3, <1>5, <1>6 DEF MailInv, LetterFits, BeliefFits, SaidIsSent
<1> QED
  BY <1>1, <1>2, <1>3, <1>6, <1>7 DEF MailInv

LEMMA LetterSteps ==
    ASSUME MailInv,
           \/ EditAddress \/ CancelEdit \/ (\E a \in Addresses : Submit(a)) \/ Letters
    PROVE  MailInv' /\ UNCHANGED <<shown, review>>
<1> USE DEF MailInv, LetterFits, BeliefFits, SaidIsSent, FormViews, LetterStages, MaybeAddress
<1>1. CASE EditAddress
  BY <1>1 DEF EditAddress
<1>2. CASE CancelEdit
  BY <1>2 DEF CancelEdit
<1>3. CASE \E a \in Addresses : Submit(a)
  <2> PICK a \in Addresses : Submit(a)
    BY <1>3
  <2> DEFINE e == IF a = form.current THEN None ELSE a
  <2>1. letter' = [at |-> "sent", email |-> e, typed |-> a, due |-> FALSE, to |-> None]
    BY DEF Submit, NoLetter
  <2>2. form' = [form EXCEPT !.view = "sending", !.mailed = None]
        /\ UNCHANGED <<order, was, shown, review, signedIn>>
    BY DEF Submit
  <2>3. letter' \in [at : LetterStages, email : MaybeAddress, typed : MaybeAddress,
                    due : BOOLEAN, to : MaybeAddress]
        /\ letter'.at = "sent" /\ letter'.typed = a /\ letter'.email = e
    <3>1. e \in MaybeAddress /\ a \in MaybeAddress /\ None \in MaybeAddress
      OBVIOUS
    <3> HIDE DEF e, MaybeAddress
    <3> QED
      BY <2>1, <3>1
  <2>4. form' \in [view : FormViews, current : MaybeAddress, mailed : MaybeAddress,
                   behind : BOOLEAN]
        /\ form'.view = "sending" /\ form'.current = form.current
        /\ form'.behind = form.behind /\ form.view = "editing"
    BY <2>2 DEF Submit
  <2>5. letter.at = "no"
    BY <2>4
  <2> QED
    BY <2>2, <2>3, <2>4, <2>5
<1>4. CASE SaveAddress
  <2> DEFINE t == IF letter.email = None THEN Target ELSE letter.email
             b == form.behind /\ letter.email = None
  <2>1. UNCHANGED <<shown, review, signedIn>>
        /\ letter.at = "sent"
        /\ letter' = [letter EXCEPT !.at = "saved", !.due = order.status \in Final, !.to = t]
        /\ form' = [form EXCEPT !.behind = b]
        /\ order' = IF letter.email = None THEN order
                                           ELSE [order EXCEPT !.email = letter.email]
    BY <1>4 DEF SaveAddress
  <2>2. order' \in Rows
        /\ order'.email = IF letter.email = None THEN order.email ELSE letter.email
    BY <2>1 DEF Rows
  <2>3. was' \subseteq Rows
    BY <1>4, <2>2, WatchesRows DEF SaveAddress
  <2>4. t \in Addresses /\ b \in BOOLEAN /\ (order.status \in Final) \in BOOLEAN
    BY DeliveryAssumption DEF Target, Rows
  <2>5. t = letter.typed \/ b
    <3>1. CASE letter.email # None
      BY <2>1, <3>1
    <3>2. CASE letter.email = None
      <4>1. letter.typed = form.current /\ letter.typed \in Addresses
        BY <2>1, <3>2, DeliveryAssumption
      <4>2. form.behind \/ order.email = form.current
        BY <2>1
      <4> QED
        BY <3>2, <4>1, <4>2, DeliveryAssumption DEF Target
    <3> QED
      BY <3>1, <3>2
  <2>6. b => letter.email = None /\ form.behind
    OBVIOUS
  <2>7. ~b => letter.email # None \/ ~form.behind
    OBVIOUS
  <2> HIDE DEF t, b
  <2>8. letter' \in [at : LetterStages, email : MaybeAddress, typed : MaybeAddress,
                    due : BOOLEAN, to : MaybeAddress]
        /\ letter'.at = "saved" /\ letter'.email = letter.email /\ letter'.to = t
        /\ letter'.typed = letter.typed
    BY <2>1, <2>4
  <2>9. form' \in [view : FormViews, current : MaybeAddress, mailed : MaybeAddress,
                   behind : BOOLEAN]
        /\ form'.view = form.view /\ form'.current = form.current /\ form'.behind = b
    BY <2>1, <2>4
  <2>10. form.view = "sending"
    BY <2>1
  <2>11. LetterFits'
    BY <2>1, <2>4, <2>5, <2>8, <2>9, <2>10
  <2>12. BeliefFits' /\ SaidIsSent'
    BY <2>1, <2>2, <2>7, <2>8, <2>9, <2>10
  <2> QED
    BY <2>1, <2>2, <2>3, <2>8, <2>9, <2>10, <2>11, <2>12
<1>5. CASE SendLetter
  BY <1>5 DEF SendLetter
<1>6. CASE RefuseLetter
  <2> DEFINE b == form.behind \/ (letter.at # "sent" /\ letter.email # None)
  <2>1. letter.at \in {"sent", "saved", "ok"} /\ letter' = [letter EXCEPT !.at = "refused"]
        /\ form' = [form EXCEPT !.behind = b]
        /\ UNCHANGED <<order, was, shown, review, signedIn>>
    BY <1>6 DEF RefuseLetter
  <2>2. b \in BOOLEAN /\ (form.behind => b)
        /\ (~b => ~form.behind /\ (letter.at = "sent" \/ letter.email = None))
    OBVIOUS
  <2> HIDE DEF b
  <2>3. form' \in [view : FormViews, current : MaybeAddress, mailed : MaybeAddress,
                   behind : BOOLEAN]
        /\ form'.view = form.view /\ form'.current = form.current
        /\ form'.mailed = form.mailed /\ form'.behind = b
    BY <2>1, <2>2
  <2>4. letter' \in [at : LetterStages, email : MaybeAddress, typed : MaybeAddress,
                    due : BOOLEAN, to : MaybeAddress]
        /\ letter'.at = "refused" /\ letter'.email = letter.email
        /\ letter'.typed = letter.typed
    BY <2>1
  <2> QED
    BY <2>1, <2>2, <2>3, <2>4
<1>7. CASE TakeLetter
  <2>1. CASE letter.at = "ok"
    <3>1. form' = [form EXCEPT !.view = "said", !.current = letter.typed]
          /\ letter' = NoLetter /\ UNCHANGED <<order, was, shown, review, signedIn>>
      BY <1>7, <2>1 DEF TakeLetter
    <3>2. form.mailed = letter.to /\ letter.to \in Addresses
          /\ (letter.to = letter.typed \/ form.behind)
      BY <2>1
    <3>3. ~form.behind => order.email = letter.typed
      BY <2>1, DeliveryAssumption
    <3> QED
      BY <2>1, <3>1, <3>2, <3>3, DeliveryAssumption DEF NoLetter
  <2>2. CASE letter.at = "refused"
    <3>1. form' = [form EXCEPT !.view = "editing"]
          /\ letter' = NoLetter /\ UNCHANGED <<order, was, shown, review, signedIn>>
      BY <1>7, <2>2 DEF TakeLetter
    <3> QED
      BY <2>2, <3>1 DEF NoLetter
  <2> QED
    BY <1>7, <2>1, <2>2 DEF TakeLetter
<1> QED
  BY <1>1, <1>2, <1>3, <1>4, <1>5, <1>6, <1>7 DEF Letters

LEMMA ReviewSteps ==
    ASSUME ReviewInv, None \notin Texts,
           ReviewLoads \/ (\E t \in Texts : SubmitReview(t)) \/ Posts
             \/ (\E t \in Texts : ReviewedElsewhere(t))
    PROVE  ReviewInv' /\ UNCHANGED <<order, was, shown, mail, signedIn>>
<1> USE DEF ReviewInv, PostFits, ReviewIsThere, OpinionViews, MaybeText
<1>1. CASE ReviewLoads
  BY <1>1 DEF ReviewLoads
<1>2. CASE \E t \in Texts : SubmitReview(t)
  BY <1>2 DEF SubmitReview
<1>3. CASE CreateReview
  BY <1>3 DEF CreateReview
<1>4. CASE RefuseReview
  BY <1>4 DEF RefuseReview
<1>5. CASE TakeReview
  BY <1>5 DEF TakeReview, NoPost
<1>6. CASE \E t \in Texts : ReviewedElsewhere(t)
  BY <1>6 DEF ReviewedElsewhere
<1> QED
  BY <1>1, <1>2, <1>3, <1>4, <1>5, <1>6 DEF Posts

LEMMA NextDelivery == DeliveryInv /\ [Next]_vars => DeliveryInv'
<1> SUFFICES ASSUME DeliveryInv, [Next]_vars PROVE DeliveryInv'
  OBVIOUS
<1> MailInv /\ ReviewInv
  BY Halves
<1> SUFFICES MailInv' /\ ReviewInv'
  BY DEF DeliveryInv, MailInv, ReviewInv, TypeOK, FormsFit
<1>1. CASE OpenPage \/ ClosePage \/ TakeAnswer \/ RetryHere
  BY <1>1, PageSteps
<1>2. CASE SessionChanges \/ RetryElsewhere \/ (\E s \in Final : Generated(s))
  BY <1>2, OtherSteps
<1>3. CASE \/ EditAddress \/ CancelEdit \/ (\E a \in Addresses : Submit(a)) \/ Letters
           \/ \E a \in Addresses : SavedElsewhere(a)
  <2>1. MailInv' /\ UNCHANGED <<shown, review>>
    BY <1>3, LetterSteps, SavedElsewhereStep DEF SavedElsewhere
  <2> QED
    BY <2>1 DEF ReviewInv, PostFits, ReviewIsThere, review
<1>4. CASE \/ ReviewLoads \/ (\E t \in Texts : SubmitReview(t)) \/ Posts
           \/ \E t \in Texts : ReviewedElsewhere(t)
  <2>1. ReviewInv' /\ UNCHANGED <<order, was, shown, mail, signedIn>>
    BY <1>4, ReviewSteps, DeliveryAssumption
  <2> QED
    BY <2>1 DEF MailInv, LetterFits, BeliefFits, SaidIsSent, mail
<1>5. CASE UNCHANGED vars
  BY <1>5 DEF vars, mail, review, MailInv, ReviewInv, LetterFits, BeliefFits, SaidIsSent,
     PostFits, ReviewIsThere
<1> QED
  BY <1>1, <1>2, <1>3, <1>4, <1>5 DEF Next

\* The forms and their requests fit together in every reachable state.
THEOREM FormsSafe == Spec => []DeliveryInv
BY InitDelivery, NextDelivery, PTL DEF Spec

\* "Sent" is only said of a letter that was sent, to the address the page names
\* unless the row's address was changed behind the form's back.
THEOREM SaidWasSent == Spec => []SaidIsSent
<1>1. DeliveryInv => SaidIsSent
  BY DEF DeliveryInv
<1> QED
  BY <1>1, FormsSafe, PTL

\* "Published" is only said of the text the service has, "thank you" of a
\* review it has.
THEOREM ReviewsAreThere == Spec => []ReviewIsThere
<1>1. DeliveryInv => ReviewIsThere
  BY DEF DeliveryInv
<1> QED
  BY <1>1, FormsSafe, PTL

=============================================================================
