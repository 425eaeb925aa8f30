------------------------------ MODULE Delivery ------------------------------
(***************************************************************************)
(* A finished order and its customer: the letter that can be sent again,   *)
(* to a corrected address (notification-email.tsx, POST orders/{id}/resend)*)
(* and the review (review-form.tsx, POST reviews).  Both forms live on the *)
(* page of the order: they go when the page shows another status, be it on *)
(* a late answer to an old poll, and start anew from what it then knows.   *)
(*                                                                         *)
(* letter and post are the requests of the forms now on the page: each has *)
(* one at most, its button being disabled.  Other tabs, and requests whose *)
(* page has gone, save addresses and reviews at any time                   *)
(* (SavedElsewhere, ReviewedElsewhere).  The form's own checks (a          *)
(* well-formed address, a text, stars) are left out: Addresses and Texts   *)
(* pass them.  The polls behind TakeAnswer are OrderPage's.                *)
(***************************************************************************)
EXTENDS Naturals

CONSTANTS
    Addresses,      \* what the customer may type, spelt in lower case
    Account,        \* users.email
    Texts,          \* reviews the customer may write
    None

ASSUME DeliveryAssumption ==
    Account \in Addresses /\ None \notin Addresses \cup Texts

VARIABLES
    order,          \* its status and notification_email
    was,            \* what a poll's answer on its way to the page may say of them
    shown,          \* the status on the page, or "closed"
    form,           \* NotificationEmail: view and current address, and two histories:
                    \*   where the letter of its last submission went, and whether the
                    \*   row's address changed without it
    letter,         \* its resend request
    stored,         \* order_reviews: the row of this order
    opinion,        \* ReviewForm: view and the text it sent last
    post,           \* its request that creates the review
    signedIn        \* the access_token cookie is good for the order's account

mail   == <<form, letter>>
review == <<stored, opinion, post>>
vars   == <<order, was, shown, mail, review, signedIn>>

MaybeAddress == Addresses \cup {None}
MaybeText    == Texts \cup {None}

Final == {"done", "failed", "refunded"}
Rows  == [status : Final \cup {"generating"}, email : MaybeAddress]
FormViews    == {"absent", "shown", "editing", "sending", "said"}
LetterStages == {"no", "sent", "saved", "ok", "refused"}
OpinionViews == {"absent", "loading", "form", "sending", "thanks", "published", "barred"}

TypeOK ==
    /\ order \in Rows
    /\ was \subseteq Rows
    /\ shown \in Final \cup {"generating", "closed"}
    /\ form \in [view : FormViews, current : MaybeAddress, mailed : MaybeAddress,
                 behind : BOOLEAN]
    /\ letter \in [at : LetterStages, email : MaybeAddress, typed : MaybeAddress,
                   due : BOOLEAN, to : MaybeAddress]
    /\ stored \in MaybeText
    /\ opinion \in [view : OpinionViews, text : MaybeText]
    /\ post \in [at : {"no", "sent", "ok", "refused"}, text : MaybeText]
    /\ signedIn \in BOOLEAN

NoForm    == [view |-> "absent", current |-> None, mailed |-> None, behind |-> FALSE]
NoLetter  == [at |-> "no", email |-> None, typed |-> None, due |-> FALSE, to |-> None]
NoOpinion == [view |-> "absent", text |-> None]
NoPost    == [at |-> "no", text |-> None]

\* An order made by a guest has its own address, an older one none.
Init ==
    /\ order \in [status : {"generating"}, email : MaybeAddress]
    /\ was = {}
    /\ shown = "closed"
    /\ form = NoForm /\ letter = NoLetter
    /\ stored = None
    /\ opinion = NoOpinion /\ post = NoPost
    /\ signedIn \in BOOLEAN

\* Order.notification_target
Target == IF order.email = None THEN Account ELSE order.email

-----------------------------------------------------------------------------
(* The page, the worker behind the order, the session and the other tabs.  *)

\* A page that waits asks again and again; once it has, an answer to any of its
\* questions may come at any time, until the page is closed.
Watches ==
    was' = CASE shown' = "closed" -> {}
             [] shown' = "generating" \/ (shown' \in Final /\ was # {}) -> was \cup {order'}
             [] OTHER -> was

\* The page shows what it was told of the row.  The form of the letter stays as
\* long as the status is a final one, that of the review as long as it is
\* "done", each with its request; one that comes back starts from what was told.
Shows(n) ==
    /\ shown' = n.status
    /\ form' = CASE n.status \notin Final -> NoForm
                 [] n.status \in Final /\ shown \in Final -> form
                 [] OTHER -> [NoForm EXCEPT !.view = "shown", !.current = n.email,
                                            !.behind = n.email # order.email]
    /\ letter' = IF n.status \in Final THEN letter ELSE NoLetter
    /\ opinion' = CASE n.status # "done" -> NoOpinion
                    [] n.status = "done" /\ shown = "done" -> opinion
                    [] OTHER -> [NoOpinion EXCEPT !.view = "loading"]
    /\ post' = IF n.status = "done" THEN post ELSE NoPost

OpenPage ==
    /\ shown = "closed"
    /\ Shows(order)
    /\ UNCHANGED <<order, stored, signedIn>>
    /\ Watches

ClosePage ==
    /\ shown # "closed"
    /\ Shows([status |-> "closed", email |-> None])
    /\ UNCHANGED <<order, stored, signedIn>>
    /\ Watches

\* A poll's answer, fresh or old: one that is overtaken takes the page back.
TakeAnswer ==
    /\ \E n \in was : Shows(n)
    /\ UNCHANGED <<order, stored, signedIn>>
    /\ Watches

\* The attempt ends; the watchdog and the last attempt refund.
Generated(s) ==
    /\ order.status = "generating"
    /\ order' = [order EXCEPT !.status = s]
    /\ UNCHANGED <<shown, mail, review, signedIn>>
    /\ Watches

\* POST /orders/{id}/retry from another tab, which this page does not learn of.
RetryElsewhere ==
    /\ order.status = "failed"
    /\ order' = [order EXCEPT !.status = "generating"]
    /\ UNCHANGED <<shown, mail, review, signedIn>>
    /\ Watches

RetryHere ==
    /\ shown = "failed"
    /\ order.status = "failed"
    /\ order' = [order EXCEPT !.status = "generating"]
    /\ Shows([order EXCEPT !.status = "generating"])
    /\ UNCHANGED <<stored, signedIn>>
    /\ Watches

\* The token expires, the customer logs out, in, or in as somebody else.
SessionChanges ==
    /\ signedIn' = ~signedIn
    /\ UNCHANGED <<order, was, shown, mail, review>>

\* POST orders/{id}/resend of another form, also one that has left this page.
SavedElsewhere(a) ==
    /\ order' = [order EXCEPT !.email = a]
    /\ form' = [form EXCEPT !.behind = @ \/ (form.view # "absent" /\ a # order.email)]
    /\ UNCHANGED <<shown, letter, review, signedIn>>
    /\ Watches

\* POST reviews of another form, also one that has left this page.
ReviewedElsewhere(t) ==
    /\ order.status = "done"
    /\ stored = None
    /\ stored' = t
    /\ UNCHANGED <<order, was, shown, mail, opinion, post, signedIn>>

-----------------------------------------------------------------------------
(* NotificationEmail.                                                      *)

EditAddress ==
    /\ form.view \in {"shown", "said"}
    /\ form' = [form EXCEPT !.view = "editing"]
    /\ UNCHANGED <<order, was, letter, shown, review, signedIn>>

CancelEdit ==
    /\ form.view = "editing"
    /\ form' = [form EXCEPT !.view = "shown"]
    /\ UNCHANGED <<order, was, letter, shown, review, signedIn>>

\* Names the address only if it differs from the one the form believes in.
Submit(a) ==
    /\ form.view = "editing"
    /\ letter' = [NoLetter EXCEPT !.at = "sent", !.typed = a,
                                  !.email = IF a = form.current THEN None ELSE a]
    /\ form' = [form EXCEPT !.view = "sending", !.mailed = None]
    /\ UNCHANGED <<order, was, shown, review, signedIn>>

\* resend_order_notification: the address is committed, then the letter sent.
SaveAddress ==
    /\ letter.at = "sent"
    /\ order' = IF letter.email = None THEN order ELSE [order EXCEPT !.email = letter.email]
    /\ form' = [form EXCEPT !.behind = @ /\ letter.email = None]
    /\ letter' = [letter EXCEPT !.at = "saved",
                                !.due = order.status \in Final,
                                !.to = IF letter.email = None THEN Target ELSE letter.email]
    /\ UNCHANGED <<shown, review, signedIn>>
    /\ Watches

\* Faulty: answers "sent" for a status that has no letter.
SendLetterAnyway ==
    /\ letter.at = "saved"
    /\ form' = IF letter.due THEN [form EXCEPT !.mailed = letter.to] ELSE form
    /\ letter' = [letter EXCEPT !.at = "ok"]
    /\ UNCHANGED <<order, was, shown, review, signedIn>>

SendLetter ==
    /\ letter.at = "saved"
    /\ letter.due
    /\ form' = [form EXCEPT !.mailed = letter.to]
    /\ letter' = [letter EXCEPT !.at = "ok"]
    /\ UNCHANGED <<order, was, shown, review, signedIn>>

\* No access, too many requests, nothing to send for the status (400), the mail
\* failed (502), or the answer is lost on its way, whatever had been done.
RefuseLetter ==
    /\ letter.at \in {"sent", "saved", "ok"}
    /\ letter' = [letter EXCEPT !.at = "refused"]
    /\ form' = [form EXCEPT !.behind = @ \/ (letter.at # "sent" /\ letter.email # None)]
    /\ UNCHANGED <<order, was, shown, review, signedIn>>

\* Faulty: forgets the form when the answer is a refusal.
TakeLetterStuck ==
    /\ letter.at \in {"ok", "refused"}
    /\ form' = IF letter.at = "ok"
               THEN [form EXCEPT !.view = "said", !.current = letter.typed]
               ELSE form
    /\ letter' = NoLetter
    /\ UNCHANGED <<order, was, shown, review, signedIn>>

\* Only a success tells the form what the address is.
TakeLetter ==
    /\ letter.at \in {"ok", "refused"}
    /\ form' = IF letter.at = "ok"
               THEN [form EXCEPT !.view = "said", !.current = letter.typed]
               ELSE [form EXCEPT !.view = "editing"]
    /\ letter' = NoLetter
    /\ UNCHANGED <<order, was, shown, review, signedIn>>

-----------------------------------------------------------------------------
(* ReviewForm.                                                             *)

\* Who has no session, or gets no answer, is shown the form; another account
\* that never bought anything is told that reviews are for buyers.
ReviewLoads ==
    /\ opinion.view = "loading"
    /\ \E v \in {"form", "thanks", "barred"} :
          /\ v = "thanks" => signedIn /\ stored # None
          /\ v = "barred" => ~signedIn
          /\ opinion' = [opinion EXCEPT !.view = v]
    /\ UNCHANGED <<order, was, shown, mail, stored, post, signedIn>>

SubmitReview(t) ==
    /\ opinion.view = "form"
    /\ post' = [at |-> "sent", text |-> t]
    /\ opinion' = [view |-> "sending", text |-> t]
    /\ UNCHANGED <<order, was, shown, mail, stored, signedIn>>

\* create_review: the order's owner, a finished order, one row per order.
CreateReview ==
    /\ post.at = "sent"
    /\ signedIn /\ order.status = "done"
    /\ stored = None
    /\ stored' = post.text
    /\ post' = [post EXCEPT !.at = "ok"]
    /\ UNCHANGED <<order, was, shown, mail, opinion, signedIn>>

\* 401, 400, 409, or the answer is lost.
RefuseReview ==
    /\ post.at \in {"sent", "ok"}
    /\ post' = [post EXCEPT !.at = "refused"]
    /\ UNCHANGED <<order, was, shown, mail, stored, opinion, signedIn>>

\* Faulty: takes "there is one already" for a success.
TakeReviewRefused ==
    /\ post.at \in {"ok", "refused"}
    /\ opinion' = [opinion EXCEPT !.view = IF post.at = "ok" \/ stored # None
                                           THEN "published" ELSE "form"]
    /\ post' = NoPost
    /\ UNCHANGED <<order, was, shown, mail, stored, signedIn>>

\* Faulty: the button stays disabled after a refusal.
TakeReviewStuck ==
    /\ post.at \in {"ok", "refused"}
    /\ opinion' = IF post.at = "ok" THEN [opinion EXCEPT !.view = "published"] ELSE opinion
    /\ post' = NoPost
    /\ UNCHANGED <<order, was, shown, mail, stored, signedIn>>

TakeReview ==
    /\ post.at \in {"ok", "refused"}
    /\ opinion' = [opinion EXCEPT !.view = IF post.at = "ok" THEN "published" ELSE "form"]
    /\ post' = NoPost
    /\ UNCHANGED <<order, was, shown, mail, stored, signedIn>>

-----------------------------------------------------------------------------
Letters == SaveAddress \/ SendLetter \/ RefuseLetter \/ TakeLetter
Posts   == CreateReview \/ RefuseReview \/ TakeReview

Next ==
    \/ OpenPage \/ ClosePage \/ TakeAnswer
    \/ \E s \in Final : Generated(s)
    \/ RetryElsewhere \/ RetryHere
    \/ SessionChanges
    \/ \E a \in Addresses : SavedElsewhere(a)
    \/ \E t \in Texts : ReviewedElsewhere(t)
    \/ EditAddress \/ CancelEdit
    \/ \E a \in Addresses : Submit(a)
    \/ Letters
    \/ ReviewLoads
    \/ \E t \in Texts : SubmitReview(t)
    \/ Posts

Spec == Init /\ [][Next]_vars

\* A request ends: it is served, refused or given up by the browser, and the
\* page handles its end.
FairSpec == Spec /\ WF_vars(Letters) /\ WF_vars(Posts)

=============================================================================
