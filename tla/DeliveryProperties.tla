------------------------- MODULE DeliveryProperties -------------------------
(***************************************************************************)
(* What the forms of a finished order may say, and what they must not lose.*)
(***************************************************************************)
EXTENDS Delivery

\* "The letter was sent to ..." is only said when the letter that was asked for
\* last was sent, and to the address the page names, unless the row's address
\* was changed without the form: by another tab, by a request whose page had
\* gone, or by a try of its own that failed after the address was stored
\* (notification-email.tsx:24-46 and 59-62, orders.py:372-401).
SaidIsSent ==
    form.view = "said" =>
        /\ form.mailed # None
        /\ form.mailed = form.current \/ form.behind

\* ... which it does not know of, so that this fails.
SaysWhereItWent == form.view = "said" => form.mailed = form.current

\* "Your review is published" and "thank you for your review" are said of a
\* review the service has, the former of the very text that was sent last: not
\* of an earlier try whose answer was lost, nor of one written in another tab
\* (review-form.tsx:117-149).
ReviewIsThere ==
    /\ opinion.view = "published" => stored = opinion.text
    /\ opinion.view = "thanks" => stored # None

\* The inductive invariant: a form waits if and only if its request is under
\* way, and unless told behind its back it knows the row's address.
LetterFits ==
    /\ form.view = "sending" <=> letter.at # "no"
    /\ letter.at # "no" =>
          /\ letter.typed \in Addresses
          /\ letter.email = (IF letter.typed = form.current THEN None ELSE letter.typed)
    /\ letter.at \in {"saved", "ok"} =>
          letter.to \in Addresses /\ (letter.to = letter.typed \/ form.behind)
    /\ letter.at = "ok" => form.mailed = letter.to
BeliefFits ==
    form.view # "absent" /\ ~form.behind =>
        order.email = IF letter.at \in {"saved", "ok"} /\ letter.email # None
                      THEN letter.email ELSE form.current
PostFits ==
    /\ opinion.view = "sending" <=> post.at # "no"
    /\ post.at # "no" => post.text = opinion.text
    /\ opinion.view \in {"sending", "published"} => opinion.text \in Texts
    /\ post.at = "ok" => stored = post.text
FormsFit ==
    /\ form.view # "absent" <=> shown \in Final
    /\ opinion.view # "absent" <=> shown = "done"

DeliveryInv ==
    TypeOK /\ LetterFits /\ BeliefFits /\ PostFits /\ FormsFit /\ SaidIsSent /\ ReviewIsThere

\* No failure leaves a form waiting for ever (the finally of both submits).
FormsAnswer ==
    /\ (form.view = "sending") ~> (form.view # "sending")
    /\ (opinion.view = "sending") ~> (opinion.view # "sending")

=============================================================================
