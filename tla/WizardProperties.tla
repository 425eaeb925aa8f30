--------------------------- MODULE WizardProperties ---------------------------
(* What the form promises about the orders it makes.                         *)
EXTENDS Wizard

\* An order is made of the data of the request that created it, and every order
\* passes through the state "created".
\* What an order has to say: every required field its own answers show, and one
\* field of every group.
Complete(d) ==
    /\ \A f \in Required : Visible(f, d) => Filled(f, d)
    /\ \A g \in Groups : \E f \in g : Filled(f, d)

-----------------------------------------------------------------------------
\* Every order is complete.  The backend does not look at "required": it holds
\* because the form cannot be left forwards with a gap, because nothing on a
\* later step opens a field of an earlier one, and because hiding a field and
\* sending the form agree on what is shown.
OrdersComplete == request.pc = "created" => Complete(request.data)

\* What d says, row by row.
Rows(d) == {<<f, d[f]>> : f \in {g \in Fields : Filled(g, d)}}

\* What is ordered is what the summary showed when the customer sent the form, row
\* for row: no answer is dropped or changed on the way, whatever is typed meanwhile,
\* and none of a branch the customer turned away from gets into the document.
OrderedIsSummary ==
    request.pc = "created" => Rows(request.data) = request.checked

\* "Зеркало серверной validate_dates / validate_address": what the form let
\* through the backend's validators of fields turn down only for what the form
\* cannot know, namely a value only they refuse or a date its own day has not
\* reached.
MirrorsServer ==
    request.pc = "posted" =>
       \A day \in ServerDays :
          \/ BackendAccepts(request.data, day)
          \/ \E f \in Fields : request.data[f] \in Unwelcome
          \/ day < Today

\* init_order is not idempotent: every submission that gets there makes an order
\* and bills for it on its page.  An order the customer was never led to is on
\* its way to them, or its answer was lost.
UnseenWasLost ==
    \A o \in 1..made :
       \/ o \in seen \cup lost
       \/ o = made /\ (request.pc = "created" \/ (request.pc = "answered" /\ request.redirect))

\* Refinement: OrderIntake, read off the request under way.
Underway == request.pc = "created" \/ (request.pc = "answered" /\ request.redirect)
Draft    == IF ~Underway THEN "none"
            ELSE IF Complete(request.data) THEN "complete" ELSE "deficient"

Intake == INSTANCE OrderIntake WITH draft <- Draft

\* Every step of the form, the action and the backend is one of OrderIntake or none:
\* no submission makes two orders, none is made of a form with a gap, and the fate
\* of an order (seen, or lost with its answer) never changes.
KeepsIntake == Intake!Spec

\* A reply of the prefill never replaces an answer, not even the one being typed
\* when it arrives: an answer changes by the customer's hand, on the step that shows
\* it, or with the whole form.
TypedStays ==
    [][\A f \in Fields :
          Filled(f, answers) /\ answers'[f] # answers[f]
             => \/ answers' = NoAnswers
                \/ StepOf[f] = step /\ prefill' = prefill]_vars

-----------------------------------------------------------------------------
\* submit-wizard.ts on the order_token cookie: from here on paying for and
\* looking at this order works without a login.
GuestKeepsAccess == \A o \in seen \cap guests : cookie = o

=============================================================================
