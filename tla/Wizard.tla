-------------------------------- MODULE Wizard --------------------------------
(***************************************************************************)
(* The form that orders a document (wizard-shell.tsx), the server action   *)
(* it submits to (submit-wizard.ts) and the creation of the order          *)
(* (init_order with the validators of its schema).                         *)
(*                                                                         *)
(* One browser, one form at a time.  The form checks what is required step *)
(* by step; the backend never asks whether a required field is there, so   *)
(* that orders are complete rests on the protocol of the form.  Labels and *)
(* messages are left out: a refused "next" or "submit" changes nothing.    *)
(***************************************************************************)
EXTENDS Integers

CONSTANTS
    Fields, Last,       \* the steps are 0..Last
    StepOf,
    Required,
    ShowIf,             \* of the conditional fields: [field, values]
    Dates, NotFuture,
    Rules,              \* [field, lo, hi]: field must keep lo <= hi
    Groups,             \* of each group one field has to be filled
    Contact, Email,     \* fields a former order fills in
    LastContact,        \* what that order says
    Values,             \* what the input of a field lets through
    Unset, Blank,       \* undefined, and an empty string
    Bad,                \* no calendar day
    Refused,            \* what the action's validators turn down
    Unwelcome,          \* what only the backend's validators turn down
    Today, ServerDays,  \* the browser's day, and the days the server may have
    MaxSubmits,         \* submissions of one address in a window
    MaxOrders           \* bound

Conditional == DOMAIN ShowIf
Value == {Unset} \cup UNION {Values[f] : f \in Fields}
Empty == {Unset, Blank}

ASSUME StepsAssumption == Last \in Nat /\ StepOf \in [Fields -> 0..Last]
\* No situation hides a control, a member of a group or a contact field, and a
\* control stands on the step of its field or before it.
ASSUME ShowIfAssumption ==
    \A f \in Conditional :
       /\ f \in Fields \ (Contact \cup UNION Groups)
       /\ ShowIf[f].field \in Fields \ (Conditional \cup Contact)
       /\ StepOf[ShowIf[f].field] <= StepOf[f]
       /\ Empty \cap ShowIf[f].values = {}
ASSUME FieldsAssumption ==
    /\ Email \in Contact /\ Contact \subseteq Fields
    /\ Required \subseteq Fields /\ Dates \subseteq Fields
    /\ \A g \in Groups : g # {} /\ g \subseteq Fields
    /\ \A r \in Rules : {r.field, r.lo, r.hi} \subseteq Dates /\ r.field \in {r.lo, r.hi}
ASSUME ValuesAssumption ==
    /\ LastContact \in [Contact -> Value]
    /\ \A f \in Fields : Unset \notin Values[f]
    /\ \A f \in Dates : f \notin Contact /\ Values[f] \subseteq Int \cup {Blank, Bad}
    /\ Unwelcome \cap Empty = {}
ASSUME NumbersAssumption ==
    /\ MaxSubmits \in Nat /\ MaxOrders \in Nat /\ Today \in Int /\ ServerDays \subseteq Int

VARIABLES
    place,          \* "wizard", or "order": the page of the order it led to
    step,           \* currentStep
    answers,
    consent,        \* consentAccepted
    prefill,        \* "asking" or "done"
    savedEmail,     \* localStorage
    signedIn,       \* the access_token cookie is good
    cookie,         \* the order whose token the order_token cookie holds, or 0
    request,        \* the submission under way (bound: one at a time)
    bucket,         \* submissions counted in this window
    made,           \* orders created: 1..made
    guests,         \* the orders created without a session
    seen,           \* history: orders the browser was led to
    lost            \* history: orders whose answer did not get through

form    == <<place, step, answers, consent, prefill>>
browser == <<savedEmail, signedIn, cookie>>
server  == <<bucket, made, guests>>
history == <<seen, lost>>
vars    == <<form, browser, request, server, history>>

Answers == [Fields -> Value]
NoAnswers == [f \in Fields |-> Unset]

\* sent: the server action runs; posted: it waits for the backend; created: the
\* order is made and the reply on its way; answered: the action has returned.
\* heard: the page that sent it still waits; checked (history): the rows of the
\* summary when the customer sent it.
Request == [pc : {"none", "sent", "posted", "created", "answered"},
            data : Answers, redirect : BOOLEAN, heard : BOOLEAN,
            checked : SUBSET (Fields \X Value)]
NoRequest == [pc |-> "none", data |-> NoAnswers, redirect |-> FALSE, heard |-> FALSE,
              checked |-> {}]

TypeOK ==
    /\ place \in {"wizard", "order"}
    /\ step \in 0..Last
    /\ answers \in Answers
    /\ consent \in BOOLEAN
    /\ prefill \in {"asking", "done"}
    /\ savedEmail \in Value
    /\ signedIn \in BOOLEAN
    /\ made \in Nat
    /\ cookie \in 0..made
    /\ request \in Request
    /\ bucket \in Nat
    /\ guests \subseteq 1..made
    /\ seen \subseteq 1..made
    /\ lost \subseteq 1..made

Init ==
    /\ place = "wizard" /\ step = 0 /\ answers = NoAnswers
    /\ consent = FALSE /\ prefill = "asking"
    /\ savedEmail = Unset /\ signedIn \in BOOLEAN /\ cookie = 0
    /\ request = NoRequest
    /\ bucket = 0 /\ made = 0 /\ guests = {}
    /\ seen = {} /\ lost = {}

-----------------------------------------------------------------------------
(* What the form says about answers a.                                     *)

Filled(f, a) == a[f] \notin Empty
Visible(f, a) == f \in Conditional => a[ShowIf[f].field] \in ShowIf[f].values
OnStep(s) == {f \in Fields : StepOf[f] = s}
VisibleOf(F, a) == {f \in F : Visible(f, a)}

\* getMissingRequiredFields
Missing(F, a) == {f \in F \cap Required : Visible(f, a) /\ ~Filled(f, a)}

\* stepHasAddress && isAddressEmpty, and the same for the store's address.
GroupEmpty(F, a) == \E g \in Groups : g \cap F # {} /\ \A f \in g : ~Filled(f, a)

IsDay(f, a) == Filled(f, a) /\ a[f] # Bad

\* Faulty: knows no rules between dates.
DateErrorsAlone(F, a) ==
    {f \in F \cap Dates : Filled(f, a) /\ (a[f] = Bad \/ (f \in NotFuture /\ a[f] > Today))}

\* getDateErrors: the rules of the fields in F; the other field of a rule counts
\* wherever it is, even hidden.
DateErrors(F, a) ==
    {f \in F \cap Dates : Filled(f, a) /\
        \/ a[f] = Bad
        \/ f \in NotFuture /\ a[f] > Today
        \/ \E r \in Rules : /\ r.field = f
                            /\ IsDay(r.lo, a) /\ IsDay(r.hi, a)
                            /\ a[r.lo] > a[r.hi]}

Problems(F, a) == GroupEmpty(F, a) \/ DateErrors(VisibleOf(F, a), a) # {}

\* What is sent: hidden fields are left out.
Sent(a) == [f \in Fields |-> IF Visible(f, a) THEN a[f] ELSE Unset]

\* ReviewSummary: the rows, a label and an answer, the customer checks on the last
\* step.
Summary(a) == {<<f, a[f]>> : f \in {g \in Fields : Visible(g, a) /\ Filled(g, a)}}

\* The validators of OrderInitRequest, on the day of the server: nothing here
\* asks for a required field.  Its limit of 32 KB on all answers together is left
\* out; going over it is one of BackendFails.
BackendAccepts(d, day) ==
    /\ \A f \in Fields : d[f] \notin Unwelcome
    /\ \A g \in Groups : \E f \in g : Filled(f, d)
    /\ \A f \in Dates : Filled(f, d) =>
          /\ d[f] # Bad
          /\ f \in NotFuture => d[f] <= day
          /\ \A r \in Rules :
                (r.field = f /\ IsDay(r.lo, d) /\ IsDay(r.hi, d)) => d[r.lo] <= d[r.hi]

-----------------------------------------------------------------------------
(* The form.                                                               *)

\* Bound: a fresh form waits until a submission its page abandoned is over.
InForm == place = "wizard" /\ (request.pc # "none" => request.heard)
Pending == request.pc # "none" /\ request.heard

\* A fresh page: nothing of a form outlives it, but a submission goes on.
NewVisit ==
    /\ place' = "wizard" /\ step' = 0 /\ answers' = NoAnswers
    /\ consent' = FALSE /\ prefill' = "asking"
    /\ request' = [request EXCEPT !.heard = FALSE]
    /\ UNCHANGED <<browser, server, history>>

\* Faulty: the reply of /user/contact replaces what was typed meanwhile.
PrefillOverwrites ==
    /\ InForm /\ prefill = "asking" /\ signedIn
    /\ answers' = [f \in Fields |-> IF f \in Contact /\ Filled(f, LastContact)
                                    THEN LastContact[f] ELSE answers[f]]
    /\ prefill' = "done"
    /\ UNCHANGED <<place, step, consent, browser, request, server, history>>

\* The reply of /user/contact fills what is still empty.
PrefillContact ==
    /\ InForm /\ prefill = "asking" /\ signedIn
    /\ answers' = [f \in Fields |->
          IF f \in Contact /\ Filled(f, LastContact) /\ ~Filled(f, answers)
          THEN LastContact[f] ELSE answers[f]]
    /\ prefill' = "done"
    /\ UNCHANGED <<place, step, consent, browser, request, server, history>>

\* Without a session, or when that request fails: the address of the last order.
PrefillEmail ==
    /\ InForm /\ prefill = "asking"
    /\ answers' = [answers EXCEPT ![Email] = IF @ = Unset THEN savedEmail ELSE @]
    /\ prefill' = "done"
    /\ UNCHANGED <<place, step, consent, browser, request, server, history>>

\* Inputs stay open while a submission is pending.
HandleChange(f, v) ==
    /\ InForm /\ f \in OnStep(step) /\ Visible(f, answers) /\ v \in Values[f]
    /\ answers' = [answers EXCEPT ![f] = v]
    /\ UNCHANGED <<place, step, consent, prefill, browser, request, server, history>>

ToggleConsent ==
    /\ InForm /\ step = Last
    /\ consent' = ~consent
    /\ UNCHANGED <<place, step, answers, prefill, browser, request, server, history>>

\* Faulty: goes on without asking for the required fields of the step.
HandleNextUnchecked ==
    /\ InForm /\ step < Last
    /\ ~Problems(OnStep(step), answers)
    /\ step' = step + 1
    /\ UNCHANGED <<place, answers, consent, prefill, browser, request, server, history>>

HandleNext ==
    /\ InForm /\ step < Last
    /\ Missing(OnStep(step), answers) = {}
    /\ ~Problems(OnStep(step), answers)
    /\ step' = step + 1
    /\ UNCHANGED <<place, answers, consent, prefill, browser, request, server, history>>

HandleBack ==
    /\ InForm /\ step > 0 /\ ~Pending
    /\ step' = step - 1
    /\ UNCHANGED <<place, answers, consent, prefill, browser, request, server, history>>

\* The closure keeps the answers of the moment: later changes stay in the form.
Sends(d) ==
    request' = [NoRequest EXCEPT !.pc = "sent", !.data = d, !.heard = TRUE,
                                 !.checked = Summary(answers)]

\* Faulty: sends the answers as they are, the hidden ones too.
HandleSubmitAll ==
    /\ InForm /\ step = Last /\ consent /\ request.pc = "none"
    /\ Missing(OnStep(step), answers) = {}
    /\ ~Problems(Fields, answers)
    /\ Sends(answers)
    /\ UNCHANGED <<form, browser, server, history>>

\* Required fields are asked for on the last step only, dates and groups on all.
HandleSubmit ==
    /\ InForm /\ step = Last /\ consent /\ request.pc = "none"
    /\ Missing(OnStep(step), answers) = {}
    /\ ~Problems(VisibleOf(Fields, answers), answers)
    /\ Sends(Sent(answers))
    /\ UNCHANGED <<form, browser, server, history>>

-----------------------------------------------------------------------------
(* The server action and the backend.                                      *)

Returns(redirect) ==
    request' = [request EXCEPT !.pc = "answered", !.redirect = redirect]

\* Every submission counts, refused ones too; one over the limit does not.
Counts == IF bucket < MaxSubmits THEN bucket + 1 ELSE bucket
Validated(d) == \A f \in Fields : d[f] \notin Refused

SubmitWizard ==
    /\ request.pc = "sent"
    /\ bucket' = Counts
    /\ IF bucket < MaxSubmits /\ Validated(request.data)
       THEN request' = [request EXCEPT !.pc = "posted"]
       ELSE Returns(FALSE)
    /\ UNCHANGED <<form, browser, made, guests, history>>

\* pruneRateLimitBuckets, a new window or a restart of the process.
WindowEnds ==
    /\ bucket > 0
    /\ bucket' = 0
    /\ UNCHANGED <<form, browser, request, made, guests, history>>

InitOrderRefuses ==
    /\ request.pc = "posted"
    /\ \E day \in ServerDays : ~BackendAccepts(request.data, day)
    /\ Returns(FALSE)
    /\ UNCHANGED <<form, browser, server, history>>

\* Faulty: the action posts again when the reply is slow.
InitOrderAgain ==
    /\ request.pc \in {"posted", "created"} /\ made < MaxOrders
    /\ \E day \in ServerDays : BackendAccepts(request.data, day)
    /\ made' = made + 1
    /\ guests' = IF signedIn THEN guests ELSE guests \cup {made + 1}
    /\ request' = [request EXCEPT !.pc = "created"]
    /\ UNCHANGED <<form, browser, bucket, history>>

InitOrder ==
    /\ request.pc = "posted" /\ made < MaxOrders
    /\ \E day \in ServerDays : BackendAccepts(request.data, day)
    /\ made' = made + 1
    /\ guests' = IF signedIn THEN guests ELSE guests \cup {made + 1}
    /\ request' = [request EXCEPT !.pc = "created"]
    /\ UNCHANGED <<form, browser, bucket, history>>

TakeReply ==
    /\ request.pc = "created"
    /\ Returns(TRUE)
    /\ UNCHANGED <<form, browser, server, history>>

\* The backend fails, limits, or cannot be reached: perhaps after it has created
\* the order.
BackendFails ==
    /\ request.pc \in {"posted", "created"}
    /\ lost' = IF request.pc = "created" THEN lost \cup {made} ELSE lost
    /\ Returns(FALSE)
    /\ UNCHANGED <<form, browser, server, seen>>

-----------------------------------------------------------------------------
(* The answer.                                                             *)

\* The cookie holds one token: of the order just made, if a guest made it.
RedirectArrives ==
    /\ request.pc = "answered" /\ request.heard /\ request.redirect
    /\ cookie' = IF made \in guests THEN made ELSE cookie
    /\ savedEmail' = request.data[Email]
    /\ place' = "order"
    /\ seen' = seen \cup {made}
    /\ request' = NoRequest
    /\ UNCHANGED <<step, answers, consent, prefill, signedIn, server, lost>>

\* The message is shown, the form stays.
ErrorArrives ==
    /\ request.pc = "answered" /\ request.heard /\ ~request.redirect
    /\ request' = NoRequest
    /\ UNCHANGED <<form, browser, server, history>>

\* The page is gone, or the answer to the action does not get through: then the
\* error page replaces the form.
AnswerLost ==
    /\ request.pc = "answered"
    /\ lost' = IF request.redirect THEN lost \cup {made} ELSE lost
    /\ request' = NoRequest
    /\ IF request.heard
       THEN /\ step' = 0 /\ answers' = NoAnswers /\ consent' = FALSE
            /\ prefill' = "asking" /\ place' = place
       ELSE UNCHANGED form
    /\ UNCHANGED <<browser, server, seen>>

SessionEnds ==
    /\ signedIn
    /\ signedIn' = FALSE
    /\ UNCHANGED <<form, savedEmail, cookie, request, server, history>>

-----------------------------------------------------------------------------
Customer ==
    \/ NewVisit
    \/ PrefillContact \/ PrefillEmail
    \/ \E f \in Fields : \E v \in Values[f] : HandleChange(f, v)
    \/ ToggleConsent \/ HandleNext \/ HandleBack \/ HandleSubmit
    \/ SessionEnds

Server ==
    \/ SubmitWizard \/ WindowEnds
    \/ InitOrderRefuses \/ InitOrder \/ TakeReply \/ BackendFails

Answer == RedirectArrives \/ ErrorArrives \/ AnswerLost

Next == Customer \/ Server \/ Answer

Spec == Init /\ [][Next]_vars

=============================================================================
