# LawDocs: a verification development

LawDocs sells legal documents.  A customer fills in a wizard, the backend
(`backend/app`, FastAPI and SQLAlchemy on Postgres, two uvicorn workers)
generates the document and a watermarked preview, the customer pays through
YooKassa, and the document is released: encrypted with the customer's public
key, mailed, and the form is wiped.  The hard part of the program is not any one
of these steps but that they are taken by processes that share nothing except
database rows: HTTP handlers, the provider's webhooks, in-process background
tasks that no queue remembers, and five loops that every worker runs; and, on
the other side of the network, by a browser in which polls, clicks, downloads and
late answers overlap, and which is the only place where the customer's private key
lives.  This directory models both sides in TLA+, checks them with TLC and proves
their safety with TLAPS.

Paths below are relative to `backend/app` unless they start with `frontend/`; a file
name without a path is the one the section's component names.

## 1. Inventory

| Component | State | Operations | Interacts through | Hard because |
|---|---|---|---|---|
| Order lifecycle: `api/v1/orders.py`, `api/v1/webhooks.py`, `services/generation.py`, `services/payment.py`, loops of `main.py` | `orders` row (status, paid_at, payment id, retry count, form), `documents` row, `payment_events` | `init_order`, `pay_order`, `retry_order`, webhook, `claim_paid_order`, `record_payment_event`, preview / generation / release tasks, auto-retry, watchdog refund, reconcile | row locks (`FOR UPDATE SKIP LOCKED`), the payment provider, `asyncio.create_task` | no transaction spans claim and release; tasks die with the worker; the same loops run twice; notifications are lost, repeated and late |
| Document keys (E2EE): `register_order_public_key`, `_maybe_encrypt_files`, `setup_e2ee`, `recover_access`; `frontend/lib/e2ee-*.ts`, `order-status.tsx`, `key-rotation.tsx`, `setup-e2ee/page.tsx` | `users.public_key`, key backup, `documents.user_encrypted`, the stored files, `localStorage` of every browser, saved key files | prepare payment, register key, save key file, encrypt on release, set up, rotate, recover, download | HTTP between browser and server, `users` row without lock | check-then-set on the key, two files encrypted one after the other, keys that live only in a browser |
| Account password, keyring, sign-in: `set_password`, `import_keys`, `password_login`, magic links, key challenges (`services/auth_service.py`, `api/v1/auth.py`); `frontend/lib/e2ee-login.ts`, `e2ee-password.ts`, `e2ee-recovery.ts`, profile forms | `users` (password hash, key, backup, link), `user_keys`, cookies, `localStorage` | set and change the password, import, the ways in, set up, rotate | HTTP, rows without lock | wrappings and the password they were made with are separate rows; a check and the write it allows are separate steps; several browsers |
| Erasure: `users.py delete_me`, `frontend/app/api/user/me/route.ts`, `profile-form.tsx` | all rows of the account | erase on demand | the proxy between page and backend | requests of the account are still under way; the proxy answers for the backend |
| Wizard and submission: `wizard-shell.tsx`, wizard fields, `submit-wizard.ts`, `init_order` with the schema validators | answers, step, consent, prefill, cookies, rate limit window | fill in, walk, submit, create the order | server action, `orders/init` | hidden and grouped fields, two validations that must agree, late prefill, lost answers, a creation that is not idempotent |
| Order page: `order-status.tsx` | a copy of the status, polls, retry, payment, toast, counted goal | poll, refresh on focus, retry, pay | status endpoint | several polls at once, answers out of order, optimistic status |
| Preview and download: `preview-section.tsx`, `order-status.tsx handleDownload`, `e2ee-download.ts`, `recover-access-inline.tsx` | pictures, downloads, recovery form | load, enlarge, download, decrypt, recover and resume | preview and download endpoints, `localStorage` | closures of earlier renders, overlapping loads, keys replaced meanwhile |
| Delivery: `notification-email.tsx`, `resend` and `update_order_email` of `orders.py`, `review-form.tsx`, `reviews.py create_review` | order's address, letters, review row, both forms | send again, correct the address, write a review | mail, `order_reviews` | the address is stored before the letter is sent; an answer is lost after the row was written |
| Retention: `_cleanup_draft_orders`, `_data_retention_loop` | orders, documents, users, objects in S3 | hourly cleanup, three-year retention | the same rows as everything else, S3 | S3 and the database are not one transaction |
| Alerting: `_alerting_loop` | in-process set of alerted orders, refund total | stuck-paid and refund-spike alerts | reads `orders` | state per worker, lost at restart |
| Generation pipeline: `services/llm.py`, `docgen.py`, `text_cleanup.py`, `preview.py` | provider token cache | provider call, retries, fallback, rendering | LLM providers, storage | token refresh, fallback order |
| Calculators: `services/calculators.py`, `cbr.py` | none (pure) | sums, dates, penalties per situation | form data | boundaries of dates and money |
| Situations and schemas: `situations/*`, `schemas/*`, `services/field_resolve.py`, `address_compose.py` | registry loaded at start | validation of forms | wizard | wide, sequential |
| Statistics, admin: `admin_stats.py`, `reviews.py` (moderation), `frontend/app/admin` | `admin_audit`, `order_reviews` | publish, list, count | `orders`, `users` | small |
| Law monitor, link check, mail, Telegram: `law_monitor.py`, `link_check.py`, `email.py`, `notifications.py` | none worth modelling | fetch, compare, notify | network | pure I/O |
| Dashboard, static pages, `middleware.ts` | none | render, redirect | HTTP | text |
| Operations: `backend/scripts`, `alembic`, Docker files | backups, schema | backup, restore, migrate | Postgres, S3 | outside the program's own control flow |

What makes each component correct is stated with its module below; what is left
out, and why, in section 11.

How the modules hang together:

* `OrderLifecycle` (section 2) is the server's half of everything.  It is proved to
  implement the abstract `OrderPromise`, and proved to move an order's status only
  as `OrderMoves` says (`MovesOnly`, theorem `MovesKept`).
* `OrderPage` (section 5) is the browser's half: it takes *any* status that moves
  along a subset `Flow` of `OrderMoves`' `Moves`, which is what that theorem hands
  over.
* `OrderSite` (section 5) puts the two halves together: one order's page with all of
  the server.  It is proved to implement `OrderPage`, so that what is proved of a page
  over any status holds of a page over this server.
* `DocumentKeys` (section 3) takes from `NeverReleasedAgain` that a document is
  encrypted at most once, and hands `OneKeyPerDocument` to `DocumentViews` (section 6), where
  a document has one key.
* `Account` (section 4) is what happens to the keys after they were registered;
  `DocumentKeys` is how they get registered.
* Three abstract specifications say what a component promises without saying how:
  `OrderPromise` (section 2), `KeyPromise` (section 3) and `OrderIntake` (section 7).
  Each is implemented by its detailed module, checked by TLC and proved.
* `Wizard` (section 7) ends where the order is created; `Delivery` (section 8)
  begins where it is finished.  The polls behind its `TakeAnswer`, and behind the
  `TakePoll` of `DocumentViews`, are `OrderPage`'s: a late answer takes the page back,
  and with it the parts of the page that these two modules are about.

## 2. The order lifecycle

### What is modelled

`OrderLifecycle.tla` is one action per transaction: what a handler or a task
does between two awaits during which something else may run.

| Code | Module |
|---|---|
| `orders` row | `status`, `paidAt`, `payment`, `retries`, `form`; `document` says whether `documents` has a row |
| row held `FOR UPDATE` across a call to the provider | `locked` |
| `init_order` | `InitOrder` |
| `pay_order` | `PayBegin` (lock and status test), then `PayCommit` or `PayRollback` (502, dead request) |
| `retry_order` | `RetryOrder`, `RetryTask` |
| webhook | `HookArrives`, `ClaimHit` or `ClaimMiss`, `RecordEvent` (journal, then the release if it is due) |
| reconcile loop | `ReconcileReads`, then the same claim and journal steps |
| auto-retry loop | `SweepStuck` (tx1, the watchdog) and `SweepRetry` (tx2 and `create_task`) |
| hourly cleanup, step 3 (forms older than 30 days) | `PurgeForm`; an order that was never paid may be of any age |
| background tasks | `TaskLoads`, then `PreviewReady`, `Delivers` + `MailsAndWipes`, `ReleaseFails`, `GenerationFails`, `LastAttemptRefunds` + `LastAttemptFails`, `WatchdogRefunds` |
| restart, dead task, dead request, dead sweep | `TaskDies`, `ClaimerDies`, `SweepDies` |
| payment provider (external) | `charge`, `payer`, `refunded`, `CustomerPays`, `Refunds` |

Three details carry most of the interest:

* A task loads the row when it starts and writes it much later.  SQLAlchemy
  writes a column only when it differs from what was *loaded*, and never looks
  at what the row holds *now*: `seen` and `Writes` model exactly that.
* `SKIP LOCKED` makes a claim *miss* instead of wait (`Claimable`), and a
  missed claim still writes the journal (`ClaimMiss`, `OutcomeOf`).
* Nothing is durable between "claimed" and "released": the release lives in the
  memory of one worker.

`Legacy` rows.  The code still contains the flow that took the money first and
generated afterwards: `run_document_generation`, the auto-retry loop, the
watchdog, the refund.  In the present flow none of this can ever happen to a
paid order, and that is a theorem here (`FreshPaidKept`), not a guess.  To
check that code at all the model starts with rows the old flow left behind
(`Init`: awaiting their first payment, or paid long ago and generating or
failed); `Legacy` is the set of these orders and may be empty.

Abstracted: amounts, addresses, texts and logs; the dead draft status; the
15-minute grace period of the reconcile loop (a pass may come at any time);
`completed_orders_count` and `payment_url`, which nothing here reads; sessions
of the sweep keep rows of tx1 in SQLAlchemy's identity map during tx2, which
could only matter when another worker's sweep commits between two statements
of the same transaction.  `order_exists` in the webhook is read in the step that
writes the journal.  The address and "send again" endpoints change no state these
properties read and are in `Delivery`.  Deletion of orders belongs to retention.

`OrderPromise.tla` is the abstract specification: an order is settled by one
captured payment that settles no other order, the settlement is for ever, and
only a settled order is delivered.  `OrderProperties.tla` states the properties
and the refinement mapping (`Captured`, `SettledBy`, `Stage`).

### Properties

| Property | Says |
|---|---|
| `PreviewExclusive` | preview tasks never race each other or anything else of the same order |
| `PaidByItsPayment` | a paid order points to a captured payment created for it, although pay requests replace payments while webhooks are under way |
| `DoneIsPaid` | what the download gate opens is paid and exists |
| `FreshPaidHasDocument` | in the present flow a paid order has its document and is paid or done |
| `ReleasedOnce` | whatever webhooks and loops overlap, one claimer or one task holds a paid order |
| `JournalledIsPaid` | the journal never says processed or reconciled of a payment that settled nothing |
| `NeverReleasedAgain` | not only one release at a time: an order whose release was started is never claimed, and gets no task, again |
| `UnmatchedIsOrphan` | money the journal calls unmatched serves nobody, and no later pay request, claim or loop gives it to an order |
| `PaidIsJournalled` | without a death, no money that settled an order is missing from the journal |
| `FormOutlivesWork` | the form, which is emptied in five places, only goes when its document was delivered, or from a failed order that nobody paid for and nothing works on: it is never pulled from under a preview or a release |
| `RefundedWasClaimed` | money goes back only after it was claimed, and only on the old flow |
| `ClaimIsFinal` | paid_at and the payment of a paid order never change |
| `MovesOnly` | every change of an order's status, the zombies of the old flow included, is one of `OrderMoves` |
| `KeepsPromise` | every step is a step of `OrderPromise` or a stutter |
| `CapturedIsClaimed` | liveness: webhooks may all be lost, the reconcile loop claims the money |
| `RetriesEnd` | liveness: retries end in done, refunded, or failed with the retries used up |

### Disagreements between the code and what is said of it

| Run | Property | What happens |
|---|---|---|
| `orders_audit` | `AuditNeverCostsRelease` | two notifications of one payment: the loser journals "duplicate" before the winner journals "processed"; the winner's row is refused and `claimed and inserted` is false, so nobody releases the document |
| `orders_paid_forever` | `PaidReachesTheEnd` | a release that fails or dies leaves the order `paid`; no loop and no endpoint ever selects that status, whatever the runbook and the log message say |

## 3. Document keys

A document is sold readable and delivered unreadable to the service itself: the
files of a paid order are encrypted in the storage with the public key of the
account.  The private half is made in a browser, just before the payment, and is
only ever in `localStorage`, in key files the customer downloads, and, sealed by
a phrase, in a backup on the server.

`DocumentKeys.tla` models one account with its browsers and orders.

| Code | Module |
|---|---|
| `users.public_key`, `private_key_backup_encrypted` | `publicKey`, `backup` |
| `localStorage`, downloaded files | `local` (two halves, stored one after the other by the recovery), `saved` |
| `preparePay`, `ensureKeyPair`, `KeySaveGate`, `doPay` | `PreparePay`, `KeyAccepted` / `KeyRefused`, `SaveKeyFile`, `Pays` |
| `register_order_public_key` | `RegisterLoads`, `RegisterSets` (nothing locks the row between) |
| set-up page, key rotation, `setup_e2ee` | `NewPair`, `SendSetup`, `SetupSets`, `StorePair` |
| `recoverViaKeyFile`, `loginViaKeyFile`, `recoverViaPhrase` | `UseKeyFile`, `RecoverPrivate`, `RecoverPublic` |
| lost requests and answers, reloads | `RequestEnds`, `Reload` |
| `run_document_release`, `_maybe_encrypt_files`, `_finalize_release` | `ReleaseBegins`, `EncryptFile`, `EncryptFails`, `Finalize`, `ReleaseDies` |

The two components meet in the release: `NeverReleasedAgain` of the order lifecycle
is why a file is encrypted at most once here (`at = "over"` never begins again), and
`Pays` stands for the whole way from the payment to the claim.

| Property | Says |
|---|---|
| `OneKeyPerDocument` | an encrypted document has both files under one key although the account's key may be replaced between the two uploads |
| `PaidHasKey` | whatever is lost on the way, nobody pays on an order's page before the account has a key |
| `KeepsKeyPromise` | every step is a step of `KeyPromise` or none: nothing is sold to an account without a key, a release chooses the key of its beginning and no other, all files it delivers open with that key or none is sealed, and what was delivered stays |
| `RegisteredIsHeld` | with one browser, the key new documents get can always be had again |

`RegisteredIsHeld` does not speak of *old* documents: key rotation makes those
unreadable by design, and says so to the customer.  With two browsers it fails
by a race (`RegistersOnlyWhenEmpty`, section 9).  Bound: the server works on one
request of a browser at a time; without it one browser with two tabs has the same
race.

| Run | Property | What happens |
|---|---|---|
| `keys_plaintext` | `PlainWhenNotEncrypted` | the second file cannot be encrypted: the first stays encrypted in the storage, the document is marked as plain |

Abstracted: what a recovery reads from the server (`/user/me`, the backup) is taken
together with the storing that follows; an answer that arrives after the key was
replaced elsewhere stores a key that is in a file or was in a backup anyway.

An ok answer to the registration that cannot be read counts as one that names no
other key (`order-status.tsx:225-226`): `KeyAccepted` does not ask what it says.

Not modelled here: the bytes of the formats, and the keyring (a password login may
put another of the account's keys into a browser; `Account` has it).  A guest who
reloads the page after the pair was made is not asked to save the key file again; the
model has that behaviour, and no property denies it.

## 4. Doors to the account

An account is entered by a magic link, a key file, a phrase or a password; the
password also unlocks a keyring that carries the private keys, each wrapped under
the password.  The server cannot look inside: that what it holds still fits
together is the browser's business, and there may be two browsers.

`Account.tla` models one account with one browser step by step, and the customer's
second browser as the actions `OtherSetsPassword`, `OtherRotates`, `OtherErases`,
whose requests are served at once.

| Code | Module |
|---|---|
| `users` row, `user_keys` rows | `alive`, `user`, `ring` (what an entry holds, under which password) |
| cookie, `localStorage` (two halves), the pair a page holds until the server has it | `session`, `local`, `fresh` |
| `request_magic_link`, `verify_magic_link` | `AskLink`, `OpenLink`, `ServeVerify`, `TakeVerify` |
| password login | `LoginByPassword`, `ServeLogin` (the page takes the first entry that opens), `TakeLogin` |
| key login with a challenge | `LoginByKey`, `ServeChallenge`, `ServeKeyLogin`, `TakeKeyLogin` |
| `recoverViaKeyFile`, `recoverViaPhrase` | `UseKeyFile`, `ServeMe`, `TakeMine`; `UsePhrase`, `ServePhrase`, `TakePhrase`, `TakeHalf` (two stores with a request between) |
| `set_password`, `import_keys` | `SetPassword`, `LoadUser`, `ServeSetPassword`; `ImportKey`, `CheckImport`, `CommitImport` (check and write are apart) |
| set-up and rotation | `NewPair`, `SaveFresh`, `ServeSetup`, `TakeSetup` |
| `ensureKeyPair` of a payment | `PreparePay` |
| `delete_me` behind its proxy route | `DeleteAccount`, `ServeErase`, `AnswerGone`, `TakeGone` |
| errors, lost answers, closed pages, logout, another device | `Refuse`, `TakeNothing`, `Reload`, `SessionEnds`, `NewDevice` |

| Property | Says |
|---|---|
| `ErasedIsEmpty` | no request that was under way when the account went puts anything back |
| `DoorStays` | a password that opens an entry is never left without one, except by an import overtaken by a new password or by a password set on torn halves |
| `HalvesStay` | nothing but the phrase, which writes one half after the other, tears the pair in the browser apart |
| `AccountInv` | the inductive invariant: types, and that a request that stores a pair carries both halves of it |

| Run | Property | What happens |
|---|---|---|
| `account_erasure` | `GoneIsGone` | a customer who ever set a password deletes the account: `delete_me` does not delete the `user_keys` rows, the foreign key refuses the commit, and the proxy route answers 204 whatever the backend said; the page says that everything is gone |

Two exceptions in `DoorStays` are named and not hidden: both are what the code does
(`auth_service.py:425-433` compares with the hash it loaded with the request;
nothing in `e2ee-password.ts` compares the halves it wraps).

What reading this component showed besides: `processing_restricted` is written and
read nowhere; after a rotation, old key files are refused at the login (a challenge
is only good for the present key) and by the recovery.

Abstracted: a key stands for its pair; challenges, expiry and single use of links;
the sliding session (60 minutes, renewed by `X-Refresh-Token` below 30); a new
account under an erased address is another account.

## 5. The page of an order

`OrderPage.tla` is one browser tab on the order of section 2.

| Code | Module |
|---|---|
| `order.status` of the page, `order.status` of the server | `view`, `status` |
| poll timer and refresh on focus, `setOrder` of an answer | `Poll`, `ServePoll`, `LosePoll`, `TakePoll` |
| `handleRetry` with its optimistic status | `ClickRetry`, `ServeRetry` / `RefuseRetry`, `TakeRetry` |
| `preparePay`, the gate, `doPay`, the redirect | `ClickPay`, `Prepared`, `ServePay` / `RefusePay`, `GoToPayment` |
| effects on a change of status: toast, counted goal | part of every action that changes `view` (`Shows`, `Counts`) |
| loading, closing, the toast's button | `OpenPage`, `ClosePage`, `CloseToast` |
| everything the server does by itself | `ServerMoves`, along `Flow` |

| Property | Says |
|---|---|
| `ShownWasTrue` | whatever overtakes whatever, and for all the optimism of the retry, the page shows a status the order had since it was opened |
| `ToastIsNews` | the "ready" toast is for somebody who saw the order unfinished |
| `GoalCountedOnce` | a tab counts a payment once, although late answers may show `paid` twice and the page may be loaded again |
| `NeverAhead` | whatever the order can no longer leave, the page shows, announces or counts only when the order is there, although the page sets statuses itself and late answers take it back |
| `WaitingCatchesUp` | liveness: once the order rests, a page that waits shows it |
| `ClicksAreAnswered` | liveness: no failure leaves a button disabled for ever |
| `PageInv` | the inductive invariant (`AnswersWereTrue`, `MarkCounts`) |

`OrderSite.tla` composes this page with the lifecycle of section 2.  They share the
row of the order; nothing of the server is left out.

| Code | Module |
|---|---|
| `handleRetry` through its proxy to `retry_order` | `RetryFromPage`: `RetryOrder(Watched)` and `ServeRetry` are one step |
| `doPay` through its proxy to `pay_order` | `PayFromPage`: `PayCommit(Watched, p)` and `ServePay` are one step |
| the same endpoints for another tab, webhooks, loops, tasks, deaths | `ServerAlone`: a step of section 2, of which the page learns nothing |
| loading, polling, clicks, refusals, redirect | `PageAlone`: a step of `OrderPage` that only reads the row |

| Property | Says |
|---|---|
| `KeepsPage` | every step of the two together is a step of `OrderPage` or none |
| `PageKeepsWord` | what the page of a present-flow order offers for payment has a document; what it thanks for or has counted is captured money paid for this very order; what it offers for download or announces is done |

`PageKeepsWord` is what the customer relies on and neither half says: it relates what a
tab shows, which may be several answers old, to the row, the document and the provider.

`ShownWasTrue` does not say that the page never goes back: an answer that was
overtaken does show the older status again, until the next poll.  `WaitingCatchesUp`
is for the polled statuses (`pending_payment`, `paid`, `generating`): a page that
shows `preview_ready` or `failed` asks for nothing.  `GoalCountedOnce` assumes a browser
that keeps the session's mark: where `sessionStorage.setItem` throws, which the page
swallows after the goal was sent (`order-status.tsx:186-191`), every visit to a paid
order counts.

Besides: the badge table of `order-card.tsx` lists neither `preview_ready` nor
`refunded` and shows "error" for them (`order-card.tsx:43-50`, `70`), and its direct
links (`97-115`) hand out the encrypted file as it is; the dashboard's poller
refreshes only while an order of the list generates.

## 6. Preview and download

`DocumentViews.tla` is the rest of that page: the pictures before the payment, the
files after it, and the form that recovers a private key when a download needs one.

| Code | Module |
|---|---|
| `PreviewSection`: load, error, pages, enlarged picture | `Refresh`, `ServePreview` / `RefusePreview`, `TakePreview`, `PictureBreaks`, `OpenPicture`, `TurnPicture`, `ClosePicture` |
| `handleDownload`: info, file, decryption | `ClickDownload`, `ServeInfo`, `ServeFile`, `TakePlain`, `ReadsKey`, `MissesKey`, `OpensFile`, `TakeFailure` |
| `RecoverAccessInline` and `onRecovered` | `RecoverByFile`, `RecoverByPhrase` (`Recover`), `ServeBackup`, `TakeBackup`, `ServeMe`, `TakeRefusal`, `Resumes` |
| other tabs, rotation, the end of a session | `OtherTabStores`, `Rotates`, `SessionEnds` |
| payment and release, as the polls tell of them, early, late or again | `Advances`, `TakePoll`, with `was` what may be on its way |
| loading, closing | `OpenPage`, `ClosePage` |

A late poll that says something else than `done` unmounts the download section and the
form that recovers a key.  What the section had started goes on: `handleDownload`,
`pendingFmt` and the `onRecovered` of a recovery belong to the page.  `own` says of a
recovery whether its form is still there; a form that comes back does not know the
calls of the one before it, so that two recoveries may run.  The preview is the other
way round: it is unmounted with its state, and asks again when it comes back.

| Property | Says |
|---|---|
| `ViewsInv` | where the page says "please wait" something is under way; a form has one recovery at most and its wish is kept while it runs; the enlarged picture is one of the preview's; however often polls take the page back |
| `OneFilePerClick` | a click hands over at most one file, although a recovery repeats the click it was started for and may itself be repeated; one more for each recovery that a late poll tore from its form |
| `WishGoesWithDownload` | nothing takes the wish for a file away but the end of the page or the download that a successful recovery starts, no failed or overtaken recovery and no late poll |

`OneFilePerClick` is the one that needs arithmetic: files handed over, downloads
under way, recoveries under way and a wish no recovery has taken up, together, never
exceed the clicks and the torn recoveries (`torn`).  Without `torn` it is false: section 9.

Two facts of the code that the model has and no property denies: the recovery
resumes the format of the render it was started in, so a wish for the other format
made meanwhile is dropped; and of two loads that overlap the later answer wins, an
error included.

## 7. The wizard and the creation of an order

`Wizard.tla` follows a form from the first step to the page of the order.

| Code | Module |
|---|---|
| `wizard-shell.tsx` state | `step`, `answers`, `consent`, `prefill`, `place` |
| prefill from `/user/contact` or the saved e-mail | `PrefillContact`, `PrefillEmail` |
| inputs, buttons | `HandleChange`, `ToggleConsent`, `HandleNext`, `HandleBack`, `HandleSubmit` |
| `showIf`, groups, `dateErrors`, what is sent | `Visible`, `GroupEmpty`, `DateErrorsAlone`, `DateErrors`, `Problems`, `Sent`, `Summary` |
| `submit-wizard.ts`: limit, validation, call, cookies | `SubmitWizard`, `WindowEnds`, `TakeReply`, `BackendFails` |
| `init_order` and its schema's validators | `InitOrder`, `InitOrderRefuses`, `BackendAccepts` |
| the end of the action in the browser | `RedirectArrives`, `ErrorArrives`, `AnswerLost` |
| a fresh form, the end of a session | `NewVisit`, `SessionEnds` |

| Property | Says |
|---|---|
| `OrdersComplete` | every order has every required field its answers show and one of each group, though the backend never asks and a later answer can open an earlier field |
| `OrderedIsSummary` | what is ordered is, answer by answer, what the summary showed when the customer confirmed it (`checked`, kept from that moment): nothing shown is dropped or changed on the way, and nothing of a branch the customer turned away from is sent |
| `MirrorsServer` | the backend's validators of fields turn down only what the form cannot know: their own values, or a day their clock has not reached |
| `UnseenWasLost` | an order nobody was led to is on its way or had its answer lost |
| `TypedStays` | a late prefill never replaces an answer, not even one of the step the customer is on: a filled answer only changes by the customer's hand on the step that shows it, a step that leaves the prefill alone |
| `KeepsIntake` | every step is a step of `OrderIntake` or none: orders are made one at a time and of complete data, and each is shown to the browser that asked for it, or given up as lost, once and before the next is made |

`UnseenWasLost` is the honest half of "no duplicate orders", which does not hold:
`init_order` is not idempotent, so after a lost answer the customer makes a second
order.  `ShowIfAssumption` says of the situations what their YAML files keep to: a
control stands on the step of its field or before it, and hides no other control.
Without it `OrdersComplete` fails.

Abstracted: wording and masks of inputs; the 32 KB that the backend allows a form in
total (`schemas/order.py:43`), which the form does not know and `MirrorsServer` does not
speak of.  The Telegram fallback of
`submit-wizard.ts:214-267` is taken only without `BACKEND_URL`, which every deployment
sets (`docker-compose.prod.yml:45`), and is not modelled.

## 8. Letters and reviews of a finished order

`Delivery.tla` has the two forms of the finished page, over reloads and other tabs.

| Code | Module |
|---|---|
| `orders.status`, `notification_email` | `order` |
| `NotificationEmail` | `form`, `letter`; `EditAddress`, `CancelEdit`, `Submit`, `TakeLetter` |
| `resend_order_notification`: store the address, then mail | `SaveAddress`, `SendLetter`, `RefuseLetter` |
| `ReviewForm`: load (form, thanks, or "for buyers only"), submit | `opinion`, `post`; `ReviewLoads`, `SubmitReview`, `TakeReview` |
| `create_review` | `CreateReview`, `RefuseReview` |
| the same two requests of another tab, or of a form that has left this page | `SavedElsewhere`, `ReviewedElsewhere` |
| page, polls early and late, retry, another tab's retry, logins and logouts | `OpenPage`, `ClosePage`, `TakeAnswer` (`Watches`, `Shows`), `Generated`, `RetryHere`, `RetryElsewhere`, `SessionChanges` |

A form's button is disabled while *its* request is under way, and that is all the code
has against a second letter: a page that is loaded again, or a form that a late poll
took away and another one brought back, may send another one while the first is under
way.  So `letter` and `post` are the requests of the forms now on the page, and everybody
else's may be served at any time.  `form.mailed` and `form.behind` are histories: where
the last letter the form asked for went, and whether the row's address was changed
since without the form's knowing.

| Property | Says |
|---|---|
| `SaidIsSent` | "sent" is said only after the letter last asked for was sent, and to the address the page names, unless the row's address was changed behind the form's back: by another tab, by a request whose page had gone, or by a try of its own that failed after storing it |
| `ReviewIsThere` | "published" is said of the very text that is stored, "thanks" of a stored one, whatever other tabs send |
| `FormsAnswer` | liveness: neither form waits for ever |
| `DeliveryInv` | the inductive invariant (`LetterFits`, `BeliefFits`, `PostFits`, `FormsFit`) |

Besides: the admin's page of reviews takes the answer for an array
(`admin/reviews/page.tsx:44-45`, `67`) while the endpoint sends an object, so that
moderation cannot be done there and is not modelled; the `Promise.all` of the review
form has no `catch`; `changeOrderEmail` and so `PATCH .../email` has no caller (what it
would do is `SavedElsewhere`); a task mails to the address
it loaded when it started (`orders.py:278`).

## 9. Known divergences without a run

Statements of the sources that the code does not keep, and two things it does that
nobody would expect of it.  They are definitions of the
modules where the model reaches them, but have no run of their own: they cost the
customer less than the four that have one.

| Statement | What happens |
|---|---|
| `WipedOnlyAfterMail` (`OrderProperties`; `generation.py`) | the form is wiped although the mail failed |
| `TerminalStays` (`OrderProperties`; `core/enums.py`) | the watchdog measures from `paid_at`, not from the attempt: it refunds an order whose generation is running, which then writes `done` over `refunded` |
| `RegistersOnlyWhenEmpty` (`DocumentKeyProperties`; `orders.py:532`) | two browsers read an account without a key; the second commit replaces the key the first was told is in force |
| `OnePassword` (`AccountProperties`; `models/user_key.py:15`) | a new password wraps the present pair anew and leaves the older entries under the old one |
| `GuestKeepsAccess` (`WizardProperties`; `submit-wizard.ts:186-196`) | one `order_token` cookie: a guest's second order, which the page itself offers, takes the access to the first |
| `SaysWhereItWent` (`DeliveryProperties`; `notification-email.tsx:37`, `61`, `orders.py:377-382`) | a resend that failed, or another tab's, has stored a new address; a later one that names none goes there, and the page names the old one |
| "one click, one file" (section 6; `order-status.tsx:148`, `304-308`, `recover-access-inline.tsx:20`) | a late poll takes the recovery form away while it recovers, the next one brings a fresh form, the customer recovers again, and both recoveries repeat the download: two files for one click (`OneFilePerClick` counts these as `torn`) |
| the form's retention (`main.py:108-119`; `orders.py:271-297`) | the cleanup empties the form of an unpaid order that failed a month ago; `retry_order` still accepts it and starts a preview of an empty form |
| comments `order-status.tsx:109`, `preview-section.tsx:30` | after a recovery the format of the render it was started in is resumed, not the last one wished for; the cache-buster does not keep a picture that broke in an earlier load from being counted as broken in the next |

In the recovery by phrase, a guest without a session stores the private half, is
shown an error and gets no download; and a browser that holds another key (of before
a rotation) is shown an error, never the recovery form.

## 10. Runs, bounds, fairness

| Run | Instance | Distinct states | Shows |
|---|---|---|---|
| `orders_fresh` | 2 orders, 2 payments, 2 webhook requests, 1 worker, 2 task slots, 1 retry, 1 death | 832 304 | the safety properties, the inductive invariant, the audit, the single release, the forms under the cleanup and the refinement of the present flow |
| `orders_legacy` | 1 order of the old flow, 2 payments, loops, a retrying customer, 1 death | 86 036 | the retry machinery: the inductive invariant with its types, bounds and refunds, the moves, the two liveness properties |
| `keys_single` | 1 browser, 2 orders, 3 pairs | 274 886 | the key properties and the refinement of `KeyPromise` |
| `account` | 2 pairs, 2 passwords, a second browser | 294 035 | the doors stay open, the halves together, the erased account empty |
| `page` | 2 polls at once, the present flow plus a watchdog's refund and a zombie's `done` | 22 429 | what is shown, counted and answered |
| `documents` | 2 loads, 2 downloads and 2 recoveries, 2 of all these at once, 2 clicks on either button, 1 torn recovery, 2 keys, 2 pictures | 1 504 602 | spinners, buttons, forms, files per click |
| `wizard` | 7 fields on 3 steps, one of them conditional, 2 dates, 1 group; 2 orders, 1 submission per window, server on the same day or the one before | 378 824 | what orders are made of, and the refinement of `OrderIntake` |
| `delivery` | 2 addresses, 2 texts | 530 958 | what the forms of a finished order say |
| `orders_paid_forever`, `orders_audit`, `keys_plaintext`, `account_erasure` | the smallest instance with the counterexample | stops at it | the four disagreements |

`site.cfg` with `MCOrderSite` is not one of the runs: what it asks is proved, from
the two halves that the runs check.  It stays to be run by hand when either half changes
(1 order of the present flow and its page, 2 payments, 1 webhook request, 1 worker, 1
retry, 1 poll, no death; 1 246 458 distinct states, a minute): TLC finds
`KeepsPage` and `PageKeepsWord` true, and `PageKeepsWord` false with `PayableEarly`,
`VerifiedUnasked` or `GoToPaymentCounts` in the place of what they spoil.

Six safety properties are not listed in a run of their own because TLC checks them
with another one: `PaidByItsPayment`, `DoneIsPaid`, `FreshPaidHasDocument`,
`JournalledIsPaid` and `RefundedWasClaimed` are or follow from parts of `Inv` (`RowInv`,
`MoneyInv`), `UnseenWasLost` is an invariant of `OrderIntake`.  Each has its theorem.

Each passing run takes from seconds to two and a half minutes with two workers.  `CHECK_DEADLOCK FALSE` is
set only for the keys, where a customer may have nothing left to do.

Why the bounds are enough.

* Orders.  Two webhook requests and a loop give three claimers for one order; two
  payments give a superseded payment, and two orders compete for nothing but
  payments; two task slots per order show any overlap of tasks (more are excluded,
  where it matters, by `PreviewExclusive` and `ReleasedOnce` themselves).  One retry
  reaches both sides of every comparison with the limit.  One death reaches every
  place a process can die, since what is lost is never more than one step's local
  state.
* Keys and account.  Three pairs are the old one, its replacement and the one a
  release still holds; in the account two pairs and two passwords make a wrong
  half, an old entry and an overtaken check.  One request of the browser at a time,
  which may outlive its page: races are with the second browser.
* Page.  Two polls overtake each other; what a third adds is one more old answer,
  and the properties speak of single answers.  `MaxGoals` is 2 so that the counter
  can exceed 1.
* Documents.  Two of each kind are there, and `MaxCalls` lets the customer start another
  one while fewer than two run (a recovery's repeated download comes on top): any two
  kinds overlap.  Two clicks, on one button or on both, and one torn recovery
  (`MaxTorn`) make every pairing of a click, a resumed one and one that is resumed twice.
* Wizard.  The instance is cut from two real situations, with a required field that
  appears by an earlier answer, a rule between two steps, a group, and values that
  only the action, or only the backend, refuses.  A fresh form waits with its
  submission until an abandoned one has ended.
* Delivery.  One letter and one review of the forms on the page, which is the code's own
  bound, and any number from elsewhere; a second address and a second text are what an
  answer can be about wrongly.

The theorems then remove the bounds of the constants for the safety properties.
Bounds in the guards (one request of the browser at a time for the keys; `MaxCalls`,
`MaxClicks` and `MaxTorn`, which are constants) are part of the specifications and of the
theorems.

Symmetry (`Symmetry` in `MCOrders`, `MCOrderSite`, `MCDocumentKeys`, `MCAccount`, `MCDocumentViews`) is used in runs
without liveness only.  Task slots are not symmetric, because a `CHOOSE` picks one.

Fairness.

* Orders (`Fairness`): weak for every handler that has begun, every task that is
  alive, every loop and the clock, because the event loop of a live worker schedules
  them; none for customers, for webhooks, for deaths.  Strong fairness is asked
  only of `ReconcileReads`: each pass visits every pending order, so an order that
  is pending again and again is visited again and again.  The two liveness
  properties name the customer behaviour they depend on (`<>[]` premises): a
  customer who opens pay requests for ever holds the row for ever, one who presses
  "retry" for ever steals it from the auto-retry loop.
* Page: weak for the timer (`setInterval` fires as long as the effect lives), strong
  for serving a poll and taking its answer (a network that fails again and again
  also works again and again), weak for the requests of a click, because a `fetch`
  settles.  Nothing is owed by the customer or by the order.
* Delivery: weak for the letters and the reviews, because a request ends one way or
  another and the page handles its end.
* Keys, account, wizard, documents, site: safety only, no fairness.

## 11. Not modelled

| Part | Why |
|---|---|
| steps 1 and 2 of the hourly cleanup (drafts, users without orders), three-year retention, objects in the storage | sequential passes over rows that are months old, and a best-effort delete; what they race with is excluded by foreign keys |
| single use and expiry of links and challenges, the sliding session | test and set without a lock; a second session goes to the same holder, so there is nothing for the account's properties to lose |
| alerting | a message to the operator, read by nothing in the program |
| LLM dispatch | a network client with a token cache; its failure is `GenerationFails` of section 2 |
| document text, rendering, the bytes of the encrypted formats | text and bytes in, text and bytes out, no state |
| calculators | arithmetic on form data, tested value by value in the repository |
| situations and schemas | read once at start; what the wizard's properties need of them is `ShowIfAssumption` and its neighbours |
| moderation of reviews, statistics, admin pages | the page does not fit its endpoint (section 8); the rest is counts |
| dashboard and its poller, list of submitted answers, link to the instruction | read-only views of what other modules change |
| `middleware.ts`, articles, legal and situation pages | text, and one test per request |
| law monitor, link check, mail and Telegram clients, scripts, migrations | pure I/O or outside the program's control flow |

The hazards that these parts have are listed in `PROJECT.json` with the reason why
no property covers them.

## 12. Proofs

All proofs are for arbitrary constants: any numbers of orders, payments, requests,
workers, slots, retries and deaths; any fields, steps, rules and groups; any keys,
passwords, polls, loads, downloads and clicks.

None of the safety properties is inductive by itself; each module has an inductive
invariant.  TLC checked each on the run's instance before it was proved; the runs
keep the main ones, and not `WipeInv`, `AuditInv` and `BehindInv`, whose purpose is the
properties they imply.
Every step lemma has one step per action and under it one per conjunct the action
can disturb.

* `OrderSafety`: `TypeCorrect`, the inductive invariant `Inv` (`Safe`) and, from it,
  the safety properties of section 2 with `ClaimIsFinal` and `MovesOnly`.  `Inv` adds
  four parts to the types.  `RowInv`: which statuses go with a set `paid_at`, with
  a document and with a held lock, which is why a claim can never meet a pay request
  half-way.  `TaskInv`: a preview is alone, a release of a present-flow order works
  on status paid, what a preview *saw* is still in the row.  `ClaimInv`: a claimer
  that holds an order of the present flow is the only one, and no task runs for it.
  `MoneyInv`: payments are opened for one order and a settled order's payment is
  captured.  The parts need each other: that `Writes` does no harm is `TaskInv`, which
  a claim preserves because of `RowInv`, and so on.  Each of the four groups of
  actions (`Customer`, `Claims`, `Sweeping`, `Tasks`) has a lemma for each invariant.
  On top of `Inv` stand two more.  `WipeInv`, for `FormStays`: a release wrote `done`
  because it had seen `paid`, and the step that wipes comes after that; and nothing works
  on a failed order that nobody paid for, which is all the cleanup can meet besides.  `AuditInv`,
  for `UnmatchedServesNobody` and `AuditIsComplete`: what is journalled, or about to
  be, is captured, and a pay request only gives an order a payment that was not opened
  yet.  `NoSecondRelease` is about steps: a paid order of the present flow is paid or
  done, while `Claimable`, `Retryable` and the sweep ask for something else.
* `OrderRefinement`: `Refines`, the detailed specification implements `OrderPromise`;
  and the site.  `SiteRefinesPage` shows that every step of the site is one of the page:
  the server's own steps are moves along `Flow` because of `Inv` (`LegalMoves`, the
  lemma behind `MovesKept`), and the two shared steps are the page's by definition.
  `PageWordIsKept` then instantiates `PageIsNeverAhead` of `OrderPageProofs` with the
  server's status (`SiteNeverAhead`) and joins it with what `Inv` says of the row.
* `DocumentKeyProofs`: `KeysSafe` for `KeyInv`, `KeysRefine` for `KeyPromise`, and
  `DocumentsHaveOneKey` and
  `PaidOrdersHaveKey`; `OneBrowserHoldsKey` for one browser.  `OneKeyPerDocument` needs
  what the release still remembers (`ReleaseInv`), `PaidHasKey` what a page and an
  answered request know (`PageInv`, `RequestInv`).  `RegisteredIsHeld` needs `CustodyInv`:
  a backup is of the registered key, and a key without a backup is where it was made
  until the registration ends, which is exactly what a second browser breaks.
* `AccountProofs`: `AccountSafe` for `AccountInv`; `ErasedAreEmpty` from it.
  `DoorsStayOpen` and `HalvesStayTogether` are about steps: `PairsFit` says that what
  an answer stores is a pair, and `KeysAreMade` that an entry which is overwritten
  held a key that was made.
* `OrderPageProofs`: `PageSafe` for `PageInv`, and the four safety properties.
  `ShownWasTrue` needs `AnswersWereTrue`: behind every answer on its way, the one to
  the retry included, is a status the order had since the page was opened.
  `GoalCountedOnce` needs `MarkCounts`.  `PageIsNeverAhead` is for every set of
  statuses that `Flow` and the page's own two optimistic moves do not leave; its
  `BehindInv` speaks of the history: an order has not left what it reached since the
  page was opened.  `FreshPageIsEarned` applies it to the present flow.
* `DocumentViewProofs`: `ViewsAreAlive` in three parts (the preview, the files, what
  lies outside), `WishGoes`, and `OneFileForAClick`, whose sum changes at several places
  in one step: the proof counts `handed`, `Underway`, `Resuming` and `Wished` with the
  theorems on finite sets.  A late poll leaves the recoveries counted and may free one
  wish, for which it pays with `torn`.
* `WizardProofs`: `FormTypes`, the five properties, and `IntakeRefines` for `OrderIntake`.  The inductive part of
  `OrdersComplete` says that the steps before the present one have no gap, which
  survives a later change because of `ShowIfAssumption`.
* `DeliveryProofs`: `FormsSafe` for `DeliveryInv`, `SaidWasSent`, `ReviewsAreThere`.  The
  parts `LetterFits` and `PostFits` tie the request to the form that still listens;
  `BeliefFits` says that a form which nothing happened behind knows the row's address, so
  that a request without one goes where the page says.

Assumed of the constants, and evaluated by TLC in every run: `ConstantsAssumption`,
`KeysAssumption`, `AccountAssumption`, `PageAssumption`, `ViewsAssumption`,
`DeliveryAssumption`, and the wizard's `StepsAssumption`, `ShowIfAssumption`,
`FieldsAssumption`, `ValuesAssumption`, `NumbersAssumption`.

The site's theorems have `SiteAssumption` as their hypothesis: the page's order is one
of the orders, and the goal counter has a bound.

Only model-checked: the liveness properties `CapturedIsClaimed`, `RetriesEnd`,
`WaitingCatchesUp`, `ClicksAreAnswered` and `FormsAnswer` (liveness under fairness is out
of the prover's reach), and the four disagreements.
