--------------------------- MODULE DocumentViews ---------------------------
(***************************************************************************)
(* What the page of an order shows of its document: before the payment the *)
(* watermarked pictures (preview-section.tsx), afterwards the download of  *)
(* the files, which the browser opens with its private key or, where there *)
(* is none, has recovered first (order-status.tsx handleDownload,          *)
(* e2ee-download.ts, recover-access-inline.tsx).                           *)
(*                                                                         *)
(* Nothing waits for anything else here: requests overlap, and what is     *)
(* done with an answer is what the page meant when it asked.  A late poll  *)
(* takes the page back (OrderPage): the preview and the form that recovers *)
(* the key go with the section they are in, while downloads and the form's *)
(* wish are the page's own and a recovery under way goes on without its    *)
(* form.  Bounds: the loads, downloads and recoveries under way at once,   *)
(* the clicks, and MaxTorn.  A document has one key for both files         *)
(* (DocumentKeys!OneKeyPerDocument), None if plain.                        *)
(***************************************************************************)
EXTENDS Naturals, FiniteSets, Functions

CONSTANTS
    Keys,
    None,
    Formats,        \* "docx" and "pdf"
    NumPages,       \* the pictures of the preview, 0 if none was made
    Loads,          \* of the preview under way at once, numbered
    Slots,          \* of downloads under way at once, numbered
    Tries,          \* of recoveries under way at once, numbered
    MaxCalls,       \* requests under way when the customer starts another one
    MaxClicks,      \* on the download buttons
    MaxTorn         \* recoveries that lose their form to a late poll

ASSUME ViewsAssumption ==
    /\ None \notin Keys \cup Formats
    /\ NumPages \in Nat /\ NumPages # None
    /\ Loads \subseteq Nat
    /\ Slots \subseteq Nat /\ IsFiniteSet(Slots)
    /\ Tries \subseteq Nat /\ IsFiniteSet(Tries)
    /\ {MaxCalls, MaxClicks, MaxTorn} \subseteq Nat

VARIABLES
    document,       \* the key its files are encrypted with
    account,        \* the account's key, of the backup too if there is one
    cookie,         \* the account's session, the guest's token or neither
    local,          \* the private key in the browser
    status,         \* the order's: "offered", "paid" until it is released, "done"
    was,            \* what a poll's answer on its way to the page may say of it
    shown,          \* what the page shows, or "closed"
    preview,        \* PreviewSection
    loads,          \* its requests
    section,        \* the download part of OrderStatus
    downloads,      \* calls of handleDownload
    recoveries,     \* calls of RecoverAccessInline's run; own: its form is there
    clicks,         \* on each download button so far
    handed,         \* files of each format handed to the customer so far
    torn            \* recoveries of each format that lost their form to a late poll

outside  == <<document, account, cookie>>
page     == <<status, was, shown>>
pictures == <<preview, loads>>
counts   == <<clicks, handed, torn>>
files    == <<section, downloads, recoveries, counts>>
vars     == <<outside, local, page, pictures, files>>

MaybeKey    == Keys \cup {None}
MaybeFormat == Formats \cup {None}
Pages       == 1..NumPages
Statuses    == {"offered", "paid", "done"}

\* pages: how many addresses are on the page, None before the first answer;
\* broken: how many of the pictures could not be loaded.
NoPreview  == [pages |-> None, error |-> FALSE, broken |-> 0, openAt |-> 0]
NoLoads    == [i \in Loads |-> "no"]
NoSection  == [downloading |-> None, pending |-> None]
NoDownload == [at |-> "no", fmt |-> None, key |-> None]
NoRecovery == [at |-> "no", how |-> "file", key |-> None, resume |-> None, own |-> FALSE]

TypeOK ==
    /\ document \in MaybeKey
    /\ account \in Keys
    /\ cookie \in {"session", "token", "none"}
    /\ local \in MaybeKey
    /\ status \in Statuses
    /\ was \subseteq Statuses
    /\ shown \in Statuses \cup {"closed"}
    /\ preview \in [pages : {0, NumPages, None}, error : BOOLEAN,
                    broken : 0..NumPages, openAt : 0..NumPages]
    /\ loads \in [Loads -> {"no", "sent", "ok"}]
    /\ section \in [downloading : MaybeFormat, pending : MaybeFormat]
    /\ downloads \in [Slots -> [at : {"no", "info", "told", "bytes", "got"},
                                fmt : MaybeFormat, key : MaybeKey]]
    /\ recoveries \in [Tries -> [at : {"no", "sent", "backup", "half", "ok"},
                                 how : {"file", "phrase"}, key : MaybeKey,
                                 resume : MaybeFormat, own : BOOLEAN]]
    /\ clicks \in [Formats -> Nat]
    /\ handed \in [Formats -> Nat]
    /\ torn \in [Formats -> Nat]

\* The document is encrypted with the key the account had; that may have been
\* replaced since, and the browser may be another one than the one that paid.
Init ==
    /\ document \in MaybeKey
    /\ account \in Keys
    /\ cookie \in {"session", "token"}
    /\ local \in MaybeKey
    /\ status = "offered"
    /\ was = {}
    /\ shown = "closed"
    /\ preview = NoPreview
    /\ loads = NoLoads
    /\ section = NoSection
    /\ downloads = [s \in Slots |-> NoDownload]
    /\ recoveries = [t \in Tries |-> NoRecovery]
    /\ clicks = [f \in Formats |-> 0]
    /\ handed = [f \in Formats |-> 0]
    /\ torn = [f \in Formats |-> 0]

\* assert_order_access
HasAccess == cookie # "none"

-----------------------------------------------------------------------------
(* The page, the session and the customer's other tabs.                    *)

Runs(t) == recoveries[t].at # "no"
Owns(t) == Runs(t) /\ recoveries[t].own

\* The requests under way on the page.
Calls == Cardinality({i \in Loads : loads[i] # "no"})
            + Cardinality({s \in Slots : downloads[s].at # "no"})
            + Cardinality({t \in Tries : Runs(t)})

\* The form goes; what it has started goes on.
Orphaned == [t \in Tries |-> [recoveries[t] EXCEPT !.own = FALSE]]

\* The preview is there while the document is offered, and asks when it comes.
ShowsPreview(s) ==
    CASE s = "offered" /\ shown = "offered" -> UNCHANGED pictures
      [] s = "offered" /\ shown # "offered" ->
            /\ preview' = NoPreview
            /\ \E i \in Loads : /\ \A j \in Loads : i <= j
                               /\ loads' = [NoLoads EXCEPT ![i] = "sent"]
      [] OTHER -> preview' = NoPreview /\ loads' = NoLoads

\* A page that is loaded starts from nothing.
OpenPage ==
    /\ shown = "closed"
    /\ HasAccess
    /\ shown' = status
    /\ was' = {status} \ {"done"}
    /\ ShowsPreview(status)
    /\ UNCHANGED <<outside, local, status, files>>

\* Payment and release, seen by the polls of a page that had something to wait for.
Advances ==
    /\ \/ status = "offered" /\ status' = "paid"
       \/ status = "paid" /\ status' = "done"
    /\ was' = IF was # {} /\ HasAccess THEN was \cup {status'} ELSE was
    /\ UNCHANGED <<outside, local, shown, pictures, files>>

\* A poll's answer, fresh or old: one that is overtaken takes the page back.
TakePoll(s) ==
    /\ s \in was
    /\ shown' = s
    /\ ShowsPreview(s)
    /\ recoveries' = IF s = "done" THEN recoveries ELSE Orphaned
    /\ torn' = [f \in Formats |->
                  IF s # "done" /\ \E t \in Tries : Owns(t) /\ recoveries[t].resume = f
                  THEN torn[f] + 1 ELSE torn[f]]
    /\ FoldFunction(+, 0, torn') <= MaxTorn
    /\ UNCHANGED <<outside, local, status, was, section, downloads, clicks, handed>>

\* The tab is closed or loaded again: nobody takes the answers on their way.
ClosePage ==
    /\ shown # "closed"
    /\ shown' = "closed"
    /\ was' = {}
    /\ preview' = NoPreview
    /\ loads' = NoLoads
    /\ section' = NoSection
    /\ downloads' = [s \in Slots |-> NoDownload]
    /\ recoveries' = [t \in Tries |-> NoRecovery]
    /\ UNCHANGED <<outside, local, status, counts>>

SessionEnds ==
    /\ cookie = "session"
    /\ cookie' \in {"token", "none"}
    /\ UNCHANGED <<document, account, local, page, pictures, files>>

\* Another tab recovers the key, or the browser's data is cleared.
OtherTabStores ==
    /\ local' \in {account, None} \ {local}
    /\ UNCHANGED <<outside, page, pictures, files>>

\* The profile page replaces the pair, in this browser or in another one; the
\* documents keep the key they were encrypted with.
Rotates ==
    /\ account' \in Keys \ {account}
    /\ local' \in {local, account'}
    /\ UNCHANGED <<document, cookie, page, pictures, files>>

-----------------------------------------------------------------------------
(* The preview.                                                            *)

Asks(i)    == loads' = [loads EXCEPT ![i] = "sent"]
Answered(i, a) == loads' = [loads EXCEPT ![i] = a]
HasPages   == preview.pages # None /\ ~preview.error

\* "Refresh", where nothing or not every picture could be shown.
Refresh(i) ==
    /\ shown = "offered"
    /\ preview.error \/ preview.broken # 0
    /\ loads[i] = "no" /\ \A j \in Loads : loads[j] = "no" => i <= j
    /\ Calls < MaxCalls
    /\ Asks(i)
    /\ preview' = [preview EXCEPT !.error = FALSE, !.broken = 0]
    /\ UNCHANGED <<outside, local, page, files>>

ServePreview(i) ==
    /\ loads[i] = "sent"
    /\ HasAccess
    /\ Answered(i, "ok")
    /\ UNCHANGED <<outside, local, page, preview, files>>

\* No access, a failure, or a lost answer.
RefusePreview(i) ==
    /\ loads[i] = "sent"
    /\ Answered(i, "no")
    /\ preview' = [preview EXCEPT !.error = TRUE]
    /\ UNCHANGED <<outside, local, page, files>>

\* An answer neither takes an earlier error back nor forgets what was broken.
TakePreview(i) ==
    /\ loads[i] = "ok"
    /\ Answered(i, "no")
    /\ preview' = [preview EXCEPT !.pages = NumPages]
    /\ UNCHANGED <<outside, local, page, files>>

PictureBreaks ==
    /\ HasPages /\ preview.broken < preview.pages
    /\ preview' = [preview EXCEPT !.broken = @ + 1]
    /\ UNCHANGED <<outside, local, page, loads, files>>

OpenPicture(p) ==
    /\ HasPages /\ preview.broken < preview.pages
    /\ preview.openAt = 0
    /\ preview' = [preview EXCEPT !.openAt = p]
    /\ UNCHANGED <<outside, local, page, loads, files>>

\* By button or arrow key, which stays in force while an error hides the page.
TurnPicture(p) ==
    /\ preview.openAt # 0
    /\ p \in {preview.openAt - 1, preview.openAt + 1}
    /\ p \in 1..preview.pages
    /\ preview' = [preview EXCEPT !.openAt = p]
    /\ UNCHANGED <<outside, local, page, loads, files>>

ClosePicture ==
    /\ preview.openAt # 0
    /\ preview' = [preview EXCEPT !.openAt = 0]
    /\ UNCHANGED <<outside, local, page, loads, files>>

-----------------------------------------------------------------------------
(* The download.                                                           *)

\* The next slot; which one it is means nothing.
IsFree(s) == downloads[s].at = "no" /\ \A t \in Slots : downloads[t].at = "no" => s <= t

Starts(s, f) == downloads' = [downloads EXCEPT ![s] = [at |-> "info", fmt |-> f, key |-> None]]
Moves(s, at) == downloads' = [downloads EXCEPT ![s].at = at]
Ends(s)      == downloads' = [downloads EXCEPT ![s] = NoDownload]

ClickDownload(s, f) ==
    /\ shown = "done"
    /\ section.downloading = None
    /\ IsFree(s)
    /\ FoldFunction(+, 0, clicks) < MaxClicks
    /\ Calls < MaxCalls
    /\ clicks' = [clicks EXCEPT ![f] = @ + 1]
    /\ Starts(s, f)
    /\ section' = [section EXCEPT !.downloading = f]
    /\ UNCHANGED <<outside, local, page, pictures, recoveries, handed, torn>>

ServeInfo(s) ==
    /\ downloads[s].at = "info"
    /\ HasAccess
    /\ Moves(s, "told")
    /\ UNCHANGED <<outside, local, page, pictures, section, recoveries, counts>>

\* The file comes from the storage, by the address the info gave.
ServeFile(s) ==
    /\ downloads[s].at = "bytes"
    /\ Moves(s, "got")
    /\ UNCHANGED <<outside, local, page, pictures, section, recoveries, counts>>

HandsOver(f) == handed' = [handed EXCEPT ![f] = @ + 1]

\* A plain file is only a link to follow.
TakePlain(s) ==
    /\ downloads[s].at = "told"
    /\ document = None
    /\ HandsOver(downloads[s].fmt)
    /\ Ends(s)
    /\ section' = [section EXCEPT !.downloading = None]
    /\ UNCHANGED <<outside, local, page, pictures, recoveries, clicks, torn>>

\* Faulty: does not come to the finally.
MissesKeyBusy(s) ==
    /\ downloads[s].at = "told"
    /\ document # None
    /\ local = None
    /\ section' = [section EXCEPT !.pending = downloads[s].fmt]
    /\ Ends(s)
    /\ UNCHANGED <<outside, local, page, pictures, recoveries, counts>>

\* MissingKeyError: the form to recover the key is shown.
MissesKey(s) ==
    /\ downloads[s].at = "told"
    /\ document # None
    /\ local = None
    /\ section' = [section EXCEPT !.pending = downloads[s].fmt, !.downloading = None]
    /\ Ends(s)
    /\ UNCHANGED <<outside, local, page, pictures, recoveries, counts>>

\* The key is read now, the file comes later.
ReadsKey(s) ==
    /\ downloads[s].at = "told"
    /\ document # None
    /\ local # None
    /\ downloads' = [downloads EXCEPT ![s].at = "bytes", ![s].key = local]
    /\ UNCHANGED <<outside, local, page, pictures, section, recoveries, counts>>

\* decryptFile: only the document's own key opens it.
OpensFile(s) ==
    /\ downloads[s].at = "got"
    /\ downloads[s].key = document
    /\ HandsOver(downloads[s].fmt)
    /\ Ends(s)
    /\ section' = [section EXCEPT !.downloading = None]
    /\ UNCHANGED <<outside, local, page, pictures, recoveries, clicks, torn>>

\* No access, an address that has expired, a failure, a lost answer, or another
\* key than the document's.
TakeFailure(s) ==
    /\ \/ downloads[s].at \in {"info", "bytes"}
       \/ downloads[s].at = "got" /\ downloads[s].key # document
    /\ Ends(s)
    /\ section' = [section EXCEPT !.downloading = None]
    /\ UNCHANGED <<outside, local, page, pictures, recoveries, counts>>

-----------------------------------------------------------------------------
(* The recovery of the key, and what it repeats.                           *)

\* One call at a time for a form; it keeps the onRecovered of the page as it is
\* now.  A form that has come back knows nothing of the calls of an earlier one.
FreeTry(t)  == ~Runs(t) /\ \A u \in Tries : ~Runs(u) => t <= u
Becomes(t, r) == recoveries' = [recoveries EXCEPT ![t] = r]

Recover(t, how, k) ==
    /\ shown = "done" /\ section.pending # None
    /\ \A u \in Tries : ~Owns(u)
    /\ FreeTry(t)
    /\ Calls < MaxCalls
    /\ Becomes(t, [at |-> "sent", how |-> how, key |-> k, resume |-> section.pending,
                   own |-> TRUE])
    /\ UNCHANGED <<outside, local, page, pictures, section, downloads, counts>>

\* The customer has any key file, or types the phrase.
RecoverByFile(t, k) == Recover(t, "file", k)
RecoverByPhrase(t)  == Recover(t, "phrase", None)

\* recover_access asks for no session; without a backup it refuses.
ServeBackup(t) ==
    /\ recoveries[t].at = "sent" /\ recoveries[t].how = "phrase"
    /\ Becomes(t, [recoveries[t] EXCEPT !.at = "backup", !.key = account])
    /\ UNCHANGED <<outside, local, page, pictures, section, downloads, counts>>

\* The private key is stored before its public half is asked for.
TakeBackup(t) ==
    /\ recoveries[t].at = "backup"
    /\ Becomes(t, [recoveries[t] EXCEPT !.at = "half", !.key = None])
    /\ local' = recoveries[t].key
    /\ UNCHANGED <<outside, page, pictures, section, downloads, counts>>

\* GET users/me is for the account's session only; a file has to be of its key.
ServeMe(t) ==
    /\ \/ recoveries[t].at = "sent" /\ recoveries[t].how = "file"
          /\ recoveries[t].key = account
       \/ recoveries[t].at = "half"
    /\ cookie = "session"
    /\ Becomes(t, [recoveries[t] EXCEPT !.at = "ok"])
    /\ UNCHANGED <<outside, local, page, pictures, section, downloads, counts>>

StoresKey(r) == local' = IF r.how = "file" THEN r.key ELSE local

\* Faulty: repeats the download and leaves the form where it is.
ResumesOpenForm(t, s) ==
    /\ recoveries[t].at = "ok"
    /\ IsFree(s)
    /\ StoresKey(recoveries[t])
    /\ Becomes(t, NoRecovery)
    /\ Starts(s, recoveries[t].resume)
    /\ section' = [section EXCEPT !.downloading = recoveries[t].resume]
    /\ UNCHANGED <<outside, page, pictures, counts>>

\* onRecovered: the wish is taken back, and with it the form if there is one,
\* and the download the form was shown for when this recovery was started is
\* repeated, whatever else is under way and whatever the page shows.
Resumes(t, s) ==
    /\ recoveries[t].at = "ok"
    /\ IsFree(s)
    /\ StoresKey(recoveries[t])
    /\ recoveries' = [Orphaned EXCEPT ![t] = NoRecovery]
    /\ Starts(s, recoveries[t].resume)
    /\ section' = [downloading |-> recoveries[t].resume, pending |-> None]
    /\ UNCHANGED <<outside, page, pictures, counts>>

\* Faulty: the form goes although nothing was recovered.
TakeRefusalAndGo(t) ==
    /\ recoveries[t].at \in {"sent", "backup", "half"}
    /\ Becomes(t, NoRecovery)
    /\ section' = [section EXCEPT !.pending = None]
    /\ UNCHANGED <<outside, local, page, pictures, downloads, counts>>

\* A wrong file or phrase, no session, no backup, a failure, or a lost answer:
\* the form says why, if it is there, and stays.
TakeRefusal(t) ==
    /\ recoveries[t].at \in {"sent", "backup", "half"}
    /\ Becomes(t, NoRecovery)
    /\ UNCHANGED <<outside, local, page, pictures, section, downloads, counts>>

-----------------------------------------------------------------------------
PreviewAnswers == \E i \in Loads : ServePreview(i) \/ RefusePreview(i) \/ TakePreview(i)

Downloading(s) ==
    \/ ServeInfo(s) \/ ServeFile(s)
    \/ TakePlain(s) \/ MissesKey(s) \/ ReadsKey(s) \/ OpensFile(s) \/ TakeFailure(s)

Recovering(t) ==
    \/ ServeBackup(t) \/ TakeBackup(t) \/ ServeMe(t) \/ TakeRefusal(t)
    \/ \E s \in Slots : Resumes(t, s)

Customer ==
    \/ OpenPage \/ Advances \/ ClosePage \/ SessionEnds \/ OtherTabStores \/ Rotates
    \/ \E s \in Statuses : TakePoll(s)
    \/ \E i \in Loads : Refresh(i)
    \/ PictureBreaks \/ ClosePicture
    \/ \E p \in Pages : OpenPicture(p) \/ TurnPicture(p)
    \/ \E s \in Slots, f \in Formats : ClickDownload(s, f)
    \/ \E t \in Tries : RecoverByPhrase(t) \/ \E k \in Keys : RecoverByFile(t, k)

Next ==
    \/ PreviewAnswers
    \/ \E s \in Slots : Downloading(s)
    \/ \E t \in Tries : Recovering(t)
    \/ Customer

Spec == Init /\ [][Next]_vars

=============================================================================
