------------------------- MODULE DocumentViewProofs -------------------------
(***************************************************************************)
(* Previews, downloads and recoveries overlap on a page that polls take    *)
(* forward and back: no dead spinner, no wish lost, and no file that was   *)
(* not clicked for, but for the recoveries that were torn from their form. *)
(* For any keys, formats, pictures and any number of requests at once.     *)
(***************************************************************************)
EXTENDS DocumentViewsProperties, FiniteSetTheorems, TLAPS

DownloadSet == [at : {"no", "info", "told", "bytes", "got"}, fmt : MaybeFormat, key : MaybeKey]
TrySet == [at : {"no", "sent", "backup", "half", "ok"}, how : {"file", "phrase"},
           key : MaybeKey, resume : MaybeFormat, own : BOOLEAN]

PreviewSet == [pages : {0, NumPages, None}, error : BOOLEAN,
               broken : 0..NumPages, openAt : 0..NumPages]

\* The half of the preview.
PreviewInv ==
    /\ preview \in [pages : {0, NumPages, None}, error : BOOLEAN,
                    broken : 0..NumPages, openAt : 0..NumPages]
    /\ loads \in [Loads -> {"no", "sent", "ok"}]
    /\ SpinnerIsBusy
    /\ PictureIsThere
    /\ shown # "offered" => preview = NoPreview /\ loads = NoLoads

\* The half of the files.
FilesInv ==
    /\ section \in [downloading : MaybeFormat, pending : MaybeFormat]
    /\ downloads \in [Slots -> DownloadSet]
    /\ recoveries \in [Tries -> TrySet]
    /\ clicks \in [Formats -> Nat]
    /\ handed \in [Formats -> Nat]
    /\ torn \in [Formats -> Nat]
    /\ ButtonsAreBusy
    /\ RecoveriesFit
    /\ shown = "closed" => /\ was = {} /\ section = NoSection
                           /\ \A t \in Tries : ~Runs(t)
                           /\ \A s \in Slots : downloads[s].at = "no"
    /\ \A s \in Slots : downloads[s].at # "no" => downloads[s].fmt \in Formats

\* What both read.
OutsideInv ==
    /\ document \in MaybeKey
    /\ account \in Keys
    /\ cookie \in {"session", "token", "none"}
    /\ local \in MaybeKey
    /\ status \in Statuses
    /\ was \subseteq Statuses
    /\ shown \in Statuses \cup {"closed"}

LEMMA Halves == ViewsInv <=> PreviewInv /\ FilesInv /\ OutsideInv
BY DEF ViewsInv, TypeOK, PreviewInv, FilesInv, OutsideInv, PartsAreShown, DownloadSet, TrySet

LEMMA HalvesNext == PreviewInv' /\ FilesInv' /\ OutsideInv' => ViewsInv'
BY DEF ViewsInv, TypeOK, PreviewInv, FilesInv, OutsideInv, PartsAreShown, DownloadSet, TrySet

LEMMA Empty == NoDownload \in DownloadSet /\ NoRecovery \in TrySet
BY DEF NoDownload, NoRecovery, DownloadSet, TrySet, MaybeKey, MaybeFormat

\* Where no form is there, none can go.
LEMMA NobodyOwns == [NoRecovery EXCEPT !.own = FALSE] = NoRecovery
<1>1. \A r \in TrySet : r.own = FALSE => [r EXCEPT !.own = FALSE] = r
  BY DEF TrySet
<1>2. NoRecovery.own = FALSE
  BY DEF NoRecovery
<1> QED
  BY <1>1, <1>2, Empty

LEMMA InitViews == Init => ViewsInv
<1> SUFFICES ASSUME Init PROVE PreviewInv /\ FilesInv /\ OutsideInv
  BY Halves
<1> USE ViewsAssumption DEF Init
<1>1. PreviewInv
  BY DEF PreviewInv, NoPreview, NoLoads, SpinnerIsBusy, PictureIsThere
<1>2. FilesInv
  <2>1. section \in [downloading : MaybeFormat, pending : MaybeFormat] /\ ButtonsAreBusy
    BY DEF NoSection, MaybeFormat, ButtonsAreBusy
  <2>2. downloads \in [Slots -> DownloadSet] /\ recoveries \in [Tries -> TrySet]
    BY Empty
  <2>3. \A s \in Slots : downloads[s].at = "no"
    BY DEF NoDownload
  <2>4. \A t \in Tries : ~Runs(t) /\ ~Owns(t) /\ recoveries[t] = NoRecovery
    BY DEF Runs, Owns, NoRecovery
  <2> QED
    BY <2>1, <2>2, <2>3, <2>4 DEF FilesInv, RecoveriesFit
<1>3. OutsideInv
  BY DEF OutsideInv, Statuses
<1> QED
  BY <1>1, <1>2, <1>3

-----------------------------------------------------------------------------
(* The preview.                                                            *)

\* Loads, answers and pictures: the other half and what both read stay.
PreviewStep ==
    \/ PreviewAnswers
    \/ \E i \in Loads : Refresh(i)
    \/ PictureBreaks \/ ClosePicture
    \/ \E p \in Pages : OpenPicture(p) \/ TurnPicture(p)

LEMMA FilesStay == FilesInv /\ UNCHANGED <<page, files>> => FilesInv'
BY DEF FilesInv, page, files, counts, ButtonsAreBusy, RecoveriesFit, Runs, Owns

\* A fresh try forgets what was broken, and nothing else.
LEMMA Cleared ==
    PreviewInv => LET p == [preview EXCEPT !.error = FALSE, !.broken = 0]
                  IN  /\ p \in PreviewSet
                      /\ p.pages = preview.pages /\ p.openAt = preview.openAt
<1>1. \A p \in PreviewSet : LET q == [p EXCEPT !.error = FALSE]
                            IN  /\ q \in PreviewSet
                                /\ q.pages = p.pages /\ q.openAt = p.openAt
  BY DEF PreviewSet
<1>2. \A p \in PreviewSet : LET q == [p EXCEPT !.broken = 0]
                            IN  /\ q \in PreviewSet
                                /\ q.pages = p.pages /\ q.openAt = p.openAt
  BY ViewsAssumption DEF PreviewSet
<1>3. [preview EXCEPT !.error = FALSE, !.broken = 0]
        = [[preview EXCEPT !.error = FALSE] EXCEPT !.broken = 0]
  OBVIOUS
<1> QED
  BY <1>1, <1>2, <1>3 DEF PreviewInv, PreviewSet

LEMMA PreviewKeeps == ViewsInv /\ PreviewStep => ViewsInv'
<1> SUFFICES ASSUME PreviewInv, FilesInv, OutsideInv, PreviewStep
             PROVE  PreviewInv' /\ FilesInv' /\ OutsideInv'
  BY Halves, HalvesNext
<1> USE ViewsAssumption
<1>1. UNCHANGED <<outside, local, page, files>>
  BY DEF PreviewStep, PreviewAnswers, ServePreview, RefusePreview, TakePreview, Refresh,
     PictureBreaks, OpenPicture, TurnPicture, ClosePicture
<1>2. FilesInv' /\ OutsideInv'
  BY <1>1, FilesStay DEF page, outside, OutsideInv
<1>3. PreviewInv'
  <2>0. shown' = shown
    BY <1>1 DEF page
  <2> USE <2>0 DEF PreviewInv, SpinnerIsBusy, PictureIsThere, Answered, Asks, HasPages
  <2>1. ASSUME NEW i \in Loads, ServePreview(i) PROVE PreviewInv'
    BY <2>1 DEF ServePreview, NoLoads
  <2>2. ASSUME NEW i \in Loads, TakePreview(i) PROVE PreviewInv'
    BY <2>2 DEF TakePreview, NoLoads
  <2>3. ASSUME NEW i \in Loads, RefusePreview(i) PROVE PreviewInv'
    BY <2>3 DEF RefusePreview, NoLoads
  <2>4. ASSUME NEW i \in Loads, Refresh(i) PROVE PreviewInv'
    <3>1. shown = "offered" /\ loads' = [loads EXCEPT ![i] = "sent"]
          /\ preview' = [preview EXCEPT !.error = FALSE, !.broken = 0]
      BY <2>4 DEF Refresh
    <3>2. /\ preview' \in PreviewSet
          /\ preview'.pages = preview.pages /\ preview'.openAt = preview.openAt
      BY <3>1, Cleared
    <3>3. loads' \in [Loads -> {"no", "sent", "ok"}] /\ loads'[i] = "sent"
      BY <3>1
    <3> QED
      BY <3>1, <3>2, <3>3 DEF PreviewSet
  <2>5. CASE PictureBreaks
    BY <2>5 DEF PictureBreaks, NoPreview
  <2>6. ASSUME NEW p \in Pages, OpenPicture(p) PROVE PreviewInv'
    BY <2>6 DEF OpenPicture, NoPreview, Pages
  <2>7. ASSUME NEW p \in Pages, TurnPicture(p) PROVE PreviewInv'
    BY <2>7 DEF TurnPicture, NoPreview, Pages
  <2>8. CASE ClosePicture
    BY <2>8 DEF ClosePicture, NoPreview
  <2> QED
    BY <2>1, <2>2, <2>3, <2>4, <2>5, <2>6, <2>7, <2>8 DEF PreviewStep, PreviewAnswers
<1> QED
  BY <1>2, <1>3

\* Steps of downloads and recoveries leave the preview alone.
LEMMA PreviewStays == PreviewInv /\ shown' = shown /\ UNCHANGED pictures => PreviewInv'
BY DEF PreviewInv, pictures, SpinnerIsBusy, PictureIsThere

\* A preview that comes asks at once.
LEMMA ShownPreview ==
    ASSUME PreviewInv, NEW s \in Statuses, ShowsPreview(s), shown' = s
    PROVE  PreviewInv'
<1> USE ViewsAssumption DEF PreviewInv, SpinnerIsBusy, PictureIsThere
<1>1. CASE s = "offered" /\ shown = "offered"
  BY <1>1 DEF ShowsPreview, pictures
<1>2. CASE s = "offered" /\ shown # "offered"
  <2> PICK i \in Loads : loads' = [NoLoads EXCEPT ![i] = "sent"]
    BY <1>2 DEF ShowsPreview
  <2>1. preview' = NoPreview
    BY <1>2 DEF ShowsPreview
  <2> QED
    BY <1>2, <2>1 DEF NoPreview, NoLoads
<1>3. CASE s # "offered"
  <2>1. preview' = NoPreview /\ loads' = NoLoads
    BY <1>3 DEF ShowsPreview
  <2> QED
    BY <1>3, <2>1 DEF NoPreview, NoLoads
<1> QED
  BY <1>1, <1>2, <1>3

-----------------------------------------------------------------------------
(* The download.                                                           *)

\* A slot's download that starts, moves or ends.
LEMMA SlotWrite ==
    ASSUME FilesInv, NEW s \in Slots, NEW new \in DownloadSet,
           downloads' = [downloads EXCEPT ![s] = new]
    PROVE  /\ downloads'[s] = new
           /\ \A t \in Slots \ {s} : downloads'[t] = downloads[t]
           /\ downloads' \in [Slots -> DownloadSet]
BY DEF FilesInv

\* An end takes the buttons' spinner along, whatever else is under way.
LEMMA EndKeeps ==
    ASSUME FilesInv, NEW s \in Slots, Ends(s), shown # "closed", shown' = shown,
           section' \in [downloading : {None}, pending : MaybeFormat],
           section'.pending = section.pending \/ section'.pending # None,
           recoveries' = recoveries, clicks' = clicks, torn' = torn,
           handed' \in [Formats -> Nat]
    PROVE  FilesInv'
<1> USE ViewsAssumption
<1>1. /\ downloads'[s] = NoDownload
      /\ \A t \in Slots \ {s} : downloads'[t] = downloads[t]
      /\ downloads' \in [Slots -> DownloadSet]
  BY Empty, SlotWrite DEF Ends
<1>2. section' \in [downloading : MaybeFormat, pending : MaybeFormat]
  BY DEF MaybeFormat
<1>3. \A t \in Slots : downloads'[t].at # "no" => downloads'[t].fmt \in Formats
  BY <1>1 DEF FilesInv, NoDownload
<1>4. ButtonsAreBusy'
  BY DEF ButtonsAreBusy
<1>5. RecoveriesFit'
  BY DEF RecoveriesFit, FilesInv, Runs, Owns
<1> QED
  BY <1>1, <1>2, <1>3, <1>4, <1>5 DEF FilesInv

\* A start makes the buttons wait for it.
LEMMA StartKeeps ==
    ASSUME FilesInv, NEW s \in Slots, NEW f \in Formats, Starts(s, f),
           shown # "closed", shown' = shown,
           section' \in [downloading : {f}, pending : MaybeFormat],
           recoveries' \in [Tries -> TrySet], RecoveriesFit',
           handed' = handed, torn' = torn, clicks' \in [Formats -> Nat]
    PROVE  FilesInv'
<1> USE ViewsAssumption
<1> DEFINE new == [at |-> "info", fmt |-> f, key |-> None]
<1>1. new \in DownloadSet
  BY DEF MaybeFormat, MaybeKey, DownloadSet
<1>2. /\ downloads'[s] = new
      /\ \A t \in Slots \ {s} : downloads'[t] = downloads[t]
      /\ downloads' \in [Slots -> DownloadSet]
  BY <1>1, SlotWrite DEF Starts
<1>3. section' \in [downloading : MaybeFormat, pending : MaybeFormat]
  BY DEF MaybeFormat
<1>4. ButtonsAreBusy'
  BY <1>2 DEF ButtonsAreBusy
<1>5. \A t \in Slots : downloads'[t].at # "no" => downloads'[t].fmt \in Formats
  BY <1>2 DEF FilesInv
<1> QED
  BY <1>2, <1>3, <1>4, <1>5 DEF FilesInv

\* A request that moves on keeps its format.
LEMMA MoveKeeps ==
    ASSUME FilesInv, OutsideInv, NEW s \in Slots, downloads[s].at # "no",
           \/ \E at \in {"told", "got"} : Moves(s, at)
           \/ downloads' = [downloads EXCEPT ![s].at = "bytes", ![s].key = local],
           UNCHANGED <<page, section, recoveries, counts>>
    PROVE  FilesInv'
<1>1. \A t \in Slots : /\ downloads'[t].fmt = downloads[t].fmt
                       /\ downloads'[t].at = "no" <=> downloads[t].at = "no"
  BY SMTT(30) DEF Moves, FilesInv, DownloadSet
<1>2. downloads' \in [Slots -> DownloadSet]
  BY DEF Moves, FilesInv, OutsideInv, DownloadSet
<1>3. ButtonsAreBusy' /\ RecoveriesFit'
  BY <1>1 DEF FilesInv, ButtonsAreBusy, RecoveriesFit, Runs, Owns, page
<1> QED
  BY <1>1, <1>2, <1>3 DEF FilesInv, counts, page, Runs

LEMMA DownloadingKeeps ==
    ASSUME ViewsInv, NEW s \in Slots, Downloading(s)
    PROVE  ViewsInv'
<1> USE ViewsAssumption
<1>1. PreviewInv /\ FilesInv /\ OutsideInv
  BY Halves
<1>2. UNCHANGED <<outside, local, page, pictures, recoveries, clicks, torn>>
  BY DEF Downloading, ServeInfo, ServeFile, TakePlain, MissesKey, ReadsKey, OpensFile,
     TakeFailure, counts
<1>3. PreviewInv' /\ OutsideInv' /\ shown' = shown
  BY <1>1, <1>2, PreviewStays DEF OutsideInv, outside, page
<1>4. downloads[s].at # "no" /\ downloads[s].fmt \in Formats /\ shown # "closed"
  BY <1>1 DEF Downloading, ServeInfo, ServeFile, TakePlain, MissesKey, ReadsKey, OpensFile,
     TakeFailure, FilesInv
<1>5. CASE ServeInfo(s) \/ ServeFile(s) \/ ReadsKey(s)
  <2>1. \/ \E at \in {"told", "got"} : Moves(s, at)
        \/ downloads' = [downloads EXCEPT ![s].at = "bytes", ![s].key = local]
    BY <1>5 DEF ServeInfo, ServeFile, ReadsKey
  <2>2. UNCHANGED <<page, section, recoveries, counts>>
    BY <1>5 DEF ServeInfo, ServeFile, ReadsKey
  <2>3. FilesInv'
    BY <1>1, <1>4, <2>1, <2>2, MoveKeeps
  <2> QED
    BY <1>3, <2>3, HalvesNext
<1>6. CASE TakePlain(s) \/ OpensFile(s) \/ MissesKey(s) \/ TakeFailure(s)
  <2>1. Ends(s)
    BY <1>6 DEF TakePlain, OpensFile, MissesKey, TakeFailure
  <2>2. handed' \in [Formats -> Nat]
    BY <1>1, <1>4, <1>6
       DEF TakePlain, OpensFile, MissesKey, TakeFailure, HandsOver, FilesInv, counts
  <2>3. /\ section' \in [downloading : {None}, pending : MaybeFormat]
        /\ section'.pending = section.pending \/ section'.pending # None
    BY <1>1, <1>4, <1>6
       DEF TakePlain, OpensFile, MissesKey, TakeFailure, FilesInv, MaybeFormat
  <2>4. FilesInv'
    BY <1>1, <1>2, <1>3, <1>4, <2>1, <2>2, <2>3, EndKeeps
  <2> QED
    BY <1>3, <2>4, HalvesNext
<1> QED
  BY <1>5, <1>6 DEF Downloading

-----------------------------------------------------------------------------
(* The recovery of the key.                                                *)

\* A call that starts, moves or ends.
LEMMA TryWrite ==
    ASSUME FilesInv, NEW t \in Tries, NEW new \in TrySet, Becomes(t, new)
    PROVE  /\ recoveries'[t] = new
           /\ \A u \in Tries \ {t} : recoveries'[u] = recoveries[u]
           /\ recoveries' \in [Tries -> TrySet]
BY DEF FilesInv, Becomes

\* The steps of a recovery until its download is repeated: what its form is
\* for and whether it is there stay.
TryStep(t) ==
    ServeBackup(t) \/ TakeBackup(t) \/ ServeMe(t)

LEMMA TryMoves ==
    ASSUME FilesInv, OutsideInv, NEW t \in Tries, TryStep(t)
    PROVE  /\ recoveries' \in [Tries -> TrySet]
           /\ Runs(t) /\ Runs(t)'
           /\ recoveries'[t].resume = recoveries[t].resume
           /\ recoveries'[t].own = recoveries[t].own
           /\ \A u \in Tries \ {t} : recoveries'[u] = recoveries[u]
           /\ local' \in MaybeKey
           /\ UNCHANGED <<outside, page, pictures, section, downloads, counts>>
<1> recoveries[t] \in TrySet
  BY DEF FilesInv
<1>1. CASE ServeBackup(t)
  <2> DEFINE new == [recoveries[t] EXCEPT !.at = "backup", !.key = account]
  <2>1. new \in TrySet /\ new.at = "backup" /\ new.resume = recoveries[t].resume
        /\ new.own = recoveries[t].own
    BY DEF OutsideInv, TrySet, MaybeKey
  <2>2. Becomes(t, new)
    BY <1>1 DEF ServeBackup
  <2> HIDE DEF new
  <2> QED
    BY <1>1, <2>1, <2>2, TryWrite DEF ServeBackup, Runs, OutsideInv
<1>2. CASE TakeBackup(t)
  <2> DEFINE new == [recoveries[t] EXCEPT !.at = "half", !.key = None]
  <2>1. new \in TrySet /\ new.at = "half" /\ new.resume = recoveries[t].resume
        /\ new.own = recoveries[t].own
    BY DEF TrySet, MaybeKey
  <2>2. Becomes(t, new)
    BY <1>2 DEF TakeBackup
  <2>3. local' \in MaybeKey
    BY <1>2 DEF TakeBackup, TrySet
  <2> HIDE DEF new
  <2> QED
    BY <1>2, <2>1, <2>2, <2>3, TryWrite DEF TakeBackup, Runs
<1>3. CASE ServeMe(t)
  <2> DEFINE new == [recoveries[t] EXCEPT !.at = "ok"]
  <2>1. new \in TrySet /\ new.at = "ok" /\ new.resume = recoveries[t].resume
        /\ new.own = recoveries[t].own
    BY DEF TrySet
  <2>2. Becomes(t, new)
    BY <1>3 DEF ServeMe
  <2> HIDE DEF new
  <2> QED
    BY <1>3, <2>1, <2>2, TryWrite DEF ServeMe, Runs, OutsideInv
<1> QED
  BY <1>1, <1>2, <1>3 DEF TryStep

\* What a recovery's step leaves of the rest.
LEMMA RestOfRecovery ==
    ASSUME FilesInv, UNCHANGED <<page, section, downloads, counts>>,
           recoveries' \in [Tries -> TrySet], RecoveriesFit', shown # "closed"
    PROVE  FilesInv'
BY DEF FilesInv, page, counts, ButtonsAreBusy

LEMMA TryKeeps ==
    ASSUME ViewsInv, NEW t \in Tries,
           \/ TryStep(t) \/ TakeRefusal(t)
           \/ RecoverByPhrase(t) \/ \E k \in Keys : RecoverByFile(t, k)
    PROVE  ViewsInv'
<1> USE ViewsAssumption
<1>1. PreviewInv /\ FilesInv /\ OutsideInv /\ RecoveriesFit
  BY Halves DEF FilesInv
<1>2. UNCHANGED <<outside, page, pictures, section, downloads, counts>>
  BY DEF TryStep, ServeBackup, TakeBackup, ServeMe, TakeRefusal, RecoverByPhrase,
     RecoverByFile, Recover
<1>3. local' \in MaybeKey
  BY <1>1, TryMoves DEF TakeRefusal, RecoverByPhrase, RecoverByFile, Recover, OutsideInv
<1>4. shown' = shown /\ section' = section /\ shown # "closed"
  BY <1>1, <1>2 DEF page, FilesInv, Runs, NoSection, TryStep, ServeBackup, TakeBackup, ServeMe,
     TakeRefusal, RecoverByPhrase, RecoverByFile, Recover
<1>5. recoveries' \in [Tries -> TrySet] /\ RecoveriesFit'
  <2>1. CASE TryStep(t)
    <3>1. \A u \in Tries : /\ Runs(u)' <=> Runs(u)
                           /\ Owns(u)' <=> Owns(u)
                           /\ Runs(u) => recoveries'[u].resume = recoveries[u].resume
                           /\ ~Runs(u) => recoveries'[u] = recoveries[u]
      BY <1>1, <2>1, TryMoves DEF Runs, Owns
    <3>2. RecoveriesFit'
      BY <1>1, <1>4, <3>1 DEF RecoveriesFit
    <3> QED
      BY <1>1, <2>1, <3>2, TryMoves
  <2>2. CASE TakeRefusal(t)
    <3>1. /\ recoveries'[t] = NoRecovery
          /\ \A u \in Tries \ {t} : recoveries'[u] = recoveries[u]
          /\ recoveries' \in [Tries -> TrySet]
      BY <1>1, <2>2, Empty, TryWrite DEF TakeRefusal
    <3>2. ~Runs(t)' /\ ~Owns(t)'
      BY <3>1 DEF Runs, Owns, NoRecovery
    <3>3. \A u \in Tries \ {t} : (Runs(u)' <=> Runs(u)) /\ (Owns(u)' <=> Owns(u))
      BY <3>1 DEF Runs, Owns
    <3> QED
      BY <1>1, <1>4, <3>1, <3>2, <3>3 DEF RecoveriesFit
  <2>3. CASE RecoverByPhrase(t) \/ \E k \in Keys : RecoverByFile(t, k)
    <3> PICK how \in {"file", "phrase"}, k \in MaybeKey : Recover(t, how, k)
      BY <2>3 DEF RecoverByPhrase, RecoverByFile, MaybeKey
    <3> DEFINE new == [at |-> "sent", how |-> how, key |-> k, resume |-> section.pending,
                       own |-> TRUE]
    <3>1. section.pending \in Formats /\ shown = "done" /\ \A u \in Tries : ~Owns(u)
      BY <1>1 DEF Recover, FilesInv, MaybeFormat
    <3>2. new \in TrySet /\ new.at # "no" /\ new.resume \in Formats
      BY <3>1 DEF TrySet, MaybeFormat
    <3>3. Becomes(t, new)
      BY DEF Recover
    <3> HIDE DEF new
    <3>4. /\ recoveries'[t] = new
          /\ \A u \in Tries \ {t} : recoveries'[u] = recoveries[u]
          /\ recoveries' \in [Tries -> TrySet]
      BY <1>1, <3>2, <3>3, TryWrite
    <3>5. Runs(t)' /\ \A u \in Tries \ {t} : (Runs(u)' <=> Runs(u)) /\ ~Owns(u)'
      BY <3>1, <3>2, <3>4 DEF Runs, Owns
    <3> QED
      BY <1>1, <1>4, <3>1, <3>2, <3>4, <3>5 DEF RecoveriesFit
  <2> QED
    BY <2>1, <2>2, <2>3
<1>6. FilesInv'
  BY <1>1, <1>2, <1>4, <1>5, RestOfRecovery
<1>7. PreviewInv' /\ OutsideInv'
  BY <1>1, <1>2, <1>3, <1>4, PreviewStays DEF OutsideInv, outside, page
<1> QED
  BY <1>6, <1>7, HalvesNext

\* A recovery that succeeds takes the form away, if it is there, from whichever
\* recovery that has one.
LEMMA Resumed ==
    ASSUME FilesInv, NEW t \in Tries, NEW s \in Slots, Resumes(t, s)
    PROVE  /\ recoveries' \in [Tries -> TrySet]
           /\ recoveries'[t] = NoRecovery
           /\ \A u \in Tries \ {t} : recoveries'[u] = [recoveries[u] EXCEPT !.own = FALSE]
           /\ Runs(t) /\ ~Runs(t)'
           /\ \A u \in Tries : ~Owns(u)'
           /\ \A u \in Tries \ {t} : /\ Runs(u)' <=> Runs(u)
                                     /\ recoveries'[u].resume = recoveries[u].resume
           /\ recoveries[t].resume \in Formats
           /\ shown # "closed"
<1>1. recoveries' = [Orphaned EXCEPT ![t] = NoRecovery] /\ recoveries[t].at = "ok"
  BY DEF Resumes
<1>2. \A u \in Tries : [recoveries[u] EXCEPT !.own = FALSE] \in TrySet
  BY DEF FilesInv, TrySet
<1>3. Orphaned \in [Tries -> TrySet]
      /\ \A u \in Tries : Orphaned[u] = [recoveries[u] EXCEPT !.own = FALSE]
  BY <1>2 DEF Orphaned
<1>4. recoveries' \in [Tries -> TrySet] /\ recoveries'[t] = NoRecovery
      /\ \A u \in Tries \ {t} : recoveries'[u] = Orphaned[u]
  BY <1>1, <1>3, Empty
<1>5. \A u \in Tries : recoveries[u] \in TrySet
  BY DEF FilesInv
<1>6. \A u \in Tries \ {t} : /\ recoveries'[u].at = recoveries[u].at
                             /\ recoveries'[u].resume = recoveries[u].resume
                             /\ recoveries'[u].own = FALSE
  BY <1>3, <1>4, <1>5 DEF TrySet
<1>7. Runs(t)
  BY <1>1 DEF Runs
<1> QED
  BY <1>3, <1>4, <1>6, <1>7 DEF Runs, Owns, NoRecovery, FilesInv, RecoveriesFit

LEMMA ResumeKeeps ==
    ASSUME ViewsInv, NEW t \in Tries, NEW s \in Slots, Resumes(t, s)
    PROVE  ViewsInv'
<1> USE ViewsAssumption
<1>1. PreviewInv /\ FilesInv /\ OutsideInv /\ RecoveriesFit
  BY Halves DEF FilesInv
<1> DEFINE f == recoveries[t].resume
<1>2. f \in Formats /\ shown # "closed" /\ recoveries' \in [Tries -> TrySet]
  BY <1>1, Resumed
<1>3. UNCHANGED <<outside, page, pictures, counts>> /\ Starts(s, f)
      /\ section' = [downloading |-> f, pending |-> None]
      /\ local' \in {recoveries[t].key, local}
  BY DEF Resumes, StoresKey
<1>4. shown' = shown /\ handed' = handed /\ torn' = torn /\ clicks' = clicks
  BY <1>3 DEF page, counts
<1>5. RecoveriesFit'
  <2>1. \A u \in Tries : IF Runs(u)' THEN recoveries'[u].resume \in Formats
                                     ELSE recoveries'[u] = NoRecovery
    <3>1. \A u \in Tries \ {t} : IF Runs(u) THEN recoveries[u].resume \in Formats
                                            ELSE recoveries[u] = NoRecovery
      BY <1>1 DEF RecoveriesFit
    <3> QED
      BY <1>1, <3>1, NobodyOwns, Resumed
  <2> QED
    BY <1>1, <2>1, Resumed DEF RecoveriesFit
<1>6. section' \in [downloading : {f}, pending : MaybeFormat]
  BY <1>3 DEF MaybeFormat
<1>7. clicks' \in [Formats -> Nat]
  BY <1>1, <1>4 DEF FilesInv
<1> HIDE DEF f
<1>8. FilesInv'
  BY <1>1, <1>2, <1>3, <1>4, <1>5, <1>6, <1>7, StartKeeps
<1>9. recoveries[t].key \in MaybeKey
  BY <1>1 DEF FilesInv, TrySet
<1>10. OutsideInv' /\ PreviewInv'
  BY <1>1, <1>3, <1>4, <1>9, PreviewStays DEF OutsideInv, outside, page
<1> QED
  BY <1>8, <1>10, HalvesNext

LEMMA ClickKeeps ==
    ASSUME ViewsInv, NEW s \in Slots, NEW f \in Formats, ClickDownload(s, f)
    PROVE  ViewsInv'
<1> USE ViewsAssumption
<1>1. PreviewInv /\ FilesInv /\ OutsideInv
  BY Halves
<1>2. UNCHANGED <<outside, local, page, pictures, recoveries, handed, torn>>
      /\ shown' = shown /\ shown = "done" /\ Starts(s, f)
      /\ section' = [section EXCEPT !.downloading = f]
      /\ clicks' = [clicks EXCEPT ![f] = @ + 1]
  BY DEF ClickDownload, page
<1>3. section' \in [downloading : {f}, pending : MaybeFormat]
      /\ section'.pending = section.pending
  BY <1>1, <1>2 DEF FilesInv
<1>4. RecoveriesFit' /\ recoveries' \in [Tries -> TrySet]
  BY <1>1, <1>2, <1>3 DEF FilesInv, RecoveriesFit, Runs, Owns
<1>5. clicks' \in [Formats -> Nat]
  BY <1>1, <1>2 DEF FilesInv
<1>6. FilesInv'
  BY <1>1, <1>2, <1>3, <1>4, <1>5, StartKeeps
<1>7. OutsideInv' /\ PreviewInv'
  BY <1>1, <1>2, PreviewStays DEF OutsideInv, outside, page
<1> QED
  BY <1>6, <1>7, HalvesNext

-----------------------------------------------------------------------------
(* The page, the session and the other tabs.                               *)

\* What a late poll does to the recoveries.
LEMMA Polled ==
    ASSUME FilesInv, NEW s, TakePoll(s)
    PROVE  /\ recoveries' \in [Tries -> TrySet]
           /\ \A u \in Tries : /\ Runs(u)' <=> Runs(u)
                               /\ recoveries'[u].resume = recoveries[u].resume
                               /\ ~Runs(u) => recoveries'[u] = recoveries[u]
           /\ s = "done" => recoveries' = recoveries /\ torn' = torn
           /\ s # "done" => \A u \in Tries : ~Owns(u)'
           /\ UNCHANGED <<section, downloads, clicks, handed>>
<1>1. UNCHANGED <<section, downloads, clicks, handed>>
      /\ recoveries' = IF s = "done" THEN recoveries ELSE Orphaned
  BY DEF TakePoll
<1>2. CASE s = "done"
  <2>1. torn' = [f \in Formats |-> torn[f]]
    BY <1>2 DEF TakePoll
  <2>2. torn' = torn
    BY <2>1 DEF FilesInv
  <2> QED
    BY <1>1, <1>2, <2>2 DEF FilesInv, Runs
<1>3. CASE s # "done"
  <2>1. \A u \in Tries : /\ recoveries'[u] = [recoveries[u] EXCEPT !.own = FALSE]
                         /\ recoveries[u] \in TrySet
    BY <1>1, <1>3 DEF Orphaned, FilesInv
  <2>2. \A u \in Tries : [recoveries[u] EXCEPT !.own = FALSE] \in TrySet
    BY DEF FilesInv, TrySet
  <2>3. recoveries' \in [Tries -> TrySet]
    BY <1>1, <1>3, <2>2 DEF Orphaned
  <2>4. \A u \in Tries : /\ recoveries'[u].at = recoveries[u].at
                         /\ recoveries'[u].resume = recoveries[u].resume
                         /\ recoveries'[u].own = FALSE
    BY <2>1 DEF TrySet
  <2>5. \A u \in Tries : ~Runs(u) => recoveries'[u] = recoveries[u]
    BY <2>1, NobodyOwns DEF FilesInv, RecoveriesFit
  <2> QED
    BY <1>1, <1>3, <2>3, <2>4, <2>5 DEF Runs, Owns
<1> QED
  BY <1>2, <1>3

\* The page, the session and the other tabs.
PageStep ==
    \/ OpenPage \/ Advances \/ ClosePage \/ SessionEnds \/ OtherTabStores \/ Rotates
    \/ \E s \in Statuses : TakePoll(s)

LEMMA PageKeeps == ViewsInv /\ PageStep => ViewsInv'
<1> SUFFICES ASSUME PreviewInv, FilesInv, OutsideInv, PageStep
             PROVE  PreviewInv' /\ FilesInv' /\ OutsideInv'
  BY Halves, HalvesNext
<1> USE ViewsAssumption
<1>1. CASE OpenPage
  <2>1. OutsideInv'
    BY <1>1 DEF OpenPage, outside, OutsideInv, Statuses
  <2>2. PreviewInv'
    BY <1>1, ShownPreview DEF OpenPage, OutsideInv
  <2>3. UNCHANGED files /\ shown = "closed" /\ shown' # "closed"
    BY <1>1 DEF OpenPage, OutsideInv, Statuses
  <2>4. FilesInv'
    BY <2>3 DEF files, counts, FilesInv, ButtonsAreBusy, RecoveriesFit, Runs, Owns
  <2> QED
    BY <2>1, <2>2, <2>4
<1>2. CASE Advances
  <2>1. shown' = shown /\ UNCHANGED <<outside, local, pictures, files>>
        /\ (was = {} => was' = {})
    BY <1>2 DEF Advances
  <2>2. OutsideInv'
    BY <1>2 DEF Advances, OutsideInv, outside, Statuses
  <2>3. PreviewInv'
    BY <2>1, PreviewStays
  <2>4. FilesInv'
    BY <2>1 DEF files, counts, FilesInv, ButtonsAreBusy, RecoveriesFit, Runs, Owns
  <2> QED
    BY <2>2, <2>3, <2>4
<1>3. CASE ClosePage
  <2>1. /\ was' = {} /\ section' = NoSection /\ UNCHANGED counts
        /\ downloads' = [s \in Slots |-> NoDownload]
        /\ recoveries' = [t \in Tries |-> NoRecovery]
    BY <1>3 DEF ClosePage
  <2>2. downloads' \in [Slots -> DownloadSet] /\ recoveries' \in [Tries -> TrySet]
        /\ section' \in [downloading : MaybeFormat, pending : MaybeFormat]
    BY <2>1, Empty DEF NoSection, MaybeFormat
  <2>3. /\ \A t \in Tries : ~Runs(t)' /\ ~Owns(t)' /\ recoveries'[t] = NoRecovery
        /\ \A s \in Slots : downloads'[s].at = "no"
    BY <2>1 DEF Runs, Owns, NoRecovery, NoDownload
  <2>4. ButtonsAreBusy' /\ RecoveriesFit'
    BY <2>1, <2>3 DEF ButtonsAreBusy, NoSection, RecoveriesFit
  <2>5. FilesInv'
    BY <2>1, <2>2, <2>3, <2>4 DEF FilesInv, counts
  <2>6. PreviewInv' /\ OutsideInv'
    BY <1>3 DEF ClosePage, PreviewInv, NoPreview, NoLoads, SpinnerIsBusy, PictureIsThere,
       OutsideInv, outside, Statuses
  <2> QED
    BY <2>5, <2>6
<1>4. CASE SessionEnds \/ OtherTabStores \/ Rotates
  <2>1. UNCHANGED <<page, pictures, files>>
    BY <1>4 DEF SessionEnds, OtherTabStores, Rotates, outside
  <2>2. OutsideInv'
    BY <1>4 DEF SessionEnds, OtherTabStores, Rotates, OutsideInv, outside, MaybeKey, page
  <2> QED
    BY <2>1, <2>2, PreviewStays, FilesStay DEF page
<1>5. ASSUME NEW s \in Statuses, TakePoll(s) PROVE PreviewInv' /\ FilesInv' /\ OutsideInv'
  <2>1. PreviewInv' /\ OutsideInv'
    BY <1>5, ShownPreview DEF TakePoll, OutsideInv, outside
  <2>2. shown' = s /\ shown' # "closed" /\ shown # "closed"
    BY <1>5 DEF TakePoll, Statuses, FilesInv
  <2>3. torn' \in [Formats -> Nat]
    <3>1. torn' = [f \in Formats |->
                     IF s # "done" /\ \E t \in Tries : Owns(t) /\ recoveries[t].resume = f
                     THEN torn[f] + 1 ELSE torn[f]]
      BY <1>5, Zenon DEF TakePoll
    <3>2. torn \in [Formats -> Nat]
      BY DEF FilesInv
    <3> QED
      BY <3>1, <3>2
  <2>4. section' = section /\ downloads' = downloads
    BY <1>5, Polled
  <2>5. RecoveriesFit'
    <3>1. \A u \in Tries : IF Runs(u)' THEN recoveries'[u].resume \in Formats
                                       ELSE recoveries'[u] = NoRecovery
      BY <1>5, Polled DEF FilesInv, RecoveriesFit
    <3>2. CASE s = "done"
      BY <1>5, <2>2, <2>4, <3>1, <3>2, Polled DEF FilesInv, RecoveriesFit, Owns, Runs
    <3>3. CASE s # "done"
      <4>1. \A u \in Tries : ~Owns(u)'
        BY <1>5, <3>3, Polled
      <4> QED
        BY <3>1, <4>1 DEF RecoveriesFit
    <3> QED
      BY <3>2, <3>3
  <2>6. ButtonsAreBusy'
    BY <2>4 DEF ButtonsAreBusy, FilesInv
  <2>7. FilesInv'
    BY <1>5, <2>2, <2>3, <2>4, <2>5, <2>6, Polled DEF FilesInv
  <2> QED
    BY <2>1, <2>7
<1> QED
  BY <1>1, <1>2, <1>3, <1>4, <1>5 DEF PageStep

\* The steps of the recoveries that repeat nothing.
TryOnly(t) ==
    \/ TryStep(t) \/ TakeRefusal(t)
    \/ RecoverByPhrase(t) \/ \E k \in Keys : RecoverByFile(t, k)

LEMMA NextSteps ==
    Next <=> \/ PreviewStep \/ PageStep
             \/ \E s \in Slots : Downloading(s)
             \/ \E s \in Slots, f \in Formats : ClickDownload(s, f)
             \/ \E t \in Tries : TryOnly(t) \/ \E s \in Slots : Resumes(t, s)
BY DEF Next, PreviewStep, PageStep, Recovering, Customer, TryOnly, TryStep

LEMMA StepKeeps == ViewsInv /\ [Next]_vars => ViewsInv'
<1> SUFFICES ASSUME ViewsInv, [Next]_vars PROVE ViewsInv'
  OBVIOUS
<1>1. CASE UNCHANGED vars
  <2>1. PreviewInv /\ FilesInv /\ OutsideInv
    BY Halves
  <2> QED
    BY <1>1, <2>1, PreviewStays, FilesStay, HalvesNext DEF vars, page, outside, OutsideInv
<1>2. CASE Next
  BY <1>2, NextSteps, PreviewKeeps, PageKeeps, DownloadingKeeps, ClickKeeps, ResumeKeeps,
     TryKeeps DEF TryOnly
<1> QED
  BY <1>1, <1>2

\* No spinner without a request under way, no disabled button without a
\* download, one recovery at most for a form and only while its wish is kept:
\* whatever overlaps, fails, is overtaken or taken back on the page.
THEOREM ViewsAreAlive == Spec => []ViewsInv
<1> QED
  BY InitViews, StepKeeps, PTL DEF Spec

\* The wish for a file goes with the page or into the repeated download.
THEOREM WishGoes == Spec => WishGoesWithDownload
<1>1. ViewsInv /\ [Next]_vars =>
        [section.pending # None /\ section'.pending = None /\ shown' # "closed"
          => \E t \in Tries, s \in Slots :
                /\ recoveries[t].at = "ok"
                /\ downloads[s].at = "no" /\ downloads'[s].at = "info"
                /\ downloads'[s].fmt = recoveries[t].resume]_vars
  <2> SUFFICES ASSUME ViewsInv, Next, section.pending # None, section'.pending = None,
                      shown' # "closed"
               PROVE  \E t \in Tries, s \in Slots :
                         /\ recoveries[t].at = "ok"
                         /\ downloads[s].at = "no" /\ downloads'[s].at = "info"
                         /\ downloads'[s].fmt = recoveries[t].resume
    OBVIOUS
  <2> USE ViewsAssumption
  <2>1. FilesInv
    BY Halves
  <2>2. CASE PreviewStep
    BY <2>2 DEF PreviewStep, PreviewAnswers, ServePreview, RefusePreview, TakePreview, Refresh,
       PictureBreaks, OpenPicture, TurnPicture, ClosePicture, files
  <2>3. CASE PageStep
    BY <2>3 DEF PageStep, OpenPage, Advances, ClosePage, SessionEnds, OtherTabStores,
       Rotates, TakePoll, files
  <2>4. ASSUME NEW s \in Slots, Downloading(s) PROVE FALSE
    BY <2>1, <2>4 DEF Downloading, ServeInfo, ServeFile, TakePlain, MissesKey, ReadsKey,
       OpensFile, TakeFailure, FilesInv
  <2>5. ASSUME NEW s \in Slots, NEW f \in Formats, ClickDownload(s, f) PROVE FALSE
    BY <2>1, <2>5 DEF ClickDownload, FilesInv
  <2>6. ASSUME NEW t \in Tries, TryOnly(t) PROVE FALSE
    BY <2>6 DEF TryOnly, TryStep, ServeBackup, TakeBackup, ServeMe, TakeRefusal,
       RecoverByPhrase, RecoverByFile, Recover
  <2>7. ASSUME NEW t \in Tries, NEW s \in Slots, Resumes(t, s)
        PROVE  /\ recoveries[t].at = "ok"
               /\ downloads[s].at = "no" /\ downloads'[s].at = "info"
               /\ downloads'[s].fmt = recoveries[t].resume
    BY <2>1, <2>7 DEF Resumes, IsFree, Starts, FilesInv
  <2> QED
    BY <2>2, <2>3, <2>4, <2>5, <2>6, <2>7, NextSteps
<1> QED
  BY <1>1, ViewsAreAlive, PTL DEF Spec, WishGoesWithDownload

-----------------------------------------------------------------------------
(* One file per click: what was handed over, what is under way, what is    *)
(* being recovered and what is only wished are counted together.           *)

Due(f) == handed[f] + Cardinality(Underway(f)) + Cardinality(Resuming(f)) + Wished(f)
May(f) == clicks[f] + torn[f]

LEMMA Counted ==
    ASSUME NEW f
    PROVE  /\ IsFiniteSet(Underway(f)) /\ Cardinality(Underway(f)) \in Nat
           /\ IsFiniteSet(Resuming(f)) /\ Cardinality(Resuming(f)) \in Nat
           /\ Wished(f) \in {0, 1}
<1>1. Underway(f) \subseteq Slots /\ IsFiniteSet(Slots)
      /\ Resuming(f) \subseteq Tries /\ IsFiniteSet(Tries)
  BY ViewsAssumption DEF Underway, Resuming
<1>2. Wished(f) \in {0, 1}
  BY DEF Wished
<1> QED
  BY <1>1, <1>2, FS_Subset, FS_CardinalityType

\* A start counts one more of its format, an end one less, a move none.
LEMMA StartCounts ==
    ASSUME FilesInv, NEW s \in Slots, NEW f \in Formats, Starts(s, f), downloads[s].at = "no",
           NEW g \in Formats
    PROVE  Cardinality(Underway(g)') =
             IF g = f THEN Cardinality(Underway(g)) + 1 ELSE Cardinality(Underway(g))
<1>1. Underway(g)' = IF g = f THEN Underway(g) \cup {s} ELSE Underway(g)
  BY DEF FilesInv, Starts, Underway
<1>2. s \notin Underway(g)
  BY DEF Underway
<1> QED
  BY <1>1, <1>2, Counted, FS_AddElement

LEMMA EndCounts ==
    ASSUME FilesInv, NEW s \in Slots, Ends(s), downloads[s].at # "no", NEW g \in Formats
    PROVE  Cardinality(Underway(g)') =
             IF g = downloads[s].fmt THEN Cardinality(Underway(g)) - 1
                                     ELSE Cardinality(Underway(g))
<1>1. Underway(g)' = Underway(g) \ {s}
  BY DEF FilesInv, Ends, NoDownload, Underway
<1>2. s \in Underway(g) <=> g = downloads[s].fmt
  BY DEF Underway
<1>3. CASE g = downloads[s].fmt
  BY <1>1, <1>2, <1>3, Counted, FS_RemoveElement, ZenonT(40)
<1>4. CASE g # downloads[s].fmt
  <2>1. Underway(g)' = Underway(g)
    BY <1>1, <1>2, <1>4
  <2> QED
    BY <1>4, <2>1
<1> QED
  BY <1>3, <1>4

LEMMA MoveCounts ==
    ASSUME FilesInv, NEW s \in Slots, downloads[s].at # "no",
           \/ \E at \in {"told", "got"} : Moves(s, at)
           \/ downloads' = [downloads EXCEPT ![s].at = "bytes", ![s].key = local],
           NEW g \in Formats
    PROVE  Underway(g)' = Underway(g)
<1>1. \A u \in Slots : downloads[u] \in DownloadSet
  BY DEF FilesInv
<1>2. \A u \in Slots : /\ downloads'[u].at # "no" <=> downloads[u].at # "no"
                       /\ downloads'[u].fmt = downloads[u].fmt
  BY <1>1, SMTT(30) DEF FilesInv, Moves, DownloadSet
<1> QED
  BY <1>2 DEF Underway

\* Calls that keep on running for what they did count the same.
LEMMA SameCalls ==
    ASSUME \A u \in Tries : /\ Runs(u)' <=> Runs(u)
                            /\ recoveries'[u].resume = recoveries[u].resume,
           NEW g
    PROVE  Resuming(g)' = Resuming(g)
BY DEF Resuming

\* A call that ends counts one less of its format.
LEMMA EndedCall ==
    ASSUME NEW t \in Tries, Runs(t), ~Runs(t)',
           \A u \in Tries \ {t} : /\ Runs(u)' <=> Runs(u)
                                  /\ recoveries'[u].resume = recoveries[u].resume,
           NEW g
    PROVE  /\ Resuming(g)' = Resuming(g) \ {t}
           /\ Cardinality(Resuming(g)') =
                IF g = recoveries[t].resume THEN Cardinality(Resuming(g)) - 1
                                            ELSE Cardinality(Resuming(g))
<1>1. Resuming(g)' = Resuming(g) \ {t}
  BY DEF Resuming
<1>2. t \in Resuming(g) <=> g = recoveries[t].resume
  BY DEF Resuming
<1>3. CASE g = recoveries[t].resume
  BY <1>1, <1>2, <1>3, Counted, FS_RemoveElement, ZenonT(40)
<1>4. CASE g # recoveries[t].resume
  <2>1. Resuming(g)' = Resuming(g)
    BY <1>1, <1>2, <1>4
  <2> QED
    BY <1>1, <1>4, <2>1
<1> QED
  BY <1>1, <1>3, <1>4

\* A click starts a download of its own.
LEMMA ClickIsCounted ==
    ASSUME ViewsInv, OneFilePerClick, NEW s \in Slots, NEW f \in Formats, ClickDownload(s, f)
    PROVE  OneFilePerClick'
<1> SUFFICES ASSUME NEW g \in Formats PROVE Due(g)' <= May(g)'
  BY DEF OneFilePerClick, Due, May
<1>1. FilesInv /\ Due(g) <= May(g)
  BY Halves DEF OneFilePerClick, Due, May
<1>2. /\ Starts(s, f) /\ downloads[s].at = "no" /\ clicks' = [clicks EXCEPT ![f] = @ + 1]
      /\ handed' = handed /\ torn' = torn /\ recoveries' = recoveries
      /\ section'.pending = section.pending
  BY <1>1 DEF ClickDownload, IsFree, FilesInv
<1>3. Resuming(g)' = Resuming(g) /\ Wished(g)' = Wished(g)
  BY <1>2 DEF Resuming, Wished, Runs, Owns
<1>4. handed[g] \in Nat /\ clicks[g] \in Nat /\ torn[g] \in Nat
      /\ clicks'[g] = IF g = f THEN clicks[g] + 1 ELSE clicks[g]
  BY <1>1, <1>2 DEF FilesInv
<1>5. Cardinality(Underway(g)') =
        IF g = f THEN Cardinality(Underway(g)) + 1 ELSE Cardinality(Underway(g))
  BY <1>1, <1>2, StartCounts
<1> QED
  BY <1>1, <1>2, <1>3, <1>4, <1>5, Counted DEF Due, May

\* A recovery that succeeds repeats the download it was counted for.
LEMMA ResumeIsCounted ==
    ASSUME ViewsInv, OneFilePerClick, NEW t \in Tries, NEW s \in Slots, Resumes(t, s)
    PROVE  OneFilePerClick'
<1> SUFFICES ASSUME NEW g \in Formats PROVE Due(g)' <= May(g)'
  BY DEF OneFilePerClick, Due, May
<1> DEFINE f == recoveries[t].resume
<1>1. FilesInv /\ Due(g) <= May(g)
  BY Halves DEF OneFilePerClick, Due, May
<1>2. f \in Formats /\ Starts(s, f) /\ downloads[s].at = "no"
  BY <1>1, Resumed DEF Resumes, IsFree
<1>3. handed' = handed /\ clicks' = clicks /\ torn' = torn
  BY DEF Resumes, counts
<1>4. Wished(g)' = 0
  BY ViewsAssumption DEF Resumes, Wished
<1>5. handed[g] \in Nat /\ clicks[g] \in Nat /\ torn[g] \in Nat
  BY <1>1 DEF FilesInv
<1>6. Cardinality(Underway(g)') =
        IF g = f THEN Cardinality(Underway(g)) + 1 ELSE Cardinality(Underway(g))
  BY <1>1, <1>2, StartCounts
<1>7. Cardinality(Resuming(g)') =
        IF g = f THEN Cardinality(Resuming(g)) - 1 ELSE Cardinality(Resuming(g))
  BY <1>1, Resumed, EndedCall
<1> QED
  BY <1>1, <1>3, <1>4, <1>5, <1>6, <1>7, Counted DEF Due, May

\* A download moves on, or ends by handing over, by asking for the key or in vain.
LEMMA DownloadingIsCounted ==
    ASSUME ViewsInv, OneFilePerClick, NEW s \in Slots, Downloading(s)
    PROVE  OneFilePerClick'
<1> SUFFICES ASSUME NEW g \in Formats PROVE Due(g)' <= May(g)'
  BY DEF OneFilePerClick, Due, May
<1> DEFINE f == downloads[s].fmt
<1>1. FilesInv /\ Due(g) <= May(g)
  BY Halves DEF OneFilePerClick, Due, May
<1>2. downloads[s].at # "no" /\ f \in Formats /\ clicks' = clicks /\ torn' = torn
      /\ recoveries' = recoveries
  BY <1>1 DEF Downloading, ServeInfo, ServeFile, TakePlain, MissesKey, ReadsKey, OpensFile,
     TakeFailure, FilesInv, counts
<1>3. handed[g] \in Nat /\ clicks[g] \in Nat /\ torn[g] \in Nat
  BY <1>1 DEF FilesInv
<1>4. Resuming(g)' = Resuming(g) /\ Wished(g)' \in {0, 1}
      /\ (section'.pending = section.pending => Wished(g)' = Wished(g))
  BY <1>2 DEF Resuming, Wished, Runs, Owns
<1>5. CASE ServeInfo(s) \/ ServeFile(s) \/ ReadsKey(s)
  <2>1. \/ \E at \in {"told", "got"} : Moves(s, at)
        \/ downloads' = [downloads EXCEPT ![s].at = "bytes", ![s].key = local]
    BY <1>5 DEF ServeInfo, ServeFile, ReadsKey
  <2>2. handed' = handed /\ section' = section
    BY <1>5 DEF ServeInfo, ServeFile, ReadsKey, counts
  <2>3. Underway(g)' = Underway(g)
    BY <1>1, <1>2, <2>1, MoveCounts
  <2> QED
    BY <1>1, <1>2, <1>4, <2>2, <2>3 DEF Due, May
<1>6. CASE TakePlain(s) \/ OpensFile(s) \/ MissesKey(s) \/ TakeFailure(s)
  <2>1. Ends(s)
    BY <1>6 DEF TakePlain, OpensFile, MissesKey, TakeFailure
  <2>2. Cardinality(Underway(g)') =
          IF g = f THEN Cardinality(Underway(g)) - 1 ELSE Cardinality(Underway(g))
    BY <1>1, <1>2, <2>1, EndCounts
  <2>3. CASE TakePlain(s) \/ OpensFile(s)
    <3>1. handed'[g] = IF g = f THEN handed[g] + 1 ELSE handed[g]
      BY <1>1, <2>3 DEF TakePlain, OpensFile, HandsOver, FilesInv
    <3>2. section'.pending = section.pending
      BY <1>1, <2>3 DEF TakePlain, OpensFile, FilesInv
    <3> QED
      BY <1>1, <1>2, <1>3, <1>4, <2>2, <3>1, <3>2, Counted DEF Due, May
  <2>4. CASE MissesKey(s)
    <3>1. handed' = handed
      BY <2>4 DEF MissesKey, counts
    <3>2. g # f => Wished(g)' = 0
      BY <1>1, <2>4 DEF MissesKey, Wished, FilesInv
    <3> QED
      BY <1>1, <1>2, <1>3, <1>4, <2>2, <3>1, <3>2, Counted DEF Due, May
  <2>5. CASE TakeFailure(s)
    <3>1. handed' = handed /\ section'.pending = section.pending
      BY <1>1, <2>5 DEF TakeFailure, FilesInv, counts
    <3> QED
      BY <1>1, <1>2, <1>3, <1>4, <2>2, <3>1, Counted DEF Due, May
  <2> QED
    BY <1>6, <2>3, <2>4, <2>5
<1> QED
  BY <1>5, <1>6 DEF Downloading

\* A recovery stands for the wish it was started for, until it fails.
LEMMA TryIsCounted ==
    ASSUME ViewsInv, OneFilePerClick, NEW t \in Tries, TryOnly(t)
    PROVE  OneFilePerClick'
<1> SUFFICES ASSUME NEW g \in Formats PROVE Due(g)' <= May(g)'
  BY DEF OneFilePerClick, Due, May
<1>1. FilesInv /\ OutsideInv /\ Due(g) <= May(g)
  BY Halves DEF OneFilePerClick, Due, May
<1>2. UNCHANGED <<section, downloads, clicks, handed, torn>>
  BY DEF TryOnly, TryStep, ServeBackup, TakeBackup, ServeMe, TakeRefusal, RecoverByPhrase,
     RecoverByFile, Recover, counts
<1>3. Underway(g)' = Underway(g)
  BY <1>2 DEF Underway
<1>4. handed[g] \in Nat /\ clicks[g] \in Nat /\ torn[g] \in Nat
  BY <1>1 DEF FilesInv
<1>5. CASE TryStep(t)
  <2>1. \A u \in Tries : /\ Runs(u)' <=> Runs(u)
                         /\ recoveries'[u].resume = recoveries[u].resume
                         /\ Owns(u)' <=> Owns(u)
    BY <1>1, <1>5, TryMoves DEF Runs, Owns
  <2>2. Resuming(g)' = Resuming(g)
    BY <2>1, SameCalls
  <2>3. Wished(g)' = Wished(g)
    BY <1>2, <2>1, <2>2 DEF Wished, Resuming
  <2> QED
    BY <1>1, <1>2, <1>3, <2>2, <2>3 DEF Due, May
<1>6. CASE TakeRefusal(t)
  <2>1. /\ recoveries'[t] = NoRecovery /\ Runs(t)
        /\ \A u \in Tries \ {t} : recoveries'[u] = recoveries[u]
    BY <1>1, <1>6, Empty, TryWrite DEF TakeRefusal, Runs
  <2>2. ~Runs(t)' /\ \A u \in Tries \ {t} : /\ Runs(u)' <=> Runs(u)
                                            /\ Owns(u)' <=> Owns(u)
                                            /\ recoveries'[u].resume = recoveries[u].resume
    BY <2>1 DEF Runs, Owns, NoRecovery
  <2>3. /\ Resuming(g)' = Resuming(g) \ {t}
        /\ Cardinality(Resuming(g)') =
             IF g = recoveries[t].resume THEN Cardinality(Resuming(g)) - 1
                                         ELSE Cardinality(Resuming(g))
    BY <2>1, <2>2, EndedCall
  <2>4. g # recoveries[t].resume => Wished(g)' = Wished(g)
    BY <1>2, <2>2, <2>3 DEF Wished, Resuming
  <2>5. Wished(g)' \in {0, 1}
    BY DEF Wished
  <2> QED
    BY <1>1, <1>2, <1>3, <1>4, <2>3, <2>4, <2>5, Counted DEF Due, May
<1>7. CASE RecoverByPhrase(t) \/ \E k \in Keys : RecoverByFile(t, k)
  <2> PICK how \in {"file", "phrase"}, k \in MaybeKey : Recover(t, how, k)
    BY <1>7 DEF RecoverByPhrase, RecoverByFile, MaybeKey
  <2> DEFINE f == section.pending
             new == [at |-> "sent", how |-> how, key |-> k, resume |-> f, own |-> TRUE]
  <2>1. f \in Formats /\ \A u \in Tries : ~Owns(u)
    BY <1>1 DEF Recover, FilesInv, MaybeFormat
  <2>2. new \in TrySet
    BY <2>1 DEF TrySet, MaybeFormat
  <2>3. Becomes(t, new) /\ ~Runs(t)
    BY DEF Recover, FreeTry
  <2>4. recoveries'[t] = new /\ \A u \in Tries \ {t} : recoveries'[u] = recoveries[u]
    BY <1>1, <2>2, <2>3, TryWrite
  <2>5. Runs(t)' /\ Owns(t)' /\ \A u \in Tries \ {t} : /\ Runs(u)' <=> Runs(u)
                                                       /\ ~Owns(u)'
    BY <2>1, <2>4 DEF Runs, Owns
  <2>6. Resuming(g)' = IF g = f THEN Resuming(g) \cup {t} ELSE Resuming(g)
    BY <2>3, <2>4, <2>5 DEF Resuming
  <2>7. t \notin Resuming(g)
    BY <2>3 DEF Resuming
  <2>8. Cardinality(Resuming(g)') =
          IF g = f THEN Cardinality(Resuming(g)) + 1 ELSE Cardinality(Resuming(g))
    BY <2>6, <2>7, Counted, FS_AddElement
  <2>9. Wished(g) = IF g = f THEN 1 ELSE 0
    BY <2>1 DEF Wished, Resuming
  <2>10. Wished(g)' = 0
    <3>1. CASE g # f
      BY <1>2, <3>1 DEF Wished
    <3>2. CASE g = f
      <4>1. t \in Resuming(g)' /\ Owns(t)'
        BY <2>5, <2>6, <3>2
      <4> QED
        BY <4>1 DEF Wished
    <3> QED
      BY <3>1, <3>2
  <2> QED
    BY <1>1, <1>2, <1>3, <1>4, <2>8, <2>9, <2>10, Counted DEF Due, May
<1> QED
  BY <1>5, <1>6, <1>7 DEF TryOnly

\* A page that is closed forgets what it owed, one that is taken back while a
\* recovery is under way may do it again.
LEMMA PageIsCounted == ViewsInv /\ OneFilePerClick /\ PageStep => OneFilePerClick'
<1> SUFFICES ASSUME ViewsInv, OneFilePerClick, PageStep, NEW g \in Formats
             PROVE  Due(g)' <= May(g)'
  BY DEF OneFilePerClick, Due, May
<1>1. FilesInv /\ Due(g) <= May(g)
  BY Halves DEF OneFilePerClick, Due, May
<1>2. handed[g] \in Nat /\ clicks[g] \in Nat /\ torn[g] \in Nat
  BY <1>1 DEF FilesInv
<1>3. CASE ClosePage
  <2>1. handed' = handed /\ clicks' = clicks /\ torn' = torn
    BY <1>3 DEF ClosePage, counts
  <2>2. Underway(g)' = {} /\ Resuming(g)' = {} /\ Wished(g)' = 0
    BY <1>3, ViewsAssumption
       DEF ClosePage, Underway, Resuming, Wished, NoDownload, NoSection, NoRecovery, Runs
  <2> QED
    BY <1>1, <1>2, <2>1, <2>2, Counted, FS_EmptySet DEF Due, May
<1>4. ASSUME NEW s \in Statuses, TakePoll(s) PROVE Due(g)' <= May(g)'
  <2>1. /\ UNCHANGED <<section, downloads, clicks, handed>>
        /\ \A u \in Tries : /\ Runs(u)' <=> Runs(u)
                            /\ recoveries'[u].resume = recoveries[u].resume
    BY <1>1, <1>4, Polled
  <2>2. Underway(g)' = Underway(g) /\ Resuming(g)' = Resuming(g)
    BY <2>1, SameCalls DEF Underway
  <2>3. CASE s = "done"
    <3>1. recoveries' = recoveries /\ torn' = torn
      BY <1>1, <1>4, <2>3, Polled
    <3>2. Wished(g)' = Wished(g)
      BY <2>1, <2>2, <3>1 DEF Wished, Owns, Runs
    <3> QED
      BY <1>1, <2>1, <2>2, <3>1, <3>2 DEF Due, May
  <2>4. CASE s # "done"
    <3>1. torn'[g] = IF \E t \in Tries : Owns(t) /\ recoveries[t].resume = g
                     THEN torn[g] + 1 ELSE torn[g]
      BY <1>4, <2>4 DEF TakePoll
    <3>2. Wished(g)' = IF section.pending = g THEN 1 ELSE 0
      BY <1>1, <1>4, <2>1, <2>4, Polled DEF Wished, Resuming
    <3>3. section.pending = g /\ Wished(g) = 0
            => \E t \in Tries : Owns(t) /\ recoveries[t].resume = g
      BY DEF Wished, Resuming
    <3>4. Wished(g)' - Wished(g) <= torn'[g] - torn[g]
      BY <1>2, <3>1, <3>2, <3>3, Counted
    <3>5. torn'[g] \in Nat /\ Wished(g)' \in {0, 1}
      BY <1>2, <3>1, <3>2
    <3> QED
      BY <1>1, <1>2, <2>1, <2>2, <3>4, <3>5, Counted DEF Due, May
  <2> QED
    BY <2>3, <2>4
<1>5. CASE OpenPage \/ Advances \/ SessionEnds \/ OtherTabStores \/ Rotates
  <2>1. UNCHANGED files
    BY <1>5 DEF OpenPage, Advances, SessionEnds, OtherTabStores, Rotates
  <2> QED
    BY <1>1, <2>1 DEF files, counts, Due, May, Underway, Resuming, Wished, Runs, Owns
<1> QED
  BY <1>3, <1>4, <1>5 DEF PageStep

\* One click hands over one file at most, whatever is repeated, but for one more
\* whenever a late poll takes the form from a recovery under way.
THEOREM OneFileForAClick == Spec => []OneFilePerClick
<1>1. Init => OneFilePerClick
  <2> SUFFICES ASSUME Init, NEW g \in Formats PROVE Due(g) <= May(g)
    BY DEF OneFilePerClick, Due, May
  <2>1. Underway(g) = {} /\ Resuming(g) = {} /\ Wished(g) = 0
        /\ handed[g] = 0 /\ clicks[g] = 0 /\ torn[g] = 0
    BY ViewsAssumption
       DEF Init, Underway, Resuming, Wished, NoDownload, NoSection, NoRecovery, Runs
  <2> QED
    BY <2>1, FS_EmptySet DEF Due, May
<1>2. ViewsInv /\ OneFilePerClick /\ [Next]_vars => OneFilePerClick'
  <2> SUFFICES ASSUME ViewsInv, OneFilePerClick, [Next]_vars PROVE OneFilePerClick'
    OBVIOUS
  <2>1. CASE UNCHANGED files
    BY <2>1 DEF files, counts, OneFilePerClick, Underway, Resuming, Wished, Runs, Owns
  <2>2. PreviewStep => UNCHANGED files
    BY DEF PreviewStep, PreviewAnswers, ServePreview, RefusePreview, TakePreview, Refresh,
       PictureBreaks, OpenPicture, TurnPicture, ClosePicture
  <2>3. CASE Next
    BY <2>1, <2>2, <2>3, NextSteps, PageIsCounted, DownloadingIsCounted, ResumeIsCounted,
       ClickIsCounted, TryIsCounted
  <2> QED
    BY <2>1, <2>3 DEF vars
<1> QED
  BY <1>1, <1>2, ViewsAreAlive, PTL DEF Spec

=============================================================================
