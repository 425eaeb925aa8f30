----------------------- MODULE DocumentViewsProperties -----------------------
(***************************************************************************)
(* What the customer may rely on while previews, downloads and recoveries  *)
(* of the key overlap on the page of an order.                             *)
(***************************************************************************)
EXTENDS DocumentViews

\* Where the page says "please wait" there is something to wait for, a recovery
\* whose form is on the page is the only such one and its wish is kept, and the
\* enlarged picture is one of the preview's: a late failure, an answer
\* overtaken by another one, a page taken back or an end in between leaves no
\* dead spinner and no button disabled for ever (preview-section.tsx:19-37,
\* order-status.tsx:123-137, 296-310).
SpinnerIsBusy ==
    shown = "offered" /\ preview.pages = None /\ ~preview.error
        => \E i \in Loads : loads[i] # "no"
ButtonsAreBusy ==
    section.downloading # None
        => \E s \in Slots : downloads[s].at # "no"
RecoveriesFit ==
    /\ \A t \in Tries : IF Runs(t) THEN recoveries[t].resume \in Formats
                                   ELSE recoveries[t] = NoRecovery
    /\ \A t \in Tries : Owns(t) => shown = "done" /\ section.pending # None
    /\ \A t, u \in Tries : Owns(t) /\ Owns(u) => t = u
PictureIsThere == preview.openAt # 0 => preview.pages # None /\ preview.openAt <= preview.pages
PartsAreShown ==
    /\ shown # "offered" => preview = NoPreview /\ loads = NoLoads
    /\ shown = "closed" => /\ was = {} /\ section = NoSection
                           /\ \A t \in Tries : ~Runs(t)
                           /\ \A s \in Slots : downloads[s].at = "no"
    /\ \A s \in Slots : downloads[s].at # "no" => downloads[s].fmt \in Formats
ViewsInv ==
    /\ TypeOK
    /\ SpinnerIsBusy
    /\ ButtonsAreBusy
    /\ RecoveriesFit
    /\ PictureIsThere
    /\ PartsAreShown

\* One click hands over one file at most, although a recovery repeats the click
\* it was started for, may be started again after it failed, and meanwhile the
\* same file may be clicked or the key stored by another tab.  One more for each
\* time a late poll took the form away from a recovery under way: the form comes
\* back with the page and starts another one for the same wish, of which both
\* are repeated (order-status.tsx:123-137, 296-310).
Underway(f) == {s \in Slots : downloads[s].at # "no" /\ downloads[s].fmt = f}
Resuming(f) == {t \in Tries : Runs(t) /\ recoveries[t].resume = f}
Wished(f)   == IF section.pending = f /\ \A t \in Resuming(f) : ~Owns(t) THEN 1 ELSE 0
OneFilePerClick ==
    \A f \in Formats :
        handed[f] + Cardinality(Underway(f)) + Cardinality(Resuming(f)) + Wished(f)
            <= clicks[f] + torn[f]

\* The wish for a file that waits for its key is kept, also while the page is
\* taken back and the form is away, until the page is closed or a recovery has
\* succeeded and its download is repeated: no failed or overtaken recovery and
\* no late poll takes it away (recover-access-inline.tsx:23-34,
\* order-status.tsx:296-310).
WishGoesWithDownload ==
    [][section.pending # None /\ section'.pending = None /\ shown' # "closed"
         => \E t \in Tries, s \in Slots :
               /\ recoveries[t].at = "ok"
               /\ downloads[s].at = "no" /\ downloads'[s].at = "info"
               /\ downloads'[s].fmt = recoveries[t].resume]_vars

=============================================================================
