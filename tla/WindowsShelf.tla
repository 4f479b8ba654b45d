----------------------------- MODULE WindowsShelf -----------------------------
(***************************************************************************)
(* The shelf of charts on the Windows settings page: the links as the      *)
(* readout tick last read them (library/ui/ChartLinks.cpp), the mark a     *)
(* pick leaves until its read settles, the call to the core that is queued *)
(* behind the click, and the tiles, built again when the list of links     *)
(* changes and lettered in place otherwise (settings/ui/ChartsPage.cpp).   *)
(* The frame and the tick are two timers: a change may lie unread.  What   *)
(* has its like in LinuxShelf is named Win..., for MCChartsPages takes both.*)
(***************************************************************************)
EXTENDS ChartLinks

CONSTANTS
    WinRefused,   \* the styles its renderer will not draw
    WinDisk,      \* what the core has on disk at launch: [links, active]
    WinOldStore,  \* the list a shell of before kept itself, of the same shape
    Files,        \* the styles on this device a picker can give
    WinMaxAsks    \* bound: what the mariner asks for

VARIABLES
    winCore,   \* the engine's links
    links,     \* the shell's reading of them
    mark,      \* the pick and the tile that is marked for it
    call,      \* the tile whose call is queued, None where there is none
    tilesPage, \* the tiles as they stand
    dialog,    \* "none", "add" or "file"
    winImported, winOld,
    winAsked,  \* the tile picked last whose read has begun, None once something else is asked
    winAsks, winShows

winVars == <<winCore, links, mark, call, tilesPage, dialog, winImported, winOld,
             winAsked, winAsks, winShows>>

NoMark == [picked |-> FALSE, pending |-> Own, picking |-> FALSE]
NoPage == [shown |-> FALSE, sig |-> <<>>, tiles |-> {}, mine |-> {}, lit |-> None,
           reading |-> None, err |-> FALSE, note |-> FALSE]

WinShelfConstants ==
    /\ LinksConstants
    /\ WinRefused \subseteq Links /\ ListOK(WinDisk) /\ ListOK(WinOldStore)
    /\ Files \subseteq Local /\ None \notin [url : Charts, mine : BOOLEAN]
    /\ WinMaxAsks \in Nat

-------------------------------------------------------------------------------
(* What is shown.                                                           *)

WinReading(c) ==
    [urls |-> c.entries, active |-> c.active, err |-> c.err, busy |-> c.rs # None]

\* A linked style draws.
AltStyleActive(c) == c.drawn # Own
ActiveChartUrl(c, l) == IF AltStyleActive(c) THEN l.active ELSE Own

\* The marked pick is the tile that reads as being read, else the one the core reads.
RefreshInPlace(p, c, l, m) ==
    LET reading == m.picked \/ l.busy
        picked == IF m.picked THEN m.pending ELSE l.active
    IN [p EXCEPT !.reading = IF reading THEN picked ELSE None,
                 !.lit = IF reading THEN picked ELSE ActiveChartUrl(c, l),
                 !.err = l.err, !.note = AltStyleActive(c)]

Build(p, c, l, m) ==
    RefreshInPlace([p EXCEPT !.shown = TRUE, !.sig = l.urls, !.mine = ToSet(l.urls),
                             !.tiles = Catalog \cup ToSet(l.urls)], c, l, m)

RefreshOnChange(p, c, l, m) ==
    IF ~p.shown THEN p
    ELSE IF p.sig # l.urls THEN Build(p, c, l, m) ELSE RefreshInPlace(p, c, l, m)

\* Polled that drops the mark at the first reading, the call still to go out.
PolledUnmarked(c, m) ==
    LET l == WinReading(c)
        seen == [c EXCEPT !.changed = FALSE]
        now == IF l.busy THEN m ELSE NoMark
    IN IF c.open /\ c.changed
       THEN /\ winCore' = seen /\ links' = l /\ mark' = now
            /\ tilesPage' = RefreshOnChange(tilesPage, seen, l, now)
       ELSE winCore' = c /\ mark' = m /\ UNCHANGED <<links, tilesPage>>

\* PollChartLinks: the mark goes once the call is out and nothing is being read.
WinPolled(c, m) ==
    LET l == WinReading(c)
        seen == [c EXCEPT !.changed = FALSE]
        now == IF m.picking \/ l.busy THEN m ELSE NoMark
    IN IF c.open /\ c.changed
       THEN /\ winCore' = seen /\ links' = l /\ mark' = now
            /\ tilesPage' = RefreshOnChange(tilesPage, seen, l, now)
       ELSE winCore' = c /\ mark' = m /\ UNCHANGED <<links, tilesPage>>

-------------------------------------------------------------------------------
(* The tiles.                                                               *)

WinMayAsk == winAsks < WinMaxAsks /\ winAsks' = winAsks + 1
AtPage == tilesPage.shown /\ dialog = "none"

\* The tile is marked first; the call goes out behind the click.  One pick is on its way
\* at a time.
PickChartTile(u) ==
    LET m == [picked |-> TRUE, pending |-> u, picking |-> TRUE]
    IN /\ WinMayAsk /\ AtPage
       /\ u \in tilesPage.tiles \cup {Own}
       /\ ~mark.picking
       /\ mark' = m
       /\ call' = [url |-> u, mine |-> u \in tilesPage.mine]
       /\ tilesPage' = RefreshInPlace(tilesPage, winCore, links, m)
       /\ winAsked' = None
       /\ UNCHANGED <<winCore, links, dialog, winImported, winOld, winShows>>

\* A chart the core carries is selected, one it does not is added.
PickGoesOut ==
    LET u == call.url
        c == IF ~winCore.open THEN winCore
             ELSE IF u = Own \/ call.mine THEN Select(winCore, u) ELSE Add(winCore, u)
    IN /\ call # None
       /\ call' = None
       /\ WinPolled(c, [mark EXCEPT !.picking = FALSE])
       /\ winAsked' = IF TakenUp(c, u) THEN u ELSE None
       /\ UNCHANGED <<dialog, winImported, winOld, winAsks, winShows>>

RefreshChartLink(u) ==
    /\ WinMayAsk /\ AtPage /\ u \in tilesPage.mine
    /\ WinPolled(IF winCore.open THEN Refresh(winCore, u) ELSE winCore, mark)
    /\ winAsked' = None
    /\ UNCHANGED <<call, dialog, winImported, winOld, winShows>>

RemoveChartLink(u) ==
    /\ WinMayAsk /\ AtPage /\ u \in tilesPage.mine
    /\ WinPolled(IF winCore.open THEN RemoveLink(winCore, u) ELSE winCore, mark)
    /\ winAsked' = None
    /\ UNCHANGED <<call, dialog, winImported, winOld, winShows>>

ShowAddChartDialog ==
    /\ AtPage /\ winAsks < WinMaxAsks
    /\ dialog' = "add"
    /\ UNCHANGED <<winCore, links, mark, call, tilesPage, winImported, winOld, winAsked,
                   winAsks, winShows>>

\* The dialog goes away and the picker takes over from there.
PickChartStyleFile ==
    /\ dialog = "add" /\ dialog' = "file"
    /\ UNCHANGED <<winCore, links, mark, call, tilesPage, winImported, winOld, winAsked,
                   winAsks, winShows>>

DialogCancelled ==
    /\ dialog # "none" /\ dialog' = "none"
    /\ UNCHANGED <<winCore, links, mark, call, tilesPage, winImported, winOld, winAsked,
                   winAsks, winShows>>

AddChartLink(u) ==
    /\ WinMayAsk
    /\ dialog = "add" \/ (dialog = "file" /\ u \in Files)
    /\ dialog' = "none"
    /\ WinPolled(IF winCore.open THEN Add(winCore, u) ELSE winCore, mark)
    /\ winAsked' = None
    /\ UNCHANGED <<call, winImported, winOld, winShows>>

-------------------------------------------------------------------------------
(* The engine's frames, the readout tick, and the page and the chart.       *)

WinFrame ==
    /\ winCore.open /\ winCore.rs # None
    /\ \E ok \in BOOLEAN : winCore' \in Answered(winCore, ok)
    /\ UNCHANGED <<links, mark, call, tilesPage, dialog, winImported, winOld, winAsked,
                   winAsks, winShows>>

PollChartLinks ==
    /\ winCore.open /\ winCore.changed
    /\ WinPolled(winCore, mark)
    /\ UNCHANGED <<call, dialog, winImported, winOld, winAsked, winAsks, winShows>>

PageShown ==
    /\ ~tilesPage.shown /\ winShows < MaxShows /\ winShows' = winShows + 1
    /\ tilesPage' = Build(tilesPage, winCore, links, mark)
    /\ UNCHANGED <<winCore, links, mark, call, dialog, winImported, winOld, winAsked, winAsks>>

PageGone ==
    /\ tilesPage.shown /\ dialog # "add"
    /\ tilesPage' = NoPage
    /\ UNCHANGED <<winCore, links, mark, call, dialog, winImported, winOld, winAsked,
                   winAsks, winShows>>

\* The fetcher first, then the list a shell of before kept, then the reading.
ChartLinksAttach ==
    LET c == SetProvider(Opened(winCore), TRUE)
        hand == ~winImported /\ winOld # NoLinks
    IN /\ ~winCore.open /\ winShows < MaxShows /\ winShows' = winShows + 1
       /\ WinPolled(IF hand THEN Import(c, winOld) ELSE c, mark)
       /\ winImported' = TRUE /\ winOld' = IF hand THEN NoLinks ELSE winOld
       /\ winAsked' = None
       /\ UNCHANGED <<call, dialog, winAsks>>

\* The provider is cleared before the handle closes; the reading stays as it was.
ChartLinksDetach ==
    /\ winCore.open
    /\ winCore' = Closed(SetProvider(winCore, FALSE)) /\ winAsked' = None
    /\ UNCHANGED <<links, mark, call, tilesPage, dialog, winImported, winOld, winAsks,
                   winShows>>

WinInit ==
    /\ winCore = NoHandle(WinRefused, WinDisk, {})
    /\ links = WinReading(NoHandle(WinRefused, NoLinks, {}))
    /\ mark = NoMark /\ call = None /\ tilesPage = NoPage /\ dialog = "none"
    /\ winImported = FALSE /\ winOld = WinOldStore /\ winAsked = None
    /\ winAsks = 0 /\ winShows = 0

WinNext ==
    \/ \E u \in Charts : PickChartTile(u)
    \/ \E u \in Links : RefreshChartLink(u) \/ RemoveChartLink(u) \/ AddChartLink(u)
    \/ PickGoesOut \/ ShowAddChartDialog \/ PickChartStyleFile \/ DialogCancelled
    \/ WinFrame \/ PollChartLinks \/ PageShown \/ PageGone
    \/ ChartLinksAttach \/ ChartLinksDetach

\* Answers come, the tick runs and the queue is served.
WinFairness == WF_winVars(WinFrame) /\ WF_winVars(PollChartLinks) /\ WF_winVars(PickGoesOut)

WinFairSpec == WinInit /\ [][WinNext]_winVars /\ WinFairness

-------------------------------------------------------------------------------
(* Properties.                                                              *)

WinTypeOK ==
    /\ LinksTypeOK(winCore)
    /\ links \in [urls : Seq(Links), active : Charts, err : BOOLEAN, busy : BOOLEAN]
    /\ mark \in [picked : BOOLEAN, pending : Charts, picking : BOOLEAN]
    /\ tilesPage \in [shown : BOOLEAN, sig : Seq(Links), tiles : SUBSET Links, mine : SUBSET Links,
                 lit : Charts \cup {None}, reading : Charts \cup {None}, err : BOOLEAN,
                 note : BOOLEAN]
    /\ call \in [url : Charts, mine : BOOLEAN] \cup {None}
    /\ winImported \in BOOLEAN /\ winAsked \in Charts \cup {None}
    /\ dialog \in {"none", "add", "file"} /\ winOld \in {NoLinks, WinOldStore}
    /\ winAsks \in 0..WinMaxAsks /\ winShows \in 0..MaxShows

\* The call that is queued is the one the mark stands for, and it is the only one.
MarkIsOfTheCall ==
    /\ mark.picking <=> call # None
    /\ call # None => mark.picked /\ mark.pending = call.url

\* Once a change has been read the tiles are those of the engine's list, what went wrong
\* is said, and with nothing marked or being read the tile that is lit is the chart on the
\* screen.
WinShelfIsCurrent ==
    tilesPage.shown /\ winCore.open /\ ~winCore.changed =>
        /\ tilesPage.sig = winCore.entries /\ tilesPage.mine = Carried(winCore)
        /\ winCore.err => tilesPage.err
        /\ winCore.rs # None => tilesPage.reading # None
        /\ tilesPage.reading = None => /\ tilesPage.lit = winCore.drawn
                                       /\ tilesPage.note <=> winCore.drawn # Own

WinShelfIsTrue ==
    /\ MarkIsOfTheCall /\ WinShelfIsCurrent
    /\ PickIsDrawn(winCore) /\ ListIsSaved(winCore) /\ NoTextLeft(winCore)

\* A chart whose tile is tapped is drawn, or the style beside it is, or what went wrong is
\* said, unless the mariner asks for something else first.
WinPickIsDecided ==
    \A u \in Charts :
        winAsked = u ~> \/ winCore.drawn = u \/ (u # Own /\ winCore.drawn = Sibling[u])
                     \/ winCore.err \/ winAsked # u
===============================================================================
