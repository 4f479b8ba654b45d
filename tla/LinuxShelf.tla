------------------------------ MODULE LinuxShelf ------------------------------
(***************************************************************************)
(* The shelf of charts on the Linux settings page: the links as the shell  *)
(* last read them (model/links.c), the row of tiles and the pick it marks  *)
(* before the core has begun to read it (ui/charts/gallery.c), the lines   *)
(* below it and the window that adds a link (ui/settings/charts.c).  A     *)
(* frame adopts an answer and polls in one step (controller.c), so the     *)
(* shell's reading is as new as the engine's last change.                  *)
(***************************************************************************)
EXTENDS ChartLinks

CONSTANTS
    LinuxRefused,   \* the styles its renderer will not draw
    LinuxDisk,      \* what the core has on disk at launch: [links, active]
    LinuxOldStore,  \* the list a shell of before kept itself, of the same shape
    LinuxMaxAsks    \* bound: what the mariner asks for

VARIABLES
    core,      \* the engine's links
    list,      \* the shell's reading of them
    row,       \* the tiles
    lines,     \* what the page says below them, and whether they are to be filled
    adding,    \* the add window is up
    imported, old,
    asked,     \* the tile tapped last whose read has begun, None once something else is asked
    asks, shows

linuxVars == <<core, list, row, lines, adding, imported, old, asked, asks, shows>>

LinuxShelfConstants ==
    /\ LinksConstants
    /\ LinuxRefused \subseteq Links /\ ListOK(LinuxDisk) /\ ListOK(LinuxOldStore)
    /\ LinuxMaxAsks \in Nat

-------------------------------------------------------------------------------
(* What is shown.                                                           *)

\* lk_links_adopt
LinuxReading(c) ==
    [urls |-> c.entries, active |-> c.active, err |-> c.err, busy |-> c.rs # None]

\* The shipped charts, and the links of the mariner's own.
Tiles(l) == Catalog \cup ToSet(l.urls)

NoRow == [shown |-> FALSE, pending |-> None, begun |-> FALSE, tiles |-> {}, mine |-> {},
          lit |-> None, reading |-> None]

\* The pick is retired once it is the chart that is drawn, or the read that began for it
\* is over; until then it is the tile that is lit.
Fill(r, l) ==
    LET begun == r.begun \/ (r.pending # None /\ l.busy)
        answered == r.pending # None /\ (l.active = r.pending \/ (begun /\ ~l.busy))
        pending == IF answered THEN None ELSE r.pending
        picked == IF pending # None THEN pending ELSE IF l.busy THEN l.active ELSE None
    IN [r EXCEPT !.pending = pending, !.begun = begun /\ ~answered,
                 !.tiles = Tiles(l), !.mine = ToSet(l.urls), !.reading = picked,
                 !.lit = IF picked # None THEN picked ELSE l.active]

Lines(l) == [busy |-> l.busy, err |-> l.err, linked |-> l.active # Own, due |-> FALSE]

\* What every call to the links ends with: a change is read, the tiles are filled at
\* once, and the lines when the shell is idle.
LinuxPolled(c, r) ==
    IF c.open /\ c.changed
    THEN /\ core' = [c EXCEPT !.changed = FALSE]
         /\ list' = LinuxReading(c)
         /\ row' = IF r.shown THEN Fill(r, LinuxReading(c)) ELSE r
         /\ lines' = [lines EXCEPT !.due = r.shown]
    ELSE core' = c /\ row' = r /\ UNCHANGED <<list, lines>>

-------------------------------------------------------------------------------
(* The tiles.                                                               *)

LinuxMayAsk == row.shown /\ asks < LinuxMaxAsks /\ asks' = asks + 1

\* The tile of the chart that is active asks for nothing.  A shipped chart the mariner
\* has not taken yet is added, and the core picks it.
TileClicked(u) ==
    LET r == Fill([row EXCEPT !.pending = u, !.begun = FALSE], list)
        c == IF ~core.open THEN core
             ELSE IF u = Own \/ u \in row.mine THEN Select(core, u) ELSE Add(core, u)
    IN /\ LinuxMayAsk /\ ~adding
       /\ u \in row.tiles \cup {Own} /\ u # list.active
       /\ LinuxPolled(c, r)
       /\ asked' = IF TakenUp(c, u) THEN u ELSE None
       /\ UNCHANGED <<adding, imported, old, shows>>

\* Nothing was reported of the pick for 25 seconds.
PickGaveUp ==
    /\ row.shown /\ row.pending # None
    /\ row' = Fill([row EXCEPT !.pending = None, !.begun = FALSE], list)
    /\ UNCHANGED <<core, list, lines, adding, imported, old, asked, asks, shows>>

\* A link of the mariner's own has a menu.
TileRefresh(u) ==
    /\ LinuxMayAsk /\ ~adding /\ u \in row.mine
    /\ LinuxPolled(IF core.open THEN Refresh(core, u) ELSE core, row)
    /\ asked' = None
    /\ UNCHANGED <<adding, imported, old, shows>>

TileRemove(u) ==
    /\ LinuxMayAsk /\ ~adding /\ u \in row.mine
    /\ LinuxPolled(IF core.open THEN RemoveLink(core, u) ELSE core, row)
    /\ asked' = None
    /\ UNCHANGED <<adding, imported, old, shows>>

\* The add window stands over the page, and goes at once when a link is given.
AddLinkAsked ==
    /\ row.shown /\ ~adding /\ asks < LinuxMaxAsks
    /\ adding' = TRUE
    /\ UNCHANGED <<core, list, row, lines, imported, old, asked, asks, shows>>

AddLinkSubmit(u) ==
    /\ LinuxMayAsk /\ adding
    /\ LinuxPolled(IF core.open THEN Add(core, u) ELSE core, row)
    /\ adding' = FALSE /\ asked' = None
    /\ UNCHANGED <<imported, old, shows>>

AddLinkCancelled ==
    /\ adding /\ adding' = FALSE
    /\ UNCHANGED <<core, list, row, lines, imported, old, asked, asks, shows>>

-------------------------------------------------------------------------------
(* The engine's frames, and the page and the chart as they come and go.     *)

LinuxFrame ==
    /\ core.open /\ core.rs # None
    /\ \E ok \in BOOLEAN : \E c \in Answered(core, ok) : LinuxPolled(c, row)
    /\ UNCHANGED <<adding, imported, old, asked, asks, shows>>

Refill ==
    /\ lines.due
    /\ lines' = Lines(list)
    /\ UNCHANGED <<core, list, row, adding, imported, old, asked, asks, shows>>

PageBuilt ==
    /\ ~row.shown /\ shows < MaxShows
    /\ row' = Fill([NoRow EXCEPT !.shown = TRUE], list)
    /\ lines' = Lines(list) /\ shows' = shows + 1
    /\ UNCHANGED <<core, list, adding, imported, old, asked, asks>>

\* The window going takes the add window, the pick's timer and a queued refill with it.
PageDestroyed ==
    /\ row.shown
    /\ row' = NoRow /\ lines' = [lines EXCEPT !.due = FALSE] /\ adding' = FALSE
    /\ UNCHANGED <<core, list, imported, old, asked, asks, shows>>

\* The fetcher first, then the list a shell of before kept.
ChartOpened ==
    LET c == SetProvider(Opened(core), TRUE)
        hand == ~imported /\ old # NoLinks
    IN /\ ~core.open /\ shows < MaxShows /\ shows' = shows + 1
       /\ LinuxPolled(IF hand THEN Import(c, old) ELSE c, row)
       /\ imported' = TRUE /\ old' = IF hand THEN NoLinks ELSE old
       /\ asked' = None
       /\ UNCHANGED <<adding, asks>>

\* The reading stays as it was.
ChartClosed ==
    /\ core.open
    /\ core' = Closed(core) /\ asked' = None
    /\ UNCHANGED <<list, row, lines, adding, imported, old, asks, shows>>

LinuxInit ==
    /\ core = NoHandle(LinuxRefused, LinuxDisk, {})
    /\ list = LinuxReading(NoHandle(LinuxRefused, NoLinks, {}))
    /\ row = NoRow /\ lines = Lines(LinuxReading(NoHandle(LinuxRefused, NoLinks, {})))
    /\ adding = FALSE /\ imported = FALSE /\ old = LinuxOldStore /\ asked = None
    /\ asks = 0 /\ shows = 0

LinuxNext ==
    \/ \E u \in Charts : TileClicked(u)
    \/ \E u \in Links : TileRefresh(u) \/ TileRemove(u) \/ AddLinkSubmit(u)
    \/ AddLinkAsked \/ AddLinkCancelled \/ PickGaveUp
    \/ LinuxFrame \/ Refill \/ PageBuilt \/ PageDestroyed \/ ChartOpened \/ ChartClosed

\* Answers come, timers fire and the shell falls idle.
LinuxFairness == WF_linuxVars(LinuxFrame) /\ WF_linuxVars(Refill) /\ WF_linuxVars(PickGaveUp)

LinuxFairSpec == LinuxInit /\ [][LinuxNext]_linuxVars /\ LinuxFairness

-------------------------------------------------------------------------------
(* Properties.                                                              *)

LinuxTypeOK ==
    /\ LinksTypeOK(core)
    /\ list \in [urls : Seq(Links), active : Charts, err : BOOLEAN, busy : BOOLEAN]
    /\ lines \in [busy : BOOLEAN, err : BOOLEAN, linked : BOOLEAN, due : BOOLEAN]
    /\ row \in [shown : BOOLEAN, pending : Charts \cup {None}, begun : BOOLEAN,
                tiles : SUBSET Links, mine : SUBSET Links, lit : Charts \cup {None},
                reading : Charts \cup {None}]
    /\ {adding, imported} \subseteq BOOLEAN /\ asked \in Charts \cup {None}
    /\ old \in {NoLinks, LinuxOldStore} /\ asks \in 0..LinuxMaxAsks /\ shows \in 0..MaxShows

\* While a chart is open the shell's list and pick are the engine's, and it says what is
\* read and what went wrong (links.c).  It may say more: a read dropped without a word,
\* or of the chart that was open before.
ReadingIsCurrent ==
    core.open => /\ list.urls = core.entries /\ list.active = core.active
                 /\ core.rs # None => list.busy
                 /\ core.err => list.err

\* The tiles and, once the shell is idle, the lines say what was read last; a pick that
\* is marked has not been answered for (gallery.c).
LinuxShelfIsCurrent ==
    row.shown =>
        /\ row.tiles = Tiles(list) /\ row.mine = ToSet(list.urls)
        /\ row.pending # None => row.pending # list.active
        /\ row.begun => row.pending # None /\ list.busy
        /\ row.lit # list.active => row.lit = row.pending
        /\ ~lines.due => lines = Lines(list)

\* A tile that is lit with nothing being read and nothing wrong is the chart on the
\* screen, or one the core takes for it.
LitIsDrawn ==
    row.shown /\ core.open /\ core.rs = None /\ ~core.err /\ row.pending = None
        => Draws(core, row.lit)

LinuxShelfIsTrue ==
    /\ ReadingIsCurrent /\ LinuxShelfIsCurrent /\ LitIsDrawn
    /\ PickIsDrawn(core) /\ ListIsSaved(core) /\ NoTextLeft(core)

\* A chart whose tile is tapped is drawn, or the style beside it is, or what went wrong is
\* said, unless the mariner asks for something else first.
LinuxPickIsDecided ==
    \A u \in Charts :
        asked = u ~> \/ core.drawn = u \/ (u # Own /\ core.drawn = Sibling[u])
                     \/ core.err \/ asked # u
===============================================================================
