---------------------------- MODULE WindowsCharts ----------------------------
(***************************************************************************)
(* The Charts page of the Windows settings (settings/ui/ChartsPage.cpp):   *)
(* the rows of the chart sets, the lines of the work that runs, and when   *)
(* the page is built again, which is when its shape differs from the shape *)
(* written down at the end of the build before it.  A page built while a   *)
(* download runs polls that download before its own shape is written down: *)
(* where that poll finds the shape changed it builds the page, which polls *)
(* again, and so on until the stack is gone.                               *)
(***************************************************************************)
EXTENDS Naturals, FiniteSets

CONSTANTS
    Sets,       \* the chart sets there are
    Derived,    \* those this app prepared, whose removal is asked about and deletes files
    Managed,    \* the one the downloader writes into
    MaxOpens,   \* bound: openings of the settings, and launches
    MaxMoves,   \* bound: what the mariner does on the page
    MaxSteps    \* bound: steps of the NOAA service, of bakes and of scans

VARIABLES
    sets,       \* the sets on the list and whether each is on
    noaa,       \* the shell's copy of the service's state
    bake,       \* a bake runs
    removal,    \* "none", "running" or "over": the job stays, to say what went
    win, tab,   \* the settings window is up; the tab it is, or was last, on
    asking,     \* the set whose removal is asked about
    picker,     \* the NOAA picker is queued
    page,       \* the controls as the last build left them
    opens, moves, steps

vars == <<sets, noaa, bake, removal, win, tab, asking, picker, page, opens, moves, steps>>

NoSet == "none"
NoPage == [sig |-> <<>>, rows |-> <<>>, line |-> FALSE, work |-> FALSE, gone |-> FALSE,
           update |-> "none", add |-> TRUE, hung |-> FALSE]
Quiet == [phase |-> "quiet", prep |-> FALSE, check |-> "none", newer |-> FALSE]

ChartsVisible == win /\ tab = "charts"

-------------------------------------------------------------------------------
(* The page.                                                                *)

\* Identities only, and the sections that come and go with work.
Shape(s, n, b, r) == [sets |-> DOMAIN s, working |-> b \/ n.prep, removing |-> r # "none",
                      check |-> n.check, newer |-> n.newer, loading |-> n.phase = "downloading"]

\* The switch is written only where the core disagrees with it.
RefreshInPlace(p, s) ==
    [p EXCEPT !.rows = [x \in DOMAIN @ |-> IF x \in DOMAIN s THEN s[x] ELSE @[x]]]

\* What a build leaves.  An update is offered on the set it writes into, and is to press
\* while no other work runs.
BuildCharts(p, s, n, b, r) ==
    [p EXCEPT !.rows = s, !.line = n.phase = "downloading", !.work = b \/ n.prep,
              !.gone = r # "none", !.add = ~b,
              !.update = IF Managed \in DOMAIN s /\ n.newer
                         THEN IF n.phase # "downloading" /\ ~b THEN "on" ELSE "off"
                         ELSE "none",
              !.sig = Shape(s, n, b, r)]

\* Another tab's build takes the page's controls and leaves what was written down.
BuildOther(p) ==
    [p EXCEPT !.rows = <<>>, !.line = FALSE, !.work = FALSE, !.gone = FALSE,
              !.update = "none", !.add = TRUE]

\* The work section is filled from a poll of the download, and that poll builds the page
\* wherever the shape is not the one written down.
NeverReturns(p, seen, s, n, b, r) ==
    seen /\ n.phase = "downloading" /\ ~b /\ Shape(s, n, b, r) # p.sig

BuildSettingsPage(p, t, seen, s, n, b, r) ==
    IF t # "charts" THEN BuildOther(p)
    ELSE IF NeverReturns(p, seen, s, n, b, r) THEN [p EXCEPT !.hung = TRUE]
    ELSE BuildCharts(p, s, n, b, r)

RefreshOnChange(p, seen, s, n, b, r) ==
    IF ~seen THEN p
    ELSE IF Shape(s, n, b, r) # p.sig THEN BuildSettingsPage(p, "charts", seen, s, n, b, r)
    ELSE RefreshInPlace(p, s)

\* The page follows the core's prepare while no bake of the shell's runs; the transfer's
\* line goes with the transfer.
PollNoaaPane(p, t, seen, s, n, b, r) ==
    LET q == IF ~b /\ Shape(s, n, b, r) # p.sig THEN RefreshOnChange(p, seen, s, n, b, r) ELSE p
    IN IF ~q.hung /\ q.line /\ n.phase # "downloading"
       THEN BuildSettingsPage(q, t, seen, s, n, b, r) ELSE q

\* A refresh in place ends in that poll.
InPlace(p, t, seen, s, n, b, r) ==
    PollNoaaPane(RefreshInPlace(p, s), t, seen, s, n, b, r)

-------------------------------------------------------------------------------
(* The settings window.                                                     *)

Alive == ~page.hung
Move == Alive /\ moves < MaxMoves /\ moves' = moves + 1
Step == Alive /\ steps < MaxSteps /\ steps' = steps + 1

\* The page is built before the window is there.
ShowSettings ==
    /\ Alive /\ ~win /\ opens < MaxOpens /\ opens' = opens + 1
    /\ page' = BuildSettingsPage(page, tab, FALSE, sets, noaa, bake, removal)
    /\ win' = TRUE
    /\ UNCHANGED <<sets, noaa, bake, removal, tab, asking, picker, moves, steps>>

PickTab(t) ==
    /\ Move /\ win /\ tab # t /\ asking = NoSet
    /\ tab' = t
    /\ page' = BuildSettingsPage(page, t, TRUE, sets, noaa, bake, removal)
    /\ UNCHANGED <<sets, noaa, bake, removal, win, asking, picker, opens, steps>>

\* The controls outlive the window.
CloseSettings ==
    /\ Alive /\ win
    /\ win' = FALSE /\ asking' = NoSet
    /\ UNCHANGED <<sets, noaa, bake, removal, tab, picker, page, opens, moves, steps>>

-------------------------------------------------------------------------------
(* The sets.                                                                *)

SetChartSetOn(s) ==
    /\ Move /\ ChartsVisible /\ asking = NoSet /\ s \in DOMAIN page.rows \cap DOMAIN sets
    /\ LET on == [sets EXCEPT ![s] = ~page.rows[s]]
           p == [page EXCEPT !.rows[s] = ~@]
       IN /\ sets' = on
          /\ page' = InPlace(p, tab, win, on, noaa, bake, removal)
    /\ UNCHANGED <<noaa, bake, removal, win, tab, asking, picker, opens, steps>>

\* The charts this app prepared go too, in a job of their own.
Removed(s) ==
    LET left == [x \in DOMAIN sets \ {s} |-> sets[x]]
        job == IF s \in Derived THEN "running" ELSE removal
    IN /\ sets' = left /\ removal' = job
       /\ page' = IF win THEN BuildSettingsPage(page, tab, win, left, noaa, bake, job) ELSE page

RemoveChartSet(s) ==
    /\ Move /\ ChartsVisible /\ asking = NoSet
    /\ s \in (DOMAIN page.rows \cap DOMAIN sets) \ (Derived \cup {Managed})
    /\ Removed(s)
    /\ UNCHANGED <<noaa, bake, win, tab, asking, picker, opens, steps>>

\* The question stands in the settings window, and goes with it.
ConfirmRemoveChartSet(s) ==
    /\ Move /\ ChartsVisible /\ asking = NoSet
    /\ s \in (DOMAIN page.rows \cap Derived) \ {Managed}
    /\ asking' = s
    /\ UNCHANGED <<sets, noaa, bake, removal, win, tab, picker, page, opens, steps>>

RemoveAnswered(yes) ==
    /\ Alive /\ asking # NoSet /\ asking' = NoSet
    /\ IF yes /\ asking \in DOMAIN sets
       THEN Removed(asking) ELSE UNCHANGED <<sets, removal, page>>
    /\ UNCHANGED <<noaa, bake, win, tab, picker, opens, moves, steps>>

\* A folder that was opened, or that a bake wrote into.
AdoptChartSet(s) ==
    /\ Step /\ s \notin DOMAIN sets
    /\ LET more == [x \in DOMAIN sets \cup {s} |-> IF x = s THEN TRUE ELSE sets[x]]
       IN /\ sets' = more
          /\ page' = RefreshOnChange(page, ChartsVisible, more, noaa, bake, removal)
    /\ UNCHANGED <<noaa, bake, removal, win, tab, asking, picker, opens, moves>>

\* A scan ends, and what NOAA reissued is counted against what it found.
PollChartSets(newer) ==
    /\ Step
    /\ LET n == [noaa EXCEPT !.newer = newer /\ noaa.check = "done"]
       IN /\ noaa' = n
          /\ page' = RefreshOnChange(page, ChartsVisible, sets, n, bake, removal)
    /\ UNCHANGED <<sets, bake, removal, win, tab, asking, picker, opens, moves>>

-------------------------------------------------------------------------------
(* The work.                                                                *)

\* What the service's state may be found to be next.
NoaaNext ==
    {n \in [phase : {"quiet", "reading", "downloading"}, prep : BOOLEAN,
            check : {"none", "on", "done"}, newer : BOOLEAN] :
        /\ n # noaa
        /\ n.prep => n.phase = "quiet"
        /\ n.phase = "downloading" => noaa.phase # "quiet"
        /\ n.newer => n.check = "done"
        /\ n.check = noaa.check => n.newer = noaa.newer
        /\ noaa.check = "none" => n.check # "done"
        /\ noaa.check = "done" => n.check # "none"}

\* The copy is taken, and the page polled; the end of a check is told first.
NoaaChanged ==
    /\ Step
    /\ \E n \in NoaaNext :
        LET over == noaa.check = "on" /\ n.check = "done"
            p == IF over THEN RefreshOnChange(page, ChartsVisible, sets, n, bake, removal) ELSE page
        IN /\ noaa' = n
           /\ page' = IF p.hung THEN p
                      ELSE PollNoaaPane(p, tab, ChartsVisible, sets, n, bake, removal)
    /\ UNCHANGED <<sets, bake, removal, win, tab, asking, picker, opens, moves>>

\* The order is made and the copy taken again before the page is built.
UpdateClicked ==
    /\ Move /\ ChartsVisible /\ asking = NoSet /\ page.update = "on"
    /\ \E phase \in {"quiet", "reading", "downloading"} :
        LET n == [noaa EXCEPT !.phase = phase]
            p == PollNoaaPane(page, tab, TRUE, sets, n, bake, removal)
        IN /\ noaa' = n
           /\ page' = IF p.hung THEN p
                      ELSE BuildSettingsPage(p, tab, TRUE, sets, n, bake, removal)
    /\ UNCHANGED <<sets, bake, removal, win, tab, asking, picker, opens, steps>>

\* Cancel of the download, whose end the copy has yet to say.
CancelClicked ==
    /\ Move /\ ChartsVisible /\ asking = NoSet /\ page.line
    /\ page' = BuildSettingsPage(page, tab, TRUE, sets, noaa, bake, removal)
    /\ UNCHANGED <<sets, noaa, bake, removal, win, tab, asking, picker, opens, steps>>

\* Nothing tells the page that a bake has begun.
BakeStarts ==
    /\ Step /\ ~bake /\ bake' = TRUE
    /\ UNCHANGED <<sets, noaa, removal, win, tab, asking, picker, page, opens, moves>>

\* BakeEnds that leaves the page as it is.
BakeEndsUntold ==
    /\ Alive /\ bake /\ bake' = FALSE
    /\ UNCHANGED <<sets, noaa, removal, win, tab, asking, picker, page, opens, moves, steps>>

BakeEnds ==
    /\ Alive /\ bake /\ bake' = FALSE
    /\ page' = IF win THEN BuildSettingsPage(page, tab, win, sets, noaa, FALSE, removal) ELSE page
    /\ UNCHANGED <<sets, noaa, removal, win, tab, asking, picker, opens, moves, steps>>

RemovalEnds ==
    /\ Alive /\ removal = "running" /\ removal' = "over"
    /\ UNCHANGED <<sets, noaa, bake, win, tab, asking, picker, page, opens, moves, steps>>

\* The picker is queued, so that the button is not closed over in its own handler.
PickerAsked ==
    /\ Move /\ ChartsVisible /\ asking = NoSet /\ ~picker
    /\ (page.add /\ ~page.line) \/ Managed \in DOMAIN page.rows
    /\ picker' = TRUE
    /\ UNCHANGED <<sets, noaa, bake, removal, win, tab, asking, page, opens, steps>>

ShowNoaaPicker ==
    /\ Alive /\ picker /\ picker' = FALSE
    /\ win' = FALSE /\ asking' = NoSet
    /\ UNCHANGED <<sets, noaa, bake, removal, tab, page, opens, moves, steps>>

\* A build that never returns ends the program; what is on disk is there at the next launch.
Relaunch ==
    /\ page.hung
    /\ page' = NoPage /\ win' = FALSE /\ tab' = "other" /\ noaa' = Quiet
    /\ bake' = FALSE /\ removal' = "none" /\ asking' = NoSet /\ picker' = FALSE
    /\ UNCHANGED <<sets, opens, moves, steps>>

Init ==
    /\ sets \in {[x \in on |-> TRUE] : on \in SUBSET Sets} /\ noaa = Quiet
    /\ bake = FALSE /\ removal = "none" /\ win = FALSE /\ tab = "other"
    /\ asking = NoSet /\ picker = FALSE /\ page = NoPage
    /\ opens = 0 /\ moves = 0 /\ steps = 0

Next ==
    \/ ShowSettings \/ CloseSettings \/ \E t \in {"charts", "other"} : PickTab(t)
    \/ \E s \in Sets : \/ SetChartSetOn(s) \/ RemoveChartSet(s)
                       \/ ConfirmRemoveChartSet(s) \/ AdoptChartSet(s)
    \/ \E yes \in BOOLEAN : RemoveAnswered(yes) \/ PollChartSets(yes)
    \/ NoaaChanged \/ UpdateClicked \/ CancelClicked
    \/ BakeStarts \/ BakeEnds \/ RemovalEnds
    \/ PickerAsked \/ ShowNoaaPicker \/ Relaunch

Spec == Init /\ [][Next]_vars

-------------------------------------------------------------------------------
(* Properties.                                                              *)

SetsConstants == Derived \cup {Managed} \subseteq Sets /\ NoSet \notin Sets

PartOf(f) == DOMAIN f \subseteq Sets /\ \A s \in DOMAIN f : f[s] \in BOOLEAN

TypeOK ==
    /\ PartOf(sets) /\ PartOf(page.rows)
    /\ noaa \in [phase : {"quiet", "reading", "downloading"}, prep : BOOLEAN,
                 check : {"none", "on", "done"}, newer : BOOLEAN]
    /\ {bake, win, picker, page.line, page.work, page.gone, page.add, page.hung} \subseteq BOOLEAN
    /\ removal \in {"none", "running", "over"} /\ tab \in {"charts", "other"}
    /\ asking \in Sets \cup {NoSet} /\ page.update \in {"none", "on", "off"}
    /\ opens <= MaxOpens /\ moves <= MaxMoves /\ steps <= MaxSteps

\* Each row is a set on the list with its switch as it is, and a download that has ended
\* is not reported on, on the page that is up.
RowsAreTrue ==
    ChartsVisible /\ ~page.hung => page.rows = sets /\ (page.line => noaa.phase = "downloading")

\* With no bake of the shell's running the page has the sections of what runs, and offers
\* no update over a download.
WorkIsShown ==
    ChartsVisible /\ ~page.hung /\ ~bake =>
        /\ page.sig = Shape(sets, noaa, bake, removal)
        /\ page.line <=> noaa.phase = "downloading"
        /\ page.work <=> noaa.prep
        /\ page.gone <=> removal # "none"
        /\ page.update = "on" => noaa.phase # "downloading"

\* The set whose removal is asked about is one the mariner can be asked about.
PageIsTrue == RowsAreTrue /\ WorkIsShown /\ (asking # NoSet => asking \in Derived /\ win)

\* A page that is built is there to be seen.  The words beside the poll in the build say
\* that it leaves the section current on the frame it is built in (ChartsPage.cpp).
BuildReturns == ~page.hung
===============================================================================
