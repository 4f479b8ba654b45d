------------------------------ MODULE LinuxCharts ------------------------------
(***************************************************************************)
(* The Charts page of the Linux settings (ui/settings/charts.c): the rows  *)
(* of the chart sets, the panels of the work that runs, and the idle each  *)
(* list is filled again on.  What moves is the model's (app-model.c and    *)
(* noaa.c), which tells the page by the signals chart-sets-changed,        *)
(* changed, notify::baking and notify::removing.                           *)
(***************************************************************************)
EXTENDS Naturals, FiniteSets

CONSTANTS
    Sets,       \* the chart sets there are
    Derived,    \* those this app prepared, whose removal is asked about and deletes files
    Managed,    \* the one the downloader writes into
    MaxOpens,   \* bound: openings of the settings
    MaxMoves,   \* bound: what the mariner does on the page
    MaxSteps    \* bound: steps of the NOAA service, of bakes and of scans

VARIABLES
    sets,       \* the sets on the list and whether each is on
    noaa,       \* the wrapper's state: phase, prepare, and whether newer editions were counted
    baking,     \* a bake of the model's own runs
    trash,      \* the deletions that run
    removing,   \* a deletion has reported last, and not its end
    cadence,    \* how often NOAA is asked for newer editions
    page,       \* the widgets as they were last filled
    due,        \* the lists an idle is queued for
    asking,     \* the set whose removal is asked about
    opens, moves, steps

vars == <<sets, noaa, baking, trash, removing, cadence, page, due, asking, opens, moves, steps>>

NoSet == "none"
NoPage == [shown |-> FALSE, rows |-> <<>>, update |-> "none", panels |-> {}]
NoaaStates == {n \in [phase : {"quiet", "reading", "downloading"}, prep : BOOLEAN,
                      check : BOOLEAN, newer : BOOLEAN] : n.prep => n.phase = "quiet"}

-------------------------------------------------------------------------------
(* What the page draws.                                                     *)

\* An update is offered on the set it is written into.  It would replace a transfer that
\* runs, so it stands down for one, and for what is prepared.
Offered(s, n, b) ==
    IF Managed \notin DOMAIN s \/ ~n.newer THEN "none"
    ELSE IF n.phase # "downloading" /\ ~b /\ ~n.prep THEN "on" ELSE "off"

\* Each panel is there while its work is.
Panels(n, b, r) ==
    {w \in {"noaa", "bake", "gone"} :
        CASE w = "noaa" -> n.phase = "downloading"
          [] w = "bake" -> b \/ n.prep
          [] OTHER -> r}

FillSets(p) == [p EXCEPT !.rows = sets, !.update = Offered(sets, noaa, baking)]
FillWork(p) == [p EXCEPT !.panels = Panels(noaa, baking, removing)]

\* A list of a page that is up is queued once, however much moves before the idle.
SetsChanged == due' = [due EXCEPT !.sets = @ \/ page.shown]
WorkChanged == due' = [sets |-> due.sets \/ page.shown, work |-> due.work \/ page.shown]

Move == page.shown /\ moves < MaxMoves /\ moves' = moves + 1
Step == steps < MaxSteps /\ steps' = steps + 1

-------------------------------------------------------------------------------
(* The window.                                                              *)

\* The page is filled as it is built.
BuildChartsPage ==
    /\ ~page.shown /\ opens < MaxOpens /\ opens' = opens + 1
    /\ page' = FillWork(FillSets([NoPage EXCEPT !.shown = TRUE]))
    /\ UNCHANGED <<sets, noaa, baking, trash, removing, cadence, due, asking, moves, steps>>

\* The idles are dropped, and the question goes with the window it stands on.
WindowDestroyed ==
    /\ page.shown
    /\ page' = NoPage /\ due' = [sets |-> FALSE, work |-> FALSE] /\ asking' = NoSet
    /\ UNCHANGED <<sets, noaa, baking, trash, removing, cadence, opens, moves, steps>>

RefillSets ==
    /\ due.sets /\ due' = [due EXCEPT !.sets = FALSE]
    /\ page' = FillSets(page)
    /\ UNCHANGED <<sets, noaa, baking, trash, removing, cadence, asking, opens, moves, steps>>

RefillWork ==
    /\ due.work /\ due' = [due EXCEPT !.work = FALSE]
    /\ page' = FillWork(page)
    /\ UNCHANGED <<sets, noaa, baking, trash, removing, cadence, asking, opens, moves, steps>>

-------------------------------------------------------------------------------
(* The sets.                                                                *)

\* The row's switch moves with the mariner's hand; a set that has gone takes no answer.
ChartSetToggled(s) ==
    /\ Move /\ asking = NoSet /\ s \in DOMAIN page.rows
    /\ page' = [page EXCEPT !.rows[s] = ~@]
    /\ IF s \in DOMAIN sets
       THEN sets' = [sets EXCEPT ![s] = page'.rows[s]] /\ SetsChanged
       ELSE UNCHANGED <<sets, due>>
    /\ UNCHANGED <<noaa, baking, trash, removing, cadence, asking, opens, steps>>

\* What was prepared from it is deleted on a thread of its own.
RemoveChartSet(s) ==
    IF s \in DOMAIN sets
    THEN /\ sets' = [x \in DOMAIN sets \ {s} |-> sets[x]] /\ SetsChanged
         /\ trash' = IF s \in Derived THEN trash + 1 ELSE trash
    ELSE UNCHANGED <<sets, due, trash>>

RemoveClicked(s) ==
    /\ Move /\ asking = NoSet /\ s \in DOMAIN page.rows \ {Managed}
    /\ IF s \in Derived THEN asking' = s /\ UNCHANGED <<sets, due, trash>>
       ELSE RemoveChartSet(s) /\ UNCHANGED asking
    /\ UNCHANGED <<noaa, baking, removing, cadence, page, opens, steps>>

RemoveAnswered(yes) ==
    /\ asking # NoSet /\ asking' = NoSet
    /\ IF yes THEN RemoveChartSet(asking) ELSE UNCHANGED <<sets, due, trash>>
    /\ UNCHANGED <<noaa, baking, removing, cadence, page, opens, moves, steps>>

\* A folder that was picked, or that a download wrote into.
ChartSetNoted(s) ==
    /\ Step /\ s \notin DOMAIN sets
    /\ sets' = [x \in DOMAIN sets \cup {s} |-> IF x = s THEN TRUE ELSE sets[x]]
    /\ SetsChanged
    /\ UNCHANGED <<noaa, baking, trash, removing, cadence, page, asking, opens, moves>>

\* A scan lands: what NOAA reissued is counted against it, before the page is told.
ScanLands(newer) ==
    /\ Step /\ (newer => noaa.check)
    /\ noaa' = [noaa EXCEPT !.newer = newer] /\ SetsChanged
    /\ UNCHANGED <<sets, baking, trash, removing, cadence, page, asking, opens, moves>>

-------------------------------------------------------------------------------
(* The work.                                                                *)

\* The service moves: a catalog read, a transfer, what it brought prepared, a check
\* recorded and counted.
NoaaChanged ==
    /\ Step
    /\ noaa' \in {n \in NoaaStates \ {noaa} : n.newer => n.check}
    /\ WorkChanged
    /\ UNCHANGED <<sets, baking, trash, removing, cadence, page, asking, opens, moves>>

Told == IF noaa' # noaa THEN WorkChanged ELSE UNCHANGED due

\* The order is out, and the state read again, before the handler returns; there may be
\* nothing to fetch.
UpdateClicked ==
    /\ Move /\ asking = NoSet /\ page.update = "on"
    /\ noaa' \in {noaa} \cup {[noaa EXCEPT !.phase = p, !.prep = FALSE] :
                              p \in {"reading", "downloading"}}
    /\ Told
    /\ UNCHANGED <<sets, baking, trash, removing, cadence, page, asking, opens, steps>>

\* The transfer's panel cancels it, and a bake's does where it is the service that
\* prepares; charts that had come may be prepared still, or until their bake has stopped.
NoaaCancelClicked ==
    /\ Move /\ asking = NoSet
    /\ "noaa" \in page.panels \/ ("bake" \in page.panels /\ ~baking)
    /\ \E b \in BOOLEAN : noaa' = [noaa EXCEPT !.phase = "quiet", !.prep = b]
    /\ Told
    /\ UNCHANGED <<sets, baking, trash, removing, cadence, page, asking, opens, steps>>

\* A mariner who asks for the check gets one now: of the catalog as it was read, or of
\* one to be read.
CadenceChosen(c) ==
    /\ Move /\ asking = NoSet /\ c # cadence
    /\ cadence' = c
    /\ noaa' \in IF c = "never" THEN {noaa}
                 ELSE {noaa} \cup {[noaa EXCEPT !.check = TRUE, !.newer = b] : b \in BOOLEAN}
                      \cup (IF noaa.phase = "quiet"
                            THEN {[noaa EXCEPT !.phase = "reading", !.prep = FALSE]} ELSE {})
    /\ Told
    /\ UNCHANGED <<sets, baking, trash, removing, page, asking, opens, steps>>

\* notify::baking, at both ends.
BakeStarts ==
    /\ Step /\ ~baking /\ baking' = TRUE /\ WorkChanged
    /\ UNCHANGED <<sets, noaa, trash, removing, cadence, page, asking, opens, moves>>

BakeDone ==
    /\ baking /\ baking' = FALSE /\ WorkChanged
    /\ UNCHANGED <<sets, noaa, trash, removing, cadence, page, asking, opens, moves, steps>>

\* A deletion reports; its last report takes the panel down, another's with it.
RemoveProgress(over) ==
    /\ trash > 0 /\ removing' = ~over /\ WorkChanged
    /\ trash' = IF over THEN trash - 1 ELSE trash
    /\ UNCHANGED <<sets, noaa, baking, cadence, page, asking, opens, moves, steps>>

Init ==
    /\ sets \in {[x \in on |-> TRUE] : on \in SUBSET Sets}
    /\ noaa = [phase |-> "quiet", prep |-> FALSE, check |-> FALSE, newer |-> FALSE]
    /\ baking = FALSE /\ trash = 0 /\ removing = FALSE /\ cadence = "daily"
    /\ page = NoPage /\ due = [sets |-> FALSE, work |-> FALSE] /\ asking = NoSet
    /\ opens = 0 /\ moves = 0 /\ steps = 0

Next ==
    \/ BuildChartsPage \/ WindowDestroyed \/ RefillSets \/ RefillWork
    \/ \E s \in Sets : ChartSetToggled(s) \/ RemoveClicked(s) \/ ChartSetNoted(s)
    \/ \E b \in BOOLEAN : RemoveAnswered(b) \/ ScanLands(b) \/ RemoveProgress(b)
    \/ NoaaChanged \/ UpdateClicked \/ NoaaCancelClicked
    \/ \E c \in {"never", "daily"} : CadenceChosen(c)
    \/ BakeStarts \/ BakeDone

Spec == Init /\ [][Next]_vars

-------------------------------------------------------------------------------
(* Properties.                                                              *)

SetsConstants == Derived \cup {Managed} \subseteq Sets /\ NoSet \notin Sets

PartOf(f) == DOMAIN f \subseteq Sets /\ \A s \in DOMAIN f : f[s] \in BOOLEAN

TypeOK ==
    /\ PartOf(sets) /\ PartOf(page.rows) /\ noaa \in NoaaStates
    /\ trash \in 0..MaxMoves
    /\ {baking, removing, page.shown, due.sets, due.work} \subseteq BOOLEAN
    /\ cadence \in {"never", "daily"} /\ page.update \in {"none", "on", "off"}
    /\ page.panels \subseteq {"noaa", "bake", "gone"} /\ asking \in Sets \cup {NoSet}
    /\ opens <= MaxOpens /\ moves <= MaxMoves /\ steps <= MaxSteps

\* The page that is up says what is so, or is about to: each row is a set of the list
\* with its switch as it is, the update is offered as it may be taken, and each panel is
\* of work that runs, but for what an idle is queued for; no idle is queued for a page
\* that has gone.
PageIsTrue ==
    /\ page.shown /\ ~due.sets => page.rows = sets /\ page.update = Offered(sets, noaa, baking)
    /\ page.shown /\ ~due.work => page.panels = Panels(noaa, baking, removing)
    /\ due.sets \/ due.work => page.shown
    /\ asking # NoSet => asking \in Derived /\ page.shown

\* Update stands down while a transfer runs, which the order would replace with no word
\* to the mariner (charts.c): not so until the idle that follows the order.
NoTransferIsReplaced == [][UpdateClicked => noaa.phase # "downloading"]_vars
===============================================================================
