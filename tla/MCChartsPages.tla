---------------------------- MODULE MCChartsPages ----------------------------
(***************************************************************************)
(* The Charts page of both shells' settings: the shelf of charts by link,  *)
(* with one of tiles, one of a style and the style shipped beside the      *)
(* tiles (LinuxShelf, WindowsShelf), and the lists of the sets and of the  *)
(* work that runs (LinuxCharts, WindowsCharts).  A shelf shares no state   *)
(* with the lists, nor one shell with the other, so a behaviour is of one  *)
(* of the four, beside links with no chart open and settings that are shut.*)
(***************************************************************************)
EXTENDS LinuxShelf, WindowsShelf, TLC

CONSTANTS
    \* of the lists (LinuxCharts, WindowsCharts)
    Sets, Derived, Managed, MaxOpens, MaxMoves, LinuxSteps, WinSteps,
    \* the charts looked at
    tiles, style, beside

VARIABLES
    part,   \* whose behaviour this is
    \* of LinuxCharts
    sets, noaa, baking, trash, removing, cadence, page, due, asking, opens, moves, steps,
    \* of WindowsCharts: what it shares a name with LinuxCharts is win-
    winSets, winNoaa, bake, removal, win, tab, winAsking, picker, winPage, winOpens, winMoves,
    winSteps

\* What the charts looked at are: tiles, a style that is a file on this device and the
\* style beside the tiles.  The core of the Linux shell has the first two on its list, the
\* style picked.  The Windows shell hands over the list a shell of before kept, of the
\* style, and its renderer draws none of the one beside the tiles.
Looked == {tiles, style, beside}
TextOf == tiles :> "tiles" @@ style :> "style" @@ beside :> "style"
Beside == tiles :> beside @@ style :> None @@ beside :> None
OfStyle == tiles :> 0 @@ style :> 1 @@ beside :> 0
OneLink == [links |-> <<style>>, active |-> style]
TwoLinks == [links |-> <<style, tiles>>, active |-> style]
Shipped == {tiles}

LP == INSTANCE LinuxCharts WITH MaxSteps <- LinuxSteps

WP == INSTANCE WindowsCharts WITH
    MaxSteps <- WinSteps,
    sets <- winSets, noaa <- winNoaa, asking <- winAsking, page <- winPage,
    opens <- winOpens, moves <- winMoves, steps <- winSteps

ASSUME ShelvesConstants == LinuxShelfConstants /\ WinShelfConstants
ASSUME PagesBounds == {MaxOpens, MaxMoves, LinuxSteps, WinSteps} \subseteq Nat
ASSUME PagesConstants == LP!SetsConstants /\ WP!SetsConstants

linuxPage == <<sets, noaa, baking, trash, removing, cadence, page, due, asking, opens, moves,
               steps>>
windowsPage == <<winSets, winNoaa, bake, removal, win, tab, winAsking, picker, winPage,
                 winOpens, winMoves, winSteps>>

PagesInit ==
    /\ part \in {"linux shelf", "windows shelf", "linux page", "windows page"}
    /\ LinuxInit /\ WinInit /\ LP!Init /\ WP!Init
    /\ part # "linux page" => sets = <<>>
    /\ part # "windows page" => winSets = <<>>

PagesNext ==
    /\ \/ part = "linux shelf" /\ LinuxNext /\ UNCHANGED <<winVars, linuxPage, windowsPage>>
       \/ part = "windows shelf" /\ WinNext /\ UNCHANGED <<linuxVars, linuxPage, windowsPage>>
       \/ part = "linux page" /\ LP!Next /\ UNCHANGED <<linuxVars, winVars, windowsPage>>
       \/ part = "windows page" /\ WP!Next /\ UNCHANGED <<linuxVars, winVars, linuxPage>>
    /\ UNCHANGED part

\* The shelves' fairness asks for nothing of one that rests: no chart of it is open.
PagesSpec ==
    /\ PagesInit /\ [][PagesNext]_<<part, linuxVars, winVars, linuxPage, windowsPage>>
    /\ LinuxFairness /\ WinFairness

-------------------------------------------------------------------------------

\* On either shelf what is shown is what was read of the core's links, what is drawn is
\* what is picked, and what is saved is the list (LinuxShelf, WindowsShelf).
ShelvesAreTrue == LinuxTypeOK /\ LinuxShelfIsTrue /\ WinTypeOK /\ WinShelfIsTrue

\* On either page the rows are the sets and the panels the work, but for what an idle is
\* queued for on Linux, and a bake nothing tells the Windows page of (LinuxCharts,
\* WindowsCharts).
PagesAreTrue == LP!TypeOK /\ LP!PageIsTrue /\ WP!TypeOK /\ WP!PageIsTrue

\* A chart whose tile is tapped is drawn, or what went wrong is said, unless the mariner
\* asks for something else first (LinuxShelf, WindowsShelf).
PickIsDecided == LinuxPickIsDecided /\ WinPickIsDecided

\* A page that is built is there to be seen: the poll made as the work section is filled
\* is there so that it is current on the frame it is built in (WindowsCharts).
BuildReturns == WP!BuildReturns
===============================================================================
