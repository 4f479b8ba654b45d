----------------------------- MODULE MCShellPanes -----------------------------
(***************************************************************************)
(* The panes in which a mariner edits what the core runs on, of both       *)
(* shells: the plugins' settings, and the pictures under the chart.  Each  *)
(* keeps a copy of its own beside the core's and the store's, and one      *)
(* behaviour is of one pane.                                               *)
(***************************************************************************)
EXTENDS Naturals

CONSTANTS
    Panes,   \* the panes looked at
    Hosts, Nil,
    Hasty, Again, Stale, Unsaved,  \* bounds: see the modules
    LinuxSlots,                    \* bound: settings windows at a time
    LinuxRows, WindowsRows         \* bound: the rows of the connections' list

VARIABLES
    pane,    \* the pane of this behaviour
    busy,    \* bound: the mariner edits the list, or manages the added plugin
    core,    \* the core: the plugin layer, or the engine's pictures
    store, past, minted, screen, aux

panesVars == <<pane, busy, core, store, past, minted, screen, aux>>

Files == {"a", "b"}
SetOf == [f \in Files |-> IF f = "a" THEN "A" ELSE "B"]
Water == [f \in Files |-> 1]

PL == INSTANCE LinuxPlugins WITH
          mine <- past, win <- screen, tracked <- aux, None <- Nil,
          Ids <- {1, 2}, MaxRows <- LinuxRows, Slots <- LinuxSlots
PW == INSTANCE WindowsPlugins WITH
          mine <- past, pane <- screen, near <- aux, None <- Nil,
          Ids <- {1, 2}, MaxRows <- WindowsRows
RL == INSTANCE LinuxRaster WITH
          pic <- core, list <- screen, due <- aux, was <- past, None <- Nil,
          Waters <- {1, 2}, Bad <- {}
RW == INSTANCE WindowsRaster WITH
          eng <- core, saved <- store, shell <- screen, page <- aux, was <- past, None <- Nil,
          Waters <- {1, 2}, Bad <- {}

ASSUME SlotsAreNumbered == LinuxSlots \subseteq Nat \ {0}

ASSUME NilIsNoList == Nil \notin PL!Rows

-------------------------------------------------------------------------------
(* Bounds: how much happens to the plugins in one behaviour.                *)

Linux == pane = "linux plugins"
Screens == IF Linux THEN {screen'[s] : s \in LinuxSlots} ELSE {screen'}

\* Nothing is typed, found or said; a Linux list is filled as soon as it is to be.
Quiet ==
    /\ core'.said = core.said
    /\ \A w \in Screens : w.typed = Nil
    /\ Linux => /\ \A w \in Screens : w.browse # "up" /\ w.calls = {}
                /\ \A s \in LinuxSlots : screen[s].refill => ~screen'[s].refill
    /\ ~Linux => aux'.calls = {}

\* The list is edited, and no plugin comes or goes.
BusyList ==
    /\ past'.added = past.added
    /\ core'.loaded = core.loaded /\ core'.grant = core.grant
    /\ \A w \in Screens : w.task = "no"

\* The added plugin is managed, in one window at a time.
BusyAdded ==
    /\ Quiet /\ minted' = minted /\ past'.nmea = past.nmea
    /\ Linux => \A s, t \in LinuxSlots : s # t => ~(screen'[s].up = "up" /\ screen'[t].up = "up")

\* Its grant is, in several.
BusyGrants ==
    Quiet /\ minted' = minted /\ \A w \in Screens : ~w.apply

\* The list is edited in several windows, and windows are built again: with a chart open,
\* a row is added, edited and saved, and the last is not removed.
BusyWindows ==
    /\ Quiet /\ minted' \subseteq {1} /\ past'.nmea # PL!Default.nmea
    /\ past'.added = past.added
    /\ core'.open /\ core'.grant /\ core.loaded \subseteq core'.loaded
    /\ \A w \in Screens : w.task # "ask" /\ (Linux /\ w.up # "up" => w = PL!NoWin)

Bound ==
    \/ busy = "list" /\ BusyList
    \/ busy = "added" /\ BusyAdded
    \/ busy = "grants" /\ BusyGrants
    \/ busy = "windows" /\ BusyWindows

PanesInit ==
    /\ pane \in Panes
    /\ \/ pane = "linux plugins" /\ busy \in {"list", "added", "grants", "windows"} /\ PL!Init
       \/ pane = "windows plugins" /\ busy \in {"list", "added", "grants", "windows"} /\ PW!Init
       \/ pane = "linux pictures" /\ busy = "files" /\ RL!Init /\ store = Nil /\ minted = Nil
       \/ pane = "windows pictures" /\ busy = "files" /\ RW!Init /\ minted = Nil

PanesNext ==
    /\ \/ pane = "linux plugins" /\ PL!Next /\ Bound
       \/ pane = "windows plugins" /\ PW!Next /\ Bound
       \/ pane = "linux pictures" /\ RL!Next /\ UNCHANGED <<store, minted>>
       \/ pane = "windows pictures" /\ RW!Next /\ UNCHANGED minted
    /\ UNCHANGED <<pane, busy>>

PanesSpec == PanesInit /\ [][PanesNext]_panesVars

-------------------------------------------------------------------------------
PanesTypeOK ==
    /\ pane = "linux plugins" =>
         PL!ConfigTypeOK /\ screen \in [LinuxSlots -> PL!WinType] /\ aux \in {0} \cup LinuxSlots
    /\ pane = "windows plugins" =>
         PW!ConfigTypeOK /\ screen \in PW!PaneType /\ aux \in PW!NearType
    /\ pane = "linux pictures" => RL!TypeOK
    /\ pane = "windows pictures" => RW!TypeOK

\* An edit is on its way to the core and to the store until both have it, and from then
\* on they agree.
EditIsOnItsWay ==
    /\ pane = "linux plugins" => PL!EditIsOnItsWay /\ PL!InForce
    /\ pane = "windows plugins" => PW!EditIsOnItsWay /\ PW!InForce
    /\ pane = "linux pictures" => RL!LibraryIsInForce /\ RL!PicksAreSaved
    /\ pane = "windows pictures" => RW!LibraryIsInForce

\* What a pane shows is what it edits and what the core says, or an idle, a timer or a
\* frame that will put it right is set; nothing of it outlives its window.  No water is
\* drawn by two sets of pictures.
PanesAreTrue ==
    /\ PanesTypeOK
    /\ pane = "linux plugins" => PL!WindowIsTrue /\ PL!OffersAnswer
    /\ pane = "windows plugins" => PW!PaneIsTrue
    /\ pane = "linux pictures" => RL!ReadingIsTrue /\ RL!OnePicture(core.eng)
    /\ pane = "windows pictures" => RW!OnePicture(core)
    /\ EditIsOnItsWay

\* No step undoes one: a save never puts an older copy of a plugin's configuration over
\* what the mariner made of it, but for that of a Linux window beside which another one
\* edited or saved; and a chart that opens draws the sets of pictures that were drawn
\* when the last one closed.
NothingIsUndone ==
    CASE pane = "linux plugins" -> PL!NothingElseIsUndone
      [] pane = "windows plugins" -> PW!NothingIsUndone
      [] pane = "linux pictures" -> RL!PicksArePutBack
      [] pane = "windows pictures" -> RW!SavedPicksArePutBack

EditIsKept == [][NothingIsUndone]_panesVars

\* The shell puts back which sets of pictures the mariner had drawn (Raster.cpp:365).
PicksArePutBack ==
    [][CASE pane = "linux pictures" -> RL!PicksArePutBack
         [] pane = "windows pictures" -> RW!PicksArePutBack
         [] OTHER -> TRUE]_panesVars
===============================================================================
