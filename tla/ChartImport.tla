------------------------------ MODULE ChartImport ------------------------------
(***************************************************************************)
(* How charts get onto the screen of the Linux shell: the library's list   *)
(* and its poll (src/linux/src/library/sets.c), the import of a picked     *)
(* folder and its bake (model/app-model.c, library/bake.c), and the chart  *)
(* widget's opening at launch (ui/chart/view.c).                           *)
(*                                                                         *)
(* Handlers run one at a time on GTK's main loop; beside it run the core's *)
(* scan of the library, the shell's scan of a pick and the core's bake.    *)
(* The core's list is modelled from what the shell asks of it: a set is    *)
(* on the list, switched on, read or not, and the read says what is left   *)
(* to prepare and what can be drawn.  A set's name stands for its charts.  *)
(***************************************************************************)
EXTENDS Naturals, FiniteSets

CONSTANTS Sets,         \* folders and archives the mariner may have
          Kept,         \* bound: those that may be on the list at launch
          MaxMoves,     \* bound: folders picked, sets switched or removed, library moves
          MaxRealizes,  \* bound: times the chart widget is realized
          None,         \* no folder, no job
          Closed        \* no chart handle

ASSUME ImportBounds == Kept \subseteq Sets /\ {MaxMoves, MaxRealizes} \subseteq Nat

\* The folder an import is of, whether a pick found pictures in it; a bake and its end.
Imports == [dir : Sets, pictures : BOOLEAN]
Bakes == [of : Sets, at : {"running", "cancelled", "ok", "failed"}]

ASSUME NothingIsNone ==
    None \notin Sets \cup Imports \cup Bakes /\ \A S \in SUBSET Sets : S # Closed

VARIABLES
    contents,  \* what each folder holds, as the mariner has it
    work,      \* what Lookout has prepared of it
    lib,       \* the core's list: which sets are listed, on, scanned, todo, draw
    flag,      \* lookout_chart_sets_changed
    watch,     \* the list's poll timer runs
    polling,   \* inside a poll: "no", or whether it read the flag up
    told,      \* the sets that were read when on_changed last ran
    realized,  \* the chart widget is realized
    attached,  \* the controller has a view
    wanted,    \* pending_empty_open
    auto,      \* did_auto_open, auto_open_id and the model's is_opening
    chart,     \* the sets the open chart draws, or Closed
    scan,      \* the pick being looked through, or None
    import,    \* import_source with import_pictures, or None
    bake,      \* the bake and its pending_open_source, or None
    error,     \* an open error is shown
    moves, realizes

library == <<contents, work, lib, flag>>
poller == <<watch, polling, told>>
widget == <<realized, attached, wanted>>
jobs == <<scan, import, bake>>
bounds == <<moves, realizes>>
vars == <<library, poller, widget, auto, chart, jobs, error, bounds>>

\* What a scan finds of a set today.
ToPrepare(d, w) == contents[d] = "raw" /\ w[d] \in {"none", "part"}
Drawable(d, w) == contents[d] = "ready" \/ w[d] \in {"part", "all"}

Init ==
    /\ contents \in [Sets -> {"raw", "ready", "pictures", "nothing"}]
    /\ work \in [Sets -> {"none", "all"}]
    /\ \A d \in Sets : contents[d] # "raw" \/ d \notin Kept => work[d] = "none"
    /\ \E listed \in SUBSET Kept : \E on \in SUBSET listed :
          /\ lib = [listed |-> listed, on |-> on, scanned |-> {}, todo |-> {}, draw |-> {}]
          /\ watch = (listed # {})
    /\ flag = FALSE /\ polling = "no" /\ told = {}
    /\ realized = FALSE /\ attached = FALSE /\ wanted = FALSE
    /\ auto = [did |-> FALSE, idle |-> FALSE, opening |-> FALSE]
    /\ chart = Closed
    /\ scan = None /\ import = None /\ bake = None
    /\ error = FALSE
    /\ moves = 0 /\ realizes = 0

-------------------------------------------------------------------------------
(* what the handlers read and write of the list                              *)

\* lk_chart_sets_rows: a set read as holding nothing is no row.
Rows(l) == {d \in l.listed : d \in l.scanned => contents[d] # "nothing"}

\* lk_chart_sets_scanning
Scanning(l) == l.listed \ l.scanned # {}

\* lk_chart_sets_compose
Compose(l) == l.on \cap l.draw

\* lk_app_model_initial_source, without $LOOKOUT_OPEN: a set that bakes first.
RawSets(l) == Rows(l) \cap l.on \cap l.scanned \cap l.todo

\* lk_chart_sets_note: on the list, and switched on.  A row that is new is unread.
Note(l, d) == [l EXCEPT !.listed = @ \cup {d}, !.on = @ \cup {d}]

Noted(l, d) == d \notin l.listed \/ d \notin l.on

\* lk_chart_sets_rescan: the core reads a set again, and until it has keeps what
\* it had read.
Unread(l, d) == [l EXCEPT !.scanned = @ \ {d}]

\* Dropped that forgets to take out what was read.
DroppedKeepsDraw(l, d) ==
    [l EXCEPT !.listed = @ \ {d}, !.on = @ \ {d}, !.scanned = @ \ {d}, !.todo = @ \ {d}]

\* lk_chart_sets_remove: the row goes, with what was read of it.
Dropped(l, d) ==
    [l EXCEPT !.listed = @ \ {d}, !.on = @ \ {d}, !.scanned = @ \ {d}, !.todo = @ \ {d},
              !.draw = @ \ {d}]

\* lk_chart_view_maybe_auto_open, which a change of the list calls as well; r: the
\* widget is realized.
MaybeAutoOpen(a, l, c, r) ==
    IF a.did \/ a.idle \/ ~r \/ c # Closed THEN a
    ELSE IF RawSets(l) = {} /\ Scanning(l) THEN [a EXCEPT !.opening = TRUE]
    ELSE [did |-> TRUE, idle |-> TRUE, opening |-> TRUE]

\* lk_chart_controller_reopen: without a view only an empty open is kept for
\* later; a view that is not realized has no surface, and the open fails closed.
Reopen(sets) ==
    IF ~attached
    THEN wanted' = (wanted \/ sets = {}) /\ UNCHANGED <<chart, error>>
    ELSE /\ chart' = IF realized THEN sets ELSE Closed
         /\ error' = ~realized
         /\ UNCHANGED wanted

\* OpenPrepared that opens what the core has composed alone.
OpenPreparedComposedOnly(d, pictures, l, a, w) ==
    LET l1 == Note(l, d)
    IN  /\ lib' = l1
        /\ auto' = IF Noted(l, d) THEN MaybeAutoOpen(a, l1, chart, realized) ELSE a
        /\ IF Compose(l1) = {}
           THEN error' = (error \/ ~pictures) /\ UNCHANGED <<chart, wanted>>
           ELSE Reopen(Compose(l1))

\* lk_app_model_open_prepared: the set joins the list, and the chart opens on
\* the library with what lies on the disk under this set.
OpenPrepared(d, pictures, l, a, w) ==
    LET l1 == Note(l, d)
        all == Compose(l1) \cup (IF Drawable(d, w) THEN {d} ELSE {})
    IN  /\ lib' = l1
        /\ auto' = IF Noted(l, d) THEN MaybeAutoOpen(a, l1, chart, realized) ELSE a
        /\ IF all = {}
           THEN error' = (error \/ ~pictures) /\ UNCHANGED <<chart, wanted>>
           ELSE Reopen(all)

\* lk_app_model_start_import for the import i, with the list and the widget's
\* flags as the handler that calls it has left them.
StartImport(i, l, a) ==
    IF i = None \/ bake # None \/ scan' # None \/ a.opening
          \/ (i.dir \in Rows(l) /\ i.dir \notin l.scanned)
    THEN /\ import' = i /\ lib' = l /\ auto' = a
         /\ UNCHANGED <<bake, chart, error, wanted>>
    ELSE /\ import' = None
         /\ \/ /\ i.dir \notin Rows(l)
               /\ lib' = l /\ auto' = a
               /\ UNCHANGED <<bake, chart, error, wanted>>
            \/ /\ i.dir \in Rows(l) /\ i.dir \in l.todo
               /\ bake' = [of |-> i.dir, at |-> "running"]
               /\ error' = FALSE
               /\ lib' = l /\ auto' = a
               /\ UNCHANGED <<chart, wanted>>
            \/ \* nothing to prepare, or a bake that could not start
               /\ i.dir \in Rows(l)
               /\ OpenPrepared(i.dir, i.pictures, l, a, work)
               /\ UNCHANGED bake

\* recompose_library that leaves the chart alone when nothing is switched on.
RecomposeUnlessEmpty(l) ==
    /\ lib' = l
    /\ IF Compose(l) = {} THEN UNCHANGED <<chart, error, wanted>> ELSE Reopen(Compose(l))
    /\ auto' = MaybeAutoOpen(auto, l, chart', realized)

\* lk_app_model_recompose_library, and the signal behind it.
Recompose(l) ==
    /\ lib' = l
    /\ Reopen(Compose(l))
    /\ auto' = MaybeAutoOpen(auto, l, chart', realized)

-------------------------------------------------------------------------------
(* the library is read                                                       *)

\* The core's thread has read one set.
CoreScan(d) ==
    /\ d \in lib.listed \ lib.scanned
    /\ lib' = [lib EXCEPT !.scanned = @ \cup {d},
                          !.todo = IF ToPrepare(d, work) THEN @ \cup {d} ELSE @ \ {d},
                          !.draw = IF Drawable(d, work) THEN @ \cup {d} ELSE @ \ {d}]
    /\ flag' = TRUE
    /\ UNCHANGED <<contents, work, poller, widget, auto, chart, jobs, error, bounds>>

\* lk_chart_sets_poll reads the flag; the core's thread may land a scan
\* between that and the count.
PollFlag ==
    /\ watch /\ polling = "no"
    /\ polling' = IF flag THEN "up" ELSE "down"
    /\ flag' = FALSE
    /\ UNCHANGED <<contents, work, lib, watch, told, widget, auto, chart, jobs, error, bounds>>

\* sets_changed that leaves the import to the next pick.
SetsChangedNoImport ==
    /\ told' = lib.scanned
    /\ auto' = MaybeAutoOpen(auto, lib, chart, realized)
    /\ UNCHANGED <<realized, wanted, lib, chart, jobs, error>>

\* lk_app_model_sets_changed: the widget looks again, then the import does.
SetsChanged ==
    /\ told' = lib.scanned
    /\ UNCHANGED realized /\ UNCHANGED scan
    /\ StartImport(import, lib, MaybeAutoOpen(auto, lib, chart, realized))

\* The rest of the poll: the tick that settles the scan always reports.
PollCount ==
    /\ polling # "no"
    /\ polling' = "no"
    /\ watch' = Scanning(lib)
    /\ IF polling = "up" \/ ~Scanning(lib) THEN SetsChanged
       ELSE UNCHANGED <<told, realized, wanted, lib, auto, chart, jobs, error>>
    /\ UNCHANGED <<contents, work, flag, attached, bounds>>

\* lk_chart_sets_watch_scans, behind a change of the list.
WatchScans(l) == watch' = (watch \/ Scanning(l))

-------------------------------------------------------------------------------
(* the chart widget                                                          *)

\* lk_chart_view_realize with attach_view, and with the first layout, before
\* which there is no size to open at.
Realize ==
    /\ ~realized
    /\ realizes < MaxRealizes
    /\ realizes' = realizes + 1
    /\ realized' = TRUE /\ attached' = TRUE
    /\ wanted' = FALSE
    /\ chart' = IF wanted THEN {} ELSE chart
    /\ auto' = MaybeAutoOpen(auto, lib, chart', TRUE)
    /\ UNCHANGED <<library, poller, jobs, error, moves>>

\* lk_chart_view_unrealize closes the chart and will open it again.
Unrealize ==
    /\ realized
    /\ realized' = FALSE
    /\ chart' = Closed
    /\ auto' = [auto EXCEPT !.did = FALSE, !.idle = FALSE]
    /\ UNCHANGED <<library, poller, attached, wanted, jobs, error, bounds>>

\* lk_app_model_open_chart_directory, the way in of every pick: refused with a
\* word while the last pick is looked through or a bake runs.
OpenDirectory(d) ==
    IF scan # None \/ bake # None
    THEN error' = TRUE /\ UNCHANGED scan
    ELSE scan' = d /\ UNCHANGED error

\* lk_chart_view_do_auto_open, from an idle.
DoAutoOpen ==
    /\ auto.idle
    /\ auto' = [auto EXCEPT !.idle = FALSE, !.opening = FALSE]
    /\ \/ chart # Closed /\ UNCHANGED <<chart, scan, error>>
       \/ /\ chart = Closed /\ Compose(lib) # {}
          /\ chart' = Compose(lib) /\ error' = FALSE
          /\ UNCHANGED scan
       \/ /\ chart = Closed /\ Compose(lib) = {}
          /\ \E d \in RawSets(lib) : OpenDirectory(d)
          /\ UNCHANGED chart
       \/ /\ chart = Closed /\ Compose(lib) = {} /\ RawSets(lib) = {}
          /\ chart' = {} /\ error' = FALSE
          /\ UNCHANGED scan
    /\ UNCHANGED <<library, poller, widget, import, bake, bounds>>

-------------------------------------------------------------------------------
(* the mariner                                                               *)

Pick(d) ==
    /\ moves < MaxMoves
    /\ moves' = moves + 1
    /\ OpenDirectory(d)
    /\ UNCHANGED <<library, poller, widget, auto, chart, import, bake, realizes>>

\* lk_scan_done_idle: the folder joins the list, and its import waits for the
\* core's own scan.
PickScanned ==
    /\ scan # None
    /\ scan' = None
    /\ LET l == Note(lib, scan)
           a == IF Noted(lib, scan) THEN MaybeAutoOpen(auto, l, chart, realized) ELSE auto
       IN  /\ WatchScans(l)
           /\ StartImport([dir |-> scan, pictures |-> contents[scan] = "pictures"], l, a)
    /\ UNCHANGED <<contents, work, flag, polling, told, realized, attached, bounds>>

Switching ==
    /\ moves < MaxMoves
    /\ moves' = moves + 1
    /\ UNCHANGED <<contents, flag, poller, realized, attached, jobs, realizes>>

\* lk_app_model_set_chart_set_on
SetOn(d) ==
    /\ d \in lib.listed
    /\ Switching
    /\ Recompose([lib EXCEPT !.on = IF d \in @ THEN @ \ {d} ELSE @ \cup {d}])
    /\ UNCHANGED work

\* lk_app_model_remove_chart_set: what was prepared goes with it, renamed away
\* before the delete behind the app.
RemoveSet(d) ==
    /\ d \in lib.listed
    /\ Switching
    /\ Recompose(Dropped(lib, d))
    /\ work' = [work EXCEPT ![d] = "none"]

\* lk_app_model_noaa_work_moved: the core took charts out or prepared some.
LibraryMoved ==
    /\ Switching
    /\ Recompose(lib)
    /\ UNCHANGED work

-------------------------------------------------------------------------------
(* the bake                                                                  *)

\* lk_app_model_cancel_bake
CancelBake ==
    /\ bake # None /\ bake.at = "running"
    /\ bake' = [bake EXCEPT !.at = "cancelled"]
    /\ UNCHANGED <<library, poller, widget, auto, chart, scan, import, error, bounds>>

\* The core's job ends: all of it, all but what it refuses, what landed before
\* the cancel, or nothing at all.
BakeEnds ==
    /\ bake # None /\ bake.at \in {"running", "cancelled"}
    /\ \/ /\ bake.at = "running"
          /\ \E w \in {"all", "refused"} : work' = [work EXCEPT ![bake.of] = w]
          /\ bake' = [bake EXCEPT !.at = "ok"]
       \/ /\ bake.at = "cancelled"
          /\ \E w \in {work[bake.of], "part"} : work' = [work EXCEPT ![bake.of] = w]
          /\ bake' = [bake EXCEPT !.at = "ok"]
       \/ UNCHANGED work /\ bake' = [bake EXCEPT !.at = "failed"]
    /\ UNCHANGED <<contents, lib, flag, poller, widget, auto, chart, scan, import, error, bounds>>

\* lk_chart_bake_poll finds the job over: lk_app_model_bake_done has the set
\* read again and opens the chart once, at the end.
BakeDone ==
    /\ bake # None /\ bake.at \in {"ok", "failed"}
    /\ bake' = None
    /\ LET l == IF bake.of \in lib.listed THEN Unread(lib, bake.of) ELSE lib
       IN  /\ IF bake.at = "failed"
              THEN error' = TRUE /\ lib' = l /\ UNCHANGED <<auto, chart, wanted>>
              ELSE OpenPrepared(bake.of, FALSE, l, auto, work)
           /\ WatchScans(lib')
    /\ UNCHANGED <<contents, work, flag, polling, told, realized, attached, scan, import, bounds>>

-------------------------------------------------------------------------------

MainLoop ==
    \/ Realize
    \/ Unrealize
    \/ DoAutoOpen
    \/ \E d \in Sets : Pick(d) \/ SetOn(d) \/ RemoveSet(d)
    \/ PickScanned
    \/ LibraryMoved
    \/ CancelBake
    \/ BakeDone

Next ==
    \/ polling = "no" /\ MainLoop
    \/ PollFlag
    \/ PollCount
    \/ \E d \in Sets : CoreScan(d)
    \/ BakeEnds
    \/ polling = "no" /\ UNCHANGED vars

Spec == Init /\ [][Next]_vars

\* GLib's idles and timers run, and the threads beside it end; the mariner and
\* the window system do as they like.
Fairness ==
    /\ WF_vars(PollFlag) /\ WF_vars(PollCount)
    /\ WF_vars(polling = "no" /\ DoAutoOpen)
    /\ WF_vars(polling = "no" /\ PickScanned)
    /\ WF_vars(polling = "no" /\ BakeDone)
    /\ WF_vars(BakeEnds)
    /\ \A d \in Sets : WF_vars(CoreScan(d))

FairSpec == Spec /\ Fairness

-------------------------------------------------------------------------------

TypeOK ==
    /\ work \in [Sets -> {"none", "part", "all", "refused"}]
    /\ lib.on \subseteq lib.listed /\ lib.scanned \subseteq lib.listed
    /\ lib.todo \subseteq lib.listed /\ lib.draw \subseteq lib.listed
    /\ polling \in {"no", "up", "down"}
    /\ polling # "no" => watch
    /\ told \subseteq Sets
    /\ chart \in (SUBSET Sets) \cup {Closed}
    /\ scan \in Sets \cup {None}
    /\ import \in Imports \cup {None}
    /\ bake \in Bakes \cup {None}
    /\ {flag, watch, realized, attached, wanted, error, auto.did, auto.idle, auto.opening} \subseteq BOOLEAN

\* The chart never draws a set that was switched off or removed.
NothingDrawnThatIsOff == chart # Closed => chart \subseteq lib.on

\* A set that is still to be read has the poll behind it, and when the poll
\* has stopped every read has been reported.
ScanIsTold ==
    /\ Scanning(lib) => watch
    /\ ~watch => lib.scanned \subseteq told

\* What a bake wrote is on the screen when the bake is done, if it wrote any.
BakeIsDrawn ==
    [][bake # None /\ bake' = None /\ bake.at = "ok" /\ realized /\ Drawable(bake.of, work)
          => chart' # Closed /\ bake.of \in chart']_vars

\* Once the chart's own opening at launch is behind it, an import that waits
\* for the core to read its folder is begun, unless another takes its place.
ImportBegins == \A d \in Sets :
    (import # None /\ import.dir = d /\ auto.did /\ ~auto.idle /\ d \in lib.listed \ lib.scanned)
        ~> (import = None \/ import.dir # d \/ d \notin lib.listed \/ ~auto.did)

\* Every folder that was imported is baked, or opened, once the core has read
\* it, or makes way for the next, or is taken off the list.
EveryImportBegins == \A d \in Sets :
    (import # None /\ import.dir = d) ~> (import = None \/ import.dir # d \/ d \notin lib.listed)

\* A realized widget opens something: the library, a chart of no charts, or
\* the raw set it takes up first.
LaunchOpens ==
    realized ~> (~realized \/ chart # Closed \/ bake # None \/ error)

\* The loader that waits for the library to be read comes down when it has been.
LoaderComesDown == auto.opening ~> ~auto.opening

\* The library's list is in force: nothing off it is drawn, and whatever is
\* still to be read will be reported.
ListIsInForce == NothingDrawnThatIsOff /\ ScanIsTold

\* What was asked for is taken up: the launch opens, and an import begins.
AskedForIsTakenUp == LaunchOpens /\ ImportBegins
===============================================================================
