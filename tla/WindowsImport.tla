----------------------------- MODULE WindowsImport -----------------------------
(***************************************************************************)
(* How charts get onto the screen of the Windows shell: the launch, the    *)
(* import of a folder or a file and its bake, the switches and removals of *)
(* the library's list, the open that is put off by a timer tick, and the   *)
(* two clocks that poll the list (src/windows/src/chart/ui/Open.cpp,       *)
(* library/ui/ChartSets.cpp, library/ui/Bake.cpp, firstrun/ui).            *)
(*                                                                         *)
(* Handlers and timers run one at a time on the UI thread; beside it run   *)
(* the core's scan of the list, the scan of a picked file and the bake.    *)
(* A row of the list is a folder, or the Library directory every bake      *)
(* writes under, which the import of a file puts on the list.  A folder's  *)
(* name stands for its charts.  No pictures, and no NOAA download.         *)
(***************************************************************************)
EXTENDS Naturals

CONSTANTS Sets,       \* folders the mariner may have
          Library,    \* the library directory, as a row of the list
          File,       \* an archive or a single file, and its charts
          Sheets,     \* a bake of pictures alone
          MaxMoves,   \* bound: imports, switches, removals, recents opened
          MaxFails,   \* bound: opens that fail
          None, Closed

ASSUME WindowsImportBounds == {MaxMoves, MaxFails} \subseteq Nat

Rows == Sets \cup {Library}
Charts == Sets \cup {File}

\* A set that is waited for, and whether it is to be baked; a bake; an open put off.
Awaits == [of : Sets, bake : BOOLEAN]
Bakes == [of : Charts \cup {Sheets}, at : {"running", "cancelled", "ended"}]
Opens == [paths : (SUBSET Charts) \ {{}}, recent : Rows \cup {None}]

ASSUME NothingIsNone ==
    None \notin Awaits \cup Bakes \cup Opens /\ \A S \in SUBSET Charts : S # Closed

VARIABLES
    contents,   \* what each folder holds, as the mariner has it
    work,       \* what Lookout has prepared of it
    lib,        \* the core's list: rows listed, on, scanned, todo; charts by row
    flag,       \* lookout_chart_sets_changed
    pending,    \* pending_set and pending_set_bake, or None
    bake,       \* bake_job with bake_source, or None
    looking,    \* import_scanning
    opening,    \* the deferred open with its recent, or None
    afterWrite, \* open_after_write
    opened,     \* sets.opened
    chart,      \* the charts of the open handle, or Closed
    nothing,    \* setup_nothing_to_draw
    clock,      \* readout_timer runs
    setup,      \* showing, its clock, put_away, had_charts
    linked,     \* an online chart is picked
    tried,      \* open_attempted
    failed,     \* an open has failed since the last that did not
    moves, fails

list == <<contents, work, lib, flag>>
import == <<pending, bake, looking>>
opens == <<opening, afterWrite, opened, chart, nothing, failed>>
clocks == <<clock, setup>>
bounds == <<moves, fails>>
vars == <<list, import, opens, clocks, linked, tried, bounds>>

\* What a scan finds under a row today.
OnDisk(r, w) ==
    IF r = Library THEN {c \in Charts : w[c] \in {"part", "all"}}
    ELSE {c \in {r} : contents[c] = "ready" \/ w[c] \in {"part", "all"}}
ToPrepare(r, w) == r \in Sets /\ contents[r] = "raw" /\ w[r] \in {"none", "part"}

Init ==
    /\ contents \in [Sets -> {"raw", "ready", "nothing"}]
    /\ work \in [Charts -> {"none", "all"}]
    /\ work[File] = "none" /\ \A d \in Sets : contents[d] # "raw" => work[d] = "none"
    /\ \E listed \in SUBSET Sets : \E on \in SUBSET listed :
          lib = [listed |-> listed, on |-> on, scanned |-> {}, todo |-> {},
                 draw |-> [r \in Rows |-> {}]]
    /\ flag = FALSE
    /\ pending = None /\ bake = None /\ looking = FALSE
    /\ opening = None /\ afterWrite = FALSE /\ opened = {} /\ chart = Closed
    /\ nothing = FALSE /\ clock = FALSE
    /\ setup = [showing |-> FALSE, clock |-> FALSE, putAway |-> FALSE, had |-> FALSE]
    /\ linked \in BOOLEAN
    /\ tried = FALSE /\ failed = FALSE
    /\ moves = 0 /\ fails = 0

-------------------------------------------------------------------------------
(* the core's list                                                           *)

\* ChartSets::Compose
Compose(l) == UNION {l.draw[r] : r \in l.on}

Scanning(l) == l.listed \ l.scanned # {}

\* lookout_chart_sets_add, of a row that is not on the list.
Added(l, r) == [l EXCEPT !.listed = @ \cup {r}, !.on = @ \cup {r}]

\* lookout_chart_sets_rescan keeps what was read until it is read again.
Unread(l, r) == [l EXCEPT !.scanned = @ \ {r}]

\* lookout_chart_sets_remove that keeps what was read.
DroppedKeepsDraw(l, r) ==
    [l EXCEPT !.listed = @ \ {r}, !.on = @ \ {r}, !.scanned = @ \ {r}, !.todo = @ \ {r}]

\* lookout_chart_sets_remove, which raises no flag.
Dropped(l, r) ==
    [l EXCEPT !.listed = @ \ {r}, !.on = @ \ {r}, !.scanned = @ \ {r}, !.todo = @ \ {r},
              !.draw[r] = {}]

\* What a bake could not prepare is remembered until the row goes.
Forgiven(w) == IF w = "refused" THEN "none" ELSE w

CoreScan(r) ==
    /\ r \in lib.listed \ lib.scanned
    /\ lib' = [lib EXCEPT !.scanned = @ \cup {r},
                          !.todo = IF ToPrepare(r, work) THEN @ \cup {r} ELSE @ \ {r},
                          !.draw[r] = OnDisk(r, work)]
    /\ flag' = TRUE
    /\ UNCHANGED <<contents, work, import, opens, clocks, linked, tried, bounds>>

-------------------------------------------------------------------------------
(* opening, put off by a tick                                                *)

\* OpenPaths: the open is put off by 50 ms, and another that asks meanwhile is
\* dropped.
OpenPaths(paths, recent, written) ==
    IF paths = {} \/ opening # None
    THEN afterWrite' = FALSE /\ UNCHANGED opening
    ELSE opening' = [paths |-> paths, recent |-> recent] /\ afterWrite' = written

\* FirstRunBegin, with FirstRunRender.
Begun(l) ==
    [setup EXCEPT !.showing = TRUE, !.clock = (pending' # None), !.had = (Compose(l) # {})]

\* SetupShouldRun, on the facts as they are now.
ShouldRun(l) ==
    /\ ~setup.showing
    /\ ~(linked /\ chart' # Closed)
    /\ setup.putAway => setup.had \/ Compose(l) # {}
    /\ bake' = None /\ pending' = None

\* Nothing to draw: the basemap alone, which may fail to open too, and setup
\* over it when there is a reason; until is the clock when there is none,
\* asked: charts were asked for, and could not be opened.
Basemap(l, asked, until) ==
    /\ chart' \in {{}, Closed}
    /\ nothing' = TRUE
    /\ failed' = (failed \/ asked \/ chart' = Closed)
    /\ IF ShouldRun(l)
       THEN clock' = FALSE /\ setup' = Begun(l)
       ELSE clock' = until /\ UNCHANGED setup

\* ReopenChartSets, with the handle as it is: closed if `shut`.
Reopen(l, recent, shut) ==
    /\ opened' = Compose(l)
    /\ \/ /\ Compose(l) # {}
          /\ OpenPaths(Compose(l), recent, afterWrite)
          /\ chart' = IF shut THEN Closed ELSE chart
          /\ UNCHANGED <<nothing, failed, clock, setup>>
       \/ /\ Compose(l) = {}
          /\ Basemap(l, FALSE, clock)
          /\ UNCHANGED <<opening, afterWrite>>

\* AdoptChartSet: what was opened joins the list; an old row is read again only
\* after a bake wrote under it.
Adopt(l, r) ==
    IF r \notin Rows THEN l
    ELSE IF r \notin l.listed THEN Added(l, r)
    ELSE IF afterWrite THEN Unread(l, r) ELSE l

OpenLands ==
    /\ lib' = Adopt(lib, opening.recent)
    /\ chart' = opening.paths /\ nothing' = FALSE /\ failed' = FALSE
    /\ afterWrite' = FALSE
    /\ opened' = IF opening.paths = Compose(lib') THEN opening.paths ELSE opened
    /\ clock' = TRUE
    /\ UNCHANGED <<fails, setup>>

OpenFails ==
    /\ fails < MaxFails
    /\ fails' = fails + 1
    /\ Basemap(lib, TRUE, FALSE)
    /\ clock' = FALSE
    /\ UNCHANGED <<lib, afterWrite, opened>>

\* DoOpenPaths, on the timer: the old handle is closed, and what was asked for
\* then is opened now.
DoOpenPaths ==
    /\ opening # None
    /\ opening' = None
    /\ UNCHANGED import
    /\ OpenLands \/ OpenFails
    /\ UNCHANGED <<contents, work, flag, linked, tried, moves>>

-------------------------------------------------------------------------------
(* the pending set                                                           *)

\* AwaitSetScan that leaves the clock to whoever opens a chart.
AwaitSetScanUnclocked(r, b) ==
    /\ pending' = [of |-> r, bake |-> b]
    /\ UNCHANGED clock

\* AwaitSetScan
AwaitSetScan(r, b) ==
    /\ pending' = [of |-> r, bake |-> b]
    /\ clock' = (clock \/ ~setup.showing)

\* FinishPendingSet, given the list it reads.
FinishPendingSet ==
    \/ /\ pending.of \notin lib.listed
       /\ pending' = None
       /\ UNCHANGED <<lib, work, bake, opening, afterWrite>>
    \/ /\ pending.of \in lib.listed
       /\ pending.of \notin lib.scanned \/ bake # None
       /\ UNCHANGED <<pending, lib, work, bake, opening, afterWrite>>
    \/ /\ pending.of \in lib.scanned /\ bake = None
       /\ pending' = None
       /\ \/ \* BakeSetToPrepare
             /\ pending.bake /\ pending.of \in lib.todo
             /\ bake' = [of |-> pending.of, at |-> "running"]
             /\ UNCHANGED <<lib, work, opening, afterWrite>>
          \/ \* nothing to bake, or a bake that could not start
             /\ UNCHANGED bake
             /\ IF lib.draw[pending.of] = {} /\ pending.of \notin lib.todo
                THEN /\ lib' = Dropped(lib, pending.of)
                     /\ work' = [work EXCEPT ![pending.of] = Forgiven(@)]
                     /\ UNCHANGED <<opening, afterWrite>>
                ELSE /\ UNCHANGED <<lib, work>>
                     /\ IF Compose(lib) = {} THEN UNCHANGED <<opening, afterWrite>>
                        ELSE OpenPaths(Compose(lib), None, afterWrite)

\* PollChartSets: a scan has landed.
Poll ==
    IF ~flag THEN UNCHANGED <<flag, lib, work, pending, bake, opening, afterWrite, opened>>
    ELSE /\ flag' = FALSE
         /\ \/ /\ pending # None
               /\ FinishPendingSet
               /\ UNCHANGED opened
            \/ /\ pending = None /\ Compose(lib) \notin {{}, opened}
               /\ opened' = Compose(lib)
               /\ OpenPaths(Compose(lib), None, afterWrite)
               /\ UNCHANGED <<lib, work, pending, bake>>
            \/ /\ pending = None /\ Compose(lib) \in {{}, opened}
               /\ UNCHANGED <<lib, work, pending, bake, opening, afterWrite, opened>>

\* SetupNote, on the way.
Noted == setup.had \/ (flag /\ Compose(lib) # {})

\* OnRendering, on the readout clock.  With nothing open the clock stops, unless
\* a set is waited for, or a settings page that shows a scan; NoaaChanged at its
\* end may state setup's step again.
ReadoutTick ==
    /\ clock
    /\ Poll
    /\ \/ clock' = TRUE /\ (chart # Closed \/ pending' # None \/ Scanning(lib'))
       \/ clock' = FALSE /\ chart = Closed /\ pending' = None
    /\ \E c \in {setup.clock, setup.clock /\ pending' # None} :
          setup' = [setup EXCEPT !.had = Noted, !.clock = c]
    /\ UNCHANGED <<contents, looking, chart, nothing, failed, linked, tried, bounds>>

\* FirstRunPoll, on setup's own clock or behind what the NOAA service posts.
FirstRunPoll ==
    /\ setup.showing
    /\ Poll
    /\ setup' = [setup EXCEPT !.had = Noted, !.clock = (pending' # None)]
    /\ UNCHANGED <<contents, looking, chart, nothing, failed, clock, linked, tried, bounds>>

-------------------------------------------------------------------------------
(* setup                                                                     *)

\* A step of setup, which draws its card again; an online chart may be picked.
SetupStep ==
    /\ setup.showing
    /\ linked' \in {linked, TRUE}
    /\ setup' = [setup EXCEPT !.clock = (pending # None)]
    /\ UNCHANGED <<list, import, opens, clock, tried, bounds>>

\* Setup is put away, and FirstRunRender opens what came in behind it.
SetupEnds ==
    /\ setup.showing
    /\ setup' = [setup EXCEPT !.showing = FALSE, !.clock = FALSE, !.putAway = TRUE]
    /\ IF chart = {} /\ Compose(lib) # {} THEN OpenPaths(Compose(lib), None, afterWrite)
       ELSE UNCHANGED <<opening, afterWrite>>
    /\ clock' = (clock \/ chart # Closed)
    /\ UNCHANGED <<list, import, opened, chart, nothing, failed, linked, tried, bounds>>

-------------------------------------------------------------------------------
(* the mariner                                                               *)

\* TryOpen: the switched-on sets, else the recent, else the basemap and setup.
TryOpen ==
    /\ ~tried
    /\ tried' = TRUE
    /\ opened' = Compose(lib)
    /\ UNCHANGED import
    /\ \/ /\ Compose(lib) # {}
          /\ OpenPaths(Compose(lib), None, afterWrite)
          /\ UNCHANGED <<chart, nothing, failed, clocks>>
       \/ /\ Compose(lib) = {}
          /\ \E d \in Sets : OpenPaths(OnDisk(d, work), d, afterWrite) /\ opening' # None
          /\ UNCHANGED <<chart, nothing, failed, clocks>>
       \/ /\ Compose(lib) = {}
          /\ Basemap(lib, FALSE, clock)
          /\ UNCHANGED <<opening, afterWrite>>
    /\ UNCHANGED <<list, linked, bounds>>

Moved == tried /\ moves < MaxMoves /\ moves' = moves + 1

\* ImportCharts of a folder: PrepareChartSet.
ImportFolder(d) ==
    /\ Moved
    /\ bake = None /\ ~looking
    /\ lib' = IF d \in lib.listed THEN Unread(lib, d) ELSE Added(lib, d)
    /\ AwaitSetScan(d, TRUE)
    /\ UNCHANGED <<contents, work, flag, bake, looking, opens, setup, linked, tried, fails>>

\* ImportCharts of an archive or a single file, looked through off the thread.
ImportFile ==
    /\ Moved
    /\ bake = None /\ ~looking
    /\ looking' = TRUE
    /\ UNCHANGED <<list, pending, bake, opens, clocks, linked, tried, fails>>

\* FinishImport
FinishImport ==
    /\ looking
    /\ looking' = FALSE
    /\ \/ \* a bake runs by now, nothing was read, or the bake did not start
          UNCHANGED <<bake, opening, afterWrite>>
       \/ /\ bake = None
          /\ bake' = [of |-> File, at |-> "running"]
          /\ UNCHANGED <<opening, afterWrite>>
       \/ /\ bake = None
          /\ OpenPaths({File}, None, afterWrite)
          /\ UNCHANGED bake
    /\ UNCHANGED <<list, pending, opened, chart, nothing, failed, clocks, linked, tried, bounds>>

\* BakeRasterSources
BakeRasterSources ==
    /\ Moved
    /\ bake = None
    /\ bake' = [of |-> Sheets, at |-> "running"]
    /\ UNCHANGED <<list, pending, looking, opens, clocks, linked, tried, fails>>

\* A folder of the Open Recent menu.
OpenRecent(d) ==
    /\ Moved
    /\ OpenPaths(OnDisk(d, work), d, afterWrite)
    /\ UNCHANGED <<list, import, opened, chart, nothing, failed, clocks, linked, tried, fails>>

\* SetChartSetOn
SetChartSetOn(r) ==
    /\ r \in lib.listed
    /\ Moved
    /\ lib' = [lib EXCEPT !.on = IF r \in @ THEN @ \ {r} ELSE @ \cup {r}]
    /\ UNCHANGED import
    /\ Reopen(lib', r, Compose(lib') = {})
    /\ UNCHANGED <<contents, work, flag, linked, tried, fails>>

\* DeletePreparedCharts: a directory that an open handle maps is not renamed.
DeletePreparedCharts(r, mapped) ==
    LET gone == IF r = Library THEN Charts ELSE {r}
    IN  work' = [c \in Charts |-> IF c \in gone \ mapped THEN "none" ELSE work[c]]

\* RemoveChartSet that lets the reopen close the old handle.
RemoveChartSetUnderTheHandle(r) ==
    /\ r \in lib.listed
    /\ Moved
    /\ lib' = Dropped(lib, r)
    /\ UNCHANGED import
    /\ DeletePreparedCharts(r, IF chart = Closed THEN {} ELSE chart)
    /\ Reopen(lib', None, FALSE)
    /\ UNCHANGED <<contents, flag, linked, tried, fails>>

\* RemoveChartSet: the chart is closed, the charts go, and the rest is opened.
RemoveChartSet(r) ==
    /\ r \in lib.listed
    /\ Moved
    /\ lib' = Dropped(lib, r)
    /\ UNCHANGED import
    /\ DeletePreparedCharts(r, {})
    /\ Reopen(lib', None, TRUE)
    /\ UNCHANGED <<contents, flag, linked, tried, fails>>

-------------------------------------------------------------------------------
(* the bake                                                                  *)

\* The panel's Stop.
CancelBake ==
    /\ bake # None /\ bake.at = "running"
    /\ bake' = [bake EXCEPT !.at = "cancelled"]
    /\ UNCHANGED <<list, pending, looking, opens, clocks, linked, tried, bounds>>

\* The core's job ends: all of it, all but what it refuses, or what landed
\* before the cancel.
BakeEnds ==
    /\ bake # None /\ bake.at \in {"running", "cancelled"}
    /\ bake' = [bake EXCEPT !.at = "ended"]
    /\ IF bake.of = Sheets THEN UNCHANGED work
       ELSE \E w \in IF bake.at = "running" THEN {"all", "refused"} ELSE {work[bake.of], "part"} :
               work' = [work EXCEPT ![bake.of] = w]
    /\ UNCHANGED <<contents, lib, flag, pending, looking, opens, clocks, linked, tried, bounds>>

\* TickBake finds the job over: a set's opens when it has been read again, a
\* file's opens everything prepared, and sheets open nothing.
TickBake ==
    /\ bake # None /\ bake.at = "ended"
    /\ bake' = None
    /\ lib' = IF bake.of \in lib.listed THEN Unread(lib, bake.of) ELSE lib
    /\ \/ /\ bake.of \in Sets
          /\ AwaitSetScan(bake.of, FALSE)
          /\ UNCHANGED <<opening, afterWrite>>
       \/ /\ bake.of = File
          /\ \/ OpenPaths(OnDisk(Library, work), Library, TRUE)
             \/ work[File] = "refused" /\ UNCHANGED <<opening, afterWrite>>
          /\ UNCHANGED <<pending, clock>>
       \/ /\ bake.of = Sheets
          /\ UNCHANGED <<pending, clock, opening, afterWrite>>
    /\ UNCHANGED <<contents, work, flag, looking, opened, chart, nothing, failed, setup, linked,
                   tried, bounds>>

-------------------------------------------------------------------------------

Next ==
    \/ \E r \in Rows : CoreScan(r) \/ SetChartSetOn(r) \/ RemoveChartSet(r)
    \/ \E d \in Sets : ImportFolder(d) \/ OpenRecent(d)
    \/ ImportFile \/ FinishImport \/ BakeRasterSources
    \/ TryOpen \/ DoOpenPaths
    \/ ReadoutTick \/ FirstRunPoll
    \/ SetupStep \/ SetupEnds
    \/ CancelBake \/ BakeEnds \/ TickBake

Spec == Init /\ [][Next]_vars

\* The timers fire, and the threads end; the mariner does as they like.
Fairness ==
    /\ WF_vars(DoOpenPaths) /\ WF_vars(TickBake) /\ WF_vars(ReadoutTick)
    /\ WF_vars(setup.clock /\ FirstRunPoll)
    /\ WF_vars(BakeEnds) /\ WF_vars(FinishImport)
    /\ \A r \in Rows : WF_vars(CoreScan(r))

FairSpec == Spec /\ Fairness

-------------------------------------------------------------------------------

TypeOK ==
    /\ work \in [Charts -> {"none", "part", "all", "refused"}]
    /\ lib.on \subseteq lib.listed /\ lib.scanned \subseteq lib.listed
    /\ lib.listed \subseteq Rows /\ lib.todo \subseteq lib.listed \cap Sets
    /\ \A r \in Rows : lib.draw[r] \subseteq Charts /\ (lib.draw[r] # {} => r \in lib.listed)
    /\ pending \in Awaits \cup {None}
    /\ bake \in Bakes \cup {None}
    /\ opening \in Opens \cup {None}
    /\ opened \in SUBSET Charts /\ chart \in (SUBSET Charts) \cup {Closed}
    /\ {flag, looking, afterWrite, nothing, clock, linked, tried, failed} \subseteq BOOLEAN
    /\ {setup.showing, setup.clock, setup.putAway, setup.had} \subseteq BOOLEAN

\* The readout clock runs when it has work and setup is down: while charts are
\* open, and while a set is waited for, unless an open that starts the clock is
\* on its way, or one has failed in the meantime (Open.cpp, ChartSets.cpp: the
\* clock is started by four handlers and stopped by three).
ReadoutsRun == chart # Closed /\ chart # {} /\ ~setup.showing => clock
AwaitedIsPolled ==
    pending # None /\ ~setup.showing /\ ~failed => clock \/ opening # None
ClockRuns == ReadoutsRun /\ AwaitedIsPolled

\* The same, with setup up: its own clock polls.
AwaitedIsPolledUnderSetup == pending # None /\ setup.showing => clock \/ setup.clock

\* With setup down, a set that is waited for is finished when it has been read:
\* it is baked, or opened, unless another bake begins first, an open fails, or
\* the set makes way for another.
AwaitedIsFinished == \A d \in Sets :
    (/\ pending # None /\ pending.of = d /\ d \in lib.listed \ lib.scanned
     /\ bake = None /\ ~setup.showing /\ ~failed)
        ~> (pending = None \/ pending.of # d \/ d \notin lib.listed \/ bake # None
            \/ setup.showing \/ failed)

\* A removal leaves none of a set's prepared charts on the disk.
RemovedLeavesNothing ==
    [][\A d \in Sets : d \in lib.listed /\ d \notin lib'.listed => work'[d] = "none"]_vars

\* The library settles: what is waited for is finished, and what is removed is
\* gone from the disk too.
LibrarySettles == AwaitedIsFinished /\ RemovedLeavesNothing
===============================================================================
