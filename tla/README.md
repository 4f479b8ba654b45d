# Lookout Marine: TLA+ models, checks and proofs

Lookout Marine is a nautical chart plotter. Its core is a Zig library
(`src/src`), which draws charts with the external engines tile57 and charttable
and runs plugins as WebAssembly modules under WAMR; over its C API stand native
shells, of which the Linux one (`src/linux`, C with GTK) and the Windows one
(`src/windows`, C and C++ with WinUI) are modelled here. The core is threaded by
hand: a frame thread, up to four detached tile workers, a builder thread, one
dispatch thread per plugin, an I/O thread with a watchdog, and a thread per name
lookup, fetch and WebSocket. The shells keep copies of what the core knows, which
timers, idles and wakes bring up to date. These modules model what such threads
and copies share, written from the code. All line numbers are the repository's.

- [How to run](#how-to-run)
- [The system](#the-system): the inventory
- [The modules](#the-modules): what each models and how it follows the code
- [The runs](#the-runs): what is checked, at which bounds, and why they suffice
- [Fairness](#fairness)
- [Where the code and its words disagree](#where-the-code-and-its-words-disagree)
- [What is proved](#what-is-proved)
- [What is only model-checked](#what-is-only-model-checked), and [what is not modelled](#what-is-not-modelled)
- [What is left](#what-is-left)

## How to run

    tlc -workers 2 -config EngineLock.cfg EngineLock.tla   # the module of each run: see The runs
    tlapm EngineLockProof.tla                              # likewise every *Proof.tla

A run takes seconds to three minutes, a proof from half a minute to about nine
minutes (`PluginHostProof`). `PROJECT.json` is the index: the runs with their
properties, the source lines each definition models, one mutant per checked
property (a plausible bug that TLC must find), the hazards the properties are
aimed at, the findings, and the theorems.

| files | contents |
|---|---|
| `SharedExclusive`, `RwLock` | the contract of a readers-writer lock, and `lock.zig`'s, shown to implement it |
| `Recompose` | adding charts to an open library: `root.zig` with `ct/tiles.zig` and `ct/host.zig` |
| `EngineLock`, `TilePool`, `EngineLockProof` | the lock, and the library over its contract; the pool of tile workers of `ct/tiles.zig`; the proofs of both |
| `PluginHost`, `PluginHostProof` | `plugin/host.zig`: dispatch, watchdog, restart, unload, stop |
| `Sockets`, `SocketsProof` | `plugin/broker.zig`: a plugin's TCP connections, its queue and the I/O thread |
| `ChartInput` | the Linux chart widget's touch and mouse |
| `ChartPlaces`, `ChartWindow` | the Linux chart window: frame loop, surface, menu, report, pin |
| `AlertStrip`, `TablePanel`, `ChartWindowProof` | a plugin's alerts and tables, from the broker to both shells; the proofs of the chart view |
| `LinkFetch` | the fetches the core asks of the Linux shell |
| `WindowThreads`, `ShellFetchProof` | the same on Windows, with the render thread and the UI thread |
| `ChartImport`, `ChartImportProof` | the Linux library: list, import, bake, the opening at launch |
| `WindowsImport`, `WindowsImportProof` | the Windows library, its deferred opens and its two clocks |
| `NoaaJob`, `FirstRun`, `NoaaLinux`, `NoaaWindows` | the chart download, setup, and both shells over them |
| `PluginConfig`, `LinuxPlugins`, `WindowsPlugins` | plugins' settings, in the core, the store and both shells' panes; their proof is in `ShellFetchProof` |
| `RasterSets`, `LinuxRaster`, `WindowsRaster` | pictures under the chart, in the engine and both shells |
| `ChartLinks`, `LinuxShelf`, `WindowsShelf` | charts by link, in the core and on both shells' pages |
| `LinuxCharts`, `WindowsCharts`, `ShellPagesProof` | the lists of sets and of work on both shells' Charts pages; the proofs of shelves, pages and setup |
| `MC*` | the instances that put several modules, or a definition of a constant, before TLC |

## The system

Every part of the system with the state it keeps, its operations, how it meets
the others, where it is hard, and what makes it correct. What is modelled is
described under [The modules](#the-modules); `PROJECT.json` names for every part
what is left out of it.

### The core

**Readers-writer lock** (`lock.zig`; *modelled*). State: two counters and a
waiting flag under a mutex. Operations: `lock`, `unlock`, `lockShared`,
`unlockShared`; whoever cannot enter polls every millisecond. It is the engine
lock: tile workers hold it shared while they compose, and every call that swaps,
closes or trims a composition holds it exclusively, inside the api lock.
Correct: a writer is alone, a stream of readers does not starve it, and the
waiting flag does not outlive the writers who raised it.

**Tile worker pool** (`ct/tiles.zig`; *modelled*). State: a queue of asks, jobs
in flight, an atomic count of workers standing, the pointer to the composition.
`pump` moves charttable's asks to the queue and brings the pool up to strength;
workers take asks, compose and answer, and hand in their badge when the queue
stays empty; `deinit` waits for the count and frees. The threads are detached,
so the count is all anybody knows of them. Correct: every ask is answered once,
none is stranded by the last worker leaving, nothing is freed under a worker.

**Library composition** (`root.zig`, `ct/host.zig`; *modelled*). State: the list
of charts, the composition in use, the one to be replaced, the flags of a build,
the source the renderer is bound to. `chartsAdd` opens files outside the api
lock and starts a build; a builder thread opens a composition over the list;
`pollCompose`, from a frame or a call, joins it, swaps and closes the old one;
`close` joins and closes everything. Hard: an add gives up the api lock half
way, two may overlap, workers copy the pointer and use it later. Correct: no two
builds over one list, no composition closed in use or leaked, every added chart
composed and drawn in the end.

**Plugin host** (`plugin/host.zig`; *modelled*). State per plugin: live,
stopping, the stamp of the call in progress, the number of restarts, the promised
restart, the module instance, its thread; and a registry with its mutex. A
dispatch thread delivers events, retires a plugin that traps, waits out the
backoff and puts a new instance in place; the watchdog terminates calls over the
budget; the API thread starts, configures, unloads, stops, frees. Hard: the
watchdog judges a call that may return meanwhile, and a restart frees what it
looks at. Correct: the right instance is killed and only for cause, nothing runs
in a freed one, the schedule bounds the restarts, SHUTDOWN is last, stop returns.

**Plugin loading, installing, grants** (`plugin/host/*`; *not modelled*). State:
packages on disk, `grants.json`, settings files. Hard: a grant revoked while a
native that checked it is under way. Correct: one entry per id with the right
precedence; behind a revoked grant nothing it produced remains.

**Broker: sockets and queue** (`plugin/broker.zig`, `broker/sockets.zig`,
`broker/queue.zig`; *modelled in part*: TCP, the queue's cap, back pressure,
stop). State: the connection records, one event queue per plugin, the wake pipe.
Natives open, send and close; a detached thread per connect resolves and dials;
the I/O thread polls, reads, writes, reports and reaps. Hard: three threads end
connections, and descriptors are used outside the lock. Correct: events of a
connection in order, no descriptor leaked or used once closed, the queue never
filled by sockets, stop waits for the resolvers.

**Broker: alerts and tables** (`broker/alerts.zig`, `broker/tables.zig`; *modelled
in part*). Alerts under a plugin's key with a severity, an acknowledgement, a cap
and a number that moves; tables with rows, a sequence number and a flag for "is
looked at". Hard: the reader copies once a second what three threads change, and
numbers start again with every handle. Correct: see the shells' half below.

**Broker: natives and budgets; HTTP and WebSocket; storage** (`broker/natives.zig`,
`http.zig`, `ws.zig`, `storage.zig`; *not modelled*). Checks in front of every
call; one detached thread per fetch or socket, cancelled through a list; a file
replaced by a rename under one lock. Correct: no effect without its grant, one
answer each, the old or the new file behind a crash.

**Vessel and AIS stores** (`plugin/store.zig`, `aisstore.zig`), **WASM runtime
wrapper** (`plugin/wasm.zig`), **sockets layer** (`plugin/net*.zig`; *not
modelled*, or where used). An election between sources by time stamps under one
lock; thin layers over WAMR and the system.

**Chart download** (`noaajob.zig` with `httpgather.zig`, `encunpack.zig`,
`bakejob.zig`; *modelled in part*). A numbered run: transfers one at a time
through the shell, unpacked, then prepared by a bake once the library has been
scanned; stopped, replaced, retried; told in a snapshot behind a wake. Hard: an
order replaces one whose transfer, scan or bake is still out. Correct: a run shown
as running is carried by something, one bake runs at a time, no answer lies where
nobody looks.

**First-run setup** (`firstrun.zig`; *modelled*). Steps and rules over facts the
shell states. Correct: every step can be left.

**Charts by link** (`chartlinks.zig`; *modelled in part*). The list of linked
styles, the pick, and the machine that reads a style with its tile sources and
sprites and hands it to the renderer; a newer read supersedes an older. Hard: an
answer that comes behind a pick, a removal, or a style the renderer refuses.
Correct: what is drawn is what is picked, what is saved is the list.

**Pictures under the chart** (`ct/raster.zig`, `pictures.zig`; *modelled in
part*). Files of sets over stretches of water, switched on and off, and an
election of the set drawn where two compete. Correct: no water drawn twice.

**Chart sets and library** (`chartsets.zig`, `library.zig`): the shells' environment in
`ChartImport` and `WindowsImport`. **Overlay store**, **engine facade**, **C API**,
**bundled plugins and SDKs** (*not modelled*): one lock and geometry, a frame
thread and arithmetic, marshalling, event handlers over parsers.

### The shells

A shell's handlers run one at a time on a main loop. What is hard is the order in
which timers, idles, wakes and answers of other threads come between them, and
that almost everything on the screen is a copy.

**Chart input, Linux** (`linux/src/ui/chart/view.c`; *modelled in part*). One
finger stitched from the short contacts of a resistive panel, two one-shot timers
that answer it, a second finger that hands it to the pinch. Correct: a stroke is
answered once; a finger at rest holds the chart.

**Chart window, Linux** (`engine/controller.c`, `ui/chart`; *modelled in part*). A
frame loop that stops by itself, a surface under a hole in the window, a camera
saved between charts. Correct: the loop never sleeps over something to show, the
hole is filled, the world view is not taken for the mariner's.

**Chart window, Windows** (`engine/lk_controller.c`, `app/ui`, `chart/ui/Open.cpp`,
`library/ui/ChartLinks.cpp`; *modelled*). A render thread that parks, a UI thread
that opens, resizes and closes, a pool of fetch workers, and three locks. Correct:
no thread is in a closed handle, nothing is slept on, the UI thread comes back.

**Link fetch, Linux** (`library/fetch.c`, `model/links.c`; *modelled*). Requests by
number, cancelled, answered late, numbered again by the next handle. Correct: no
answer reaches a handle that did not ask; the fetcher is freed once.

**Library, Linux** (`library/sets.c`, `model/app-model.c`, `library/bake.c`;
*modelled in part*) and **Windows** (`chart/ui/Open.cpp`, `library/ui`; *modelled in
part*). Sets listed, switched, scanned on a thread, imported, baked, removed; the
chart opened over what is drawn. Correct: nothing off the list is drawn, every scan
is told, a finished bake is drawn, what is awaited is polled and finished.

**Alerts and tables** (`ui/chrome/alerts.c`, `table-window.c`; `plugins/ui/Alerts.cpp`,
`Tables.cpp`; *modelled*). Copies taken once a second. Correct: a copy is the list
whose number it carries, an alarm is heard and can be answered, a table is open
just for a window.

**Setup and the NOAA picker** (`model/noaa.c`, `ui/firstrun`, `ui/charts`;
`library/lk_noaa`, `firstrun/ui`; *modelled in part*). Correct: the run followed
is one that will be told to its end, the copy drawn is current or will be read again, Preparing is left.

**Plugin settings** (`plugins/registry.c`, `ui/settings`; `plugins/ui/PluginSettings.cpp`;
*modelled in part*). A copy edited by the mariner and saved by a timer, lists filled
again on idles, a browse of the network on other threads. Correct: an edit is on
its way until core and store have it, and no copy that knows of it undoes it.

**Pictures** (`model/raster.c`; `library/ui/Raster.cpp`; *modelled in part*). The
library of picture files, the shell's reading of the engine's election. Correct:
what the library says is in force, a reopen draws what was drawn.

**The Charts page** (`ui/settings/charts.c`, `ui/charts/gallery.c`;
`settings/ui/ChartsPage.cpp`; *modelled in part*). Tiles of linked charts with the
pick marked before it is read; rows of sets, panels of work. Correct: the tile lit
is the chart picked, the chart drawn is the pick or was applied, a pick is decided, the lists say what is so.

**Panels and read-outs**, **the Apple and Android shells** and **vendored code** are
*not modelled*.

### How the parts meet

    mariner -> shell's pages and chart -> C API -> api lock -> engine facade
                 ^                                   |             |
                 | wakes, polls, answers      chartsAdd, close   frame: pollCompose, pump, draw
                 |                                   |             |            |
      fetch, scan, bake threads                   builder          |       tile workers
                                                     \___ engine lock (RwLock) ___/

    shell -> plugin API -> host (registry, reg_mu) -> dispatch threads -> WAMR
                                  ^                        | natives
                              watchdog                     v
                          (the I/O thread) -- broker (mu): queues, sockets, alerts, tables
                                                           ^
                                        resolver, HTTP and WebSocket threads

The abstractions meet where the code's parts do. `RwLock` implements
`SharedExclusive`, and `Recompose` uses the lock through that contract only: an
exclusive section is a step taken while no worker is inside. `TilePool` is the
workers' lives and `Recompose` is what they have in their hands. `PluginHost`
has the plugin's queue without its cap, and `Sockets` has the cap and the
plugin's connections without the plugin's lives, its `DropPlugin` being what
`retire` does to the broker. `NoaaJob`, `FirstRun`, `RasterSets`, `ChartLinks` and
`PluginConfig` are the core as functions of one record, and each shell's module
extends them with its own copy. Where two modules share no state, an MC module
puts them side by side and a behaviour is of one of them; the sum of the states is
then the sum of the parts, not their product.

## The modules

Each action is one critical section, one atomic operation, one call made outside a
lock, or one handler of a main loop, with everything the code does in it; between
two such steps any other may run. The named definitions that no action uses
(`EnterLockedOverReaders`, `DropQuietly`, `AbortInSilence`, ...) are the mutants:
each is the definition it stands before with one plausible bug.

### SharedExclusive, RwLock, Recompose, EngineLock

`SharedExclusive` has one variable, the mode each thread is in, and says what
users of the lock rely on: any number of sharers or one excluder. `RwLock` has
the code's `readers`, `writer`, `writer_waiting` and where each thread is.
A poll that fails changes nothing but the flag, so `EnterShared` and
`EnterLocked` take a section of the mutex that has an effect. `EnterLocked`
raises the flag when it cannot come in and lowers it when it does
(lock.zig:111-122); with two writers the first one in lowers it for the other,
whose next poll raises it again. `Contract` is the refinement mapping.

In `Recompose` compositions are numbers in the order of opening, and `covers` is
the sequence of how many charts each was opened over. `AddBegin` is a `chartsAdd`
with no other in flight, which first polls until the build in hand is adopted;
`AddRelease` gives up the api lock to open files, `AddRelock`, `AddAppend` (in
the engine lock), `AddStart` go on as `chartsAdd` does (root.zig:1263-1366).
`BuildOk`/`BuildFails` is `composeWorker`. `PollNothing`, `PollJoin`, `Swap`,
`Bind` are `pollCompose` (:1895) and `bindComposed`. `FrameEnter` is a frame,
which polls only while a build is out (:3184). `CloseBegin`, `CloseEnd` is
`close`. `CopyCompose`, `ComposeTile`, `TileComposed` are a worker's `serve`:
the pointer is copied under `compose_mu`, used under the engine lock. `source`
is what `ct/host.zig`'s `bindChart` and `bindComposed` last gave the renderer.

`EngineLock` is both, side by side: a behaviour is the lock's, beside a library
that is shut, or the library's over the contract, beside a lock nobody takes.

### TilePool

`tile` is where each ask is at charttable, `queue`, `in_flight`, `alive`,
`stopping` are the code's, `spot`, `idle` and `job` the worker threads. The frame
thread pumps (`Pump`, tiles.zig:169) and starts (`StartCheck`, `SpawnOk`,
`SpawnFail`, :132): the count goes up before the spawn and comes back when the
spawn fails. A worker takes (`Take`), sleeps an empty poll (`Sleep`), answers
(`Respond`) and finishes (`Finish`); after `IdleLimit` empty polls it stands
down: decrement first (`StandDown`, :206), then look again (`Recheck`, :209),
and re-enlist if an ask landed (`Rejoin`). `Close` and `Free` are `deinit`
(:142). `Parked` is the ask charttable parks for `pump`. Slots are reused:
`Slots` is how many threads may exist at a time, one more than `Want` because
a worker that gave up its badge is still running.

### PluginHost

`e[p]` is one record: the entry of the registry, the broker's record of the
plugin (`enabled`, `scene`: whether anything it drew or published is still
there), the instance (`gen`, `terminated`, `freed`), the thread (`pc`, `cur`)
and four history fields that the properties read (`seen`, `told`, `tries`,
`overran`).

| thread | actions | code (plugin/host.zig) |
|---|---|---|
| dispatch, serving | `EnvOk/EnvFails`, `Serve`, `Pop`, `Deliver`, `Stamp`, then the module's `Contribute`, `Return`, `Refuse`, `Trap`, `Hang`, `Overrun`, then `Afterwards`/`Trapped`/`Stuck`, `Retire`, `Drop`, `Schedule` | dispatchMain, serveEvents (1767-1808), deliverTo to retire (1981-2068), scheduleRestart (1922) |
| dispatch, restarting | `Backoff`, `Due`, `Begin`, `GiveUp`, `Swap`, `Config`, `Revive`, `GoLive`, `Up`, `CleanRun`, `Clear` | dispatchMain's loop (1780-1793), restart, decayRestarts, giveUp (1835-1979) |
| watchdog | `Tick`, `Look`, `Judge`, `Claim`, `Kill`, `EndWalk` | watchdogTick (2078-2101) |
| API | `Start`.., `ConfigSet`/`ConfigRefused`, `ConfigPush`, `Tell`, `Unload*`, `Tombstone`, `Stop*`, `JoinIo`, `DeinitInline`, `Deinit` | configSet (942), unload (1500), start (1644), stop (1689), deinit (514) |

The clock is abstract: `late` is the set of plugins whose stamp the watchdog's
clock puts over the budget when the tick reads it; a clean run becomes "whole"
and a backoff due whenever they do. A setting is a version number: `values[p].v`
is what the registry shows, `said` what the last accepted call left. Whether a
plugin's SHUTDOWN is delivered by its own thread or inline (before start, or in
the second stop) follows the code. `DispatchIsSound` is `KillIsEarned` (a call is
terminated only over its budget), `TerminateHitsItsTarget` (the instance that was
judged), `ShutdownIsLast`, `SettingsInForce`, `RetiredIsErased` (nothing of a
retired plugin is on the chart) and `NothingLeftBehind`.

### Sockets

One plugin's TCP connections. `conn[c]` is the record in the broker's list,
`sock[c]` what became of the descriptor in the kernel, `resolver[c]` the detached
thread of a connect.

| thread | actions | code (plugin/broker.zig) |
|---|---|---|
| the plugin (natives) | `Open`, `Send`, `RequestClose`, `DropPlugin`, `Deliver` | openConn, sendConn, requestClose (1660-1704), dropPlugin (655), popFor (557) |
| a resolver | `Dial`, `Attach`, `Fail`, `Report`, `Leave` | resolveMain, finishConn: 1853-1888 |
| I/O | `Claim`, `SpawnOk/SpawnFails`, `NonePending`; `Build`; `Poll`; `Drain`; `Look`, `Connect`, `Flush`, `Recv`, `PushData`, `HangUp`, `PushOutcome`, `Served`; `Reap`, `Reaped`; `Tick` | ioMain (1768): startPending, buildPollSet, poll, drain of the wake pipe, serviceSockets, serviceOne, flushConn, reapClosing, fireTimers |
| stop | `Stop`, `JoinIo`, `CloseWake`, `Free` | stop (1716), deinit (379) |
| the peer, the kernel | `HandshakeDone`, `PeerSends`, `PeerReads`, `PeerEnds` | external |

`Look` copies the descriptor under the lock; `Connect`, `Flush`, `Recv`, `HangUp`
use the copy outside it, as `serviceOne` does (1988-2030). `Build` leaves POLL.IN
out for a paused plugin, and `Poll` reports a hang-up all the same, as `poll(2)`
does: on Linux when a connection is reset or shut both ways, on macOS when the
peer closes. Every push of an event is its own section behind the one that took
the record out of the list, as in the code, so another thread may come between.
Output is counted in chunks (`out`), and `room` is what the kernel's send buffer takes:
`Flush` writes as much as there is room for, keeps the rest, and writes nothing to a
connection that is broken (`Written`, 2061-2067); `PeerReads` makes room, and `Poll`
reports the socket writable only where there is some.
`ConnectionIsSound` is `EventsInOrder`, `NoStaleDescriptor`, `NothingLeaked` and
`NobodyAfterStop`.

### ChartInput, ChartWindow, AlertStrip, TablePanel

`ChartInput` is the widget's own reading of the glass (view.c): the latches
`touch_points`, `touch_multi`, `touch_taken`, `touch_was_tap`, two timers counted
in ticks, the throw. `fingers`, `many` and `answers` are what is true of the glass
and what a stroke was given; no handler reads them. A timer that is due may be
late, by as much as it likes.

`ChartWindow` has the open handle, the core's camera (one of a few places) with
its ease and follow, the frame clock and the one-shot of the controller, the
surface and whether the widget is a hole over it, the saved pose, and what stands
over the chart (menu, report, pin and bubble). Each setter of the controller ends
in the kick the code ends it in; a frame takes the core's verdict
(`shell/frame.zig`) and goes on, slows down or stops. `ViewIsAlive` is
`LoopIsAwake` and `HoleIsFilled`, `WindowAgrees` is `PoseIsOfCharts` and `OneThing`.

`AlertStrip` is the broker's list (`book`, with its number `seq`) and a shell's copy
(`list`, taken at `known`), the one-second watch and the siren. One module serves
both shells; `shell` says where they differ: when the watch starts and stops, and
what is forgotten with a handle. `TablePanel` is a table the plugin feeds while it
believes it is looked at (`told`), the queue that tells it, the broker's rows and
the window's copy of them.

### LinkFetch and WindowThreads

`LinkFetch` has the slots of `LkFetch` structs, the fetcher's table `in_flight` from
request number to slot, the counted holds, and per handle the requests it asked
for. The generation a fetch is `from` is in no code: it is what a number does not
tell. A completion comes on a later turn than a cancel.

`WindowThreads` has three kinds of thread. The UI thread opens (start of the pool,
provider, first frame), resizes (suspends the render thread) and closes in
`CloseChartHandle`'s order; the render thread draws under the api lock and parks,
for a while or for good; a worker pops a job, reads, and answers under `link_mu`,
then kicks. `Fetched` is what `FetchUrl`'s loop ends in (ChartLinks.cpp:96-238): the whole
body, a failure, a body that stopped part way because WinHttpQueryDataAvailable failed
("cut", :193-194) or because the transfer was marked ("short"), both with the good status
kept, so that `QueueGet` answers with 200 (:443). `dropped` and `ended` are the jobs `Stop` took out and the transfers it
marked.

### ChartImport and WindowsImport

Both have the mariner's folders (`contents`), what was prepared of each (`work`), and
the core's list as one record: listed, on, scanned, what is to be prepared (`todo`),
what can be drawn (`draw`). A scan sets what is true at its end.

`ChartImport` (sets.c, app-model.c, bake.c) has the poll of the list and what it
told, the import with its pick scanned beside it, the bake thread with its cancel
and its hand-over, the widget's opening at launch, and every `Reopen` as part of
the handler that makes it. `WindowsImport` (Open.cpp, ChartSets.cpp, Bake.cpp,
firstrun/ui) has the set that is waited for, the open put off by a timer tick, the
readout clock and setup's clock, which of four handlers start and three stop.

### NoaaJob, FirstRun, NoaaLinux, NoaaWindows

`NoaaJob` is the service as functions of one record: orders, answers, the unpack,
the scan awaited, the bake, a bake let go by the next order (`retired`), and the
snapshot (`Published`) behind a wake. Two transfers make a run. `FirstRun` is
`firstrun.zig` whole: steps, facts, what each button is and does. `NoaaLinux` adds the
wrapper, which follows an order to its end, the card and the picker's window;
`NoaaWindows` the copy of the state the card is drawn from, which only `NoaaChanged`
moves.

### PluginConfig, LinuxPlugins, WindowsPlugins

Two plugins stand for all: one bundled, with a list of connections, and one the
mariner installs, with a number. The core has what is loaded, its values and its
grants; the store, what was saved; `mine` is what the mariner made of each and the
store does not have yet. `LinuxPlugins` is a window that reads the registry once,
edits its copy, saves by a timer, fills its list on an idle, browses, and is
destroyed and built again behind an install. The window built again is one the main
window does not know (`tracked`), so a second may be opened beside it: `Slots` numbers
the windows, and `beside` notes in each what another made or saved since it read or
pushed its own copy (a history variable); `WindowsPlugins` a pane with the shell's
one copy, whose pages are built again whole, and a browse on the system's threads.

### RasterSets, LinuxRaster, WindowsRaster

`RasterSets` is `ct/raster.zig`'s election: files of sets over stretches of water, the
files that are on, the sets drawn, and the pick, cycle and restore the shells make.
`LinuxRaster` has the library (which is what is saved), the reading of the engine a
frame brings up to date, the pill and the list of Settings; `WindowsRaster` the store,
the shell's copy of the hidden sets, the page's switches and the Chart menu.

### ChartLinks, LinuxShelf, WindowsShelf, LinuxCharts, WindowsCharts

`ChartLinks` is `chartlinks.zig` as functions of one record: the list, the pick
(`active`), what the renderer was told to hold (`applied`) and what it draws
(`drawn`), and the read under way with its phase. `LinuxShelf` marks a tapped tile
before the core has begun to read it and reads the core's list on a frame;
`WindowsShelf` marks it until its read settles, queues the call behind the click,
and reads on a tick that is not the frame's. `LinuxCharts` and `WindowsCharts` are the
lists below: rows and panels filled on idles, or a page built again when its shape
has changed.

### The instances

`MCPluginHost` gives `PluginHost` one plugin. `MCShellFetch` puts `LinkFetch` beside
`WindowThreads`; `MCChartWindow` the view's four modules; `MCNoaaSetup` the two shells
over one service, with the properties of both; `MCShellPanes` the four panes,
`MCChartsPages` the two shelves, which it extends, and the two pages.

## The runs

| run (module) | instance | distinct states |
|---|---|---|
| EngineLock (EngineLock) | 4 sharers, 1 excluder; 2 adders, the frame thread, 1 worker, opened with 0 to 2 charts, 3 adds | 24,530 |
| TilePool (TilePool) | 2 tiles, 3 slots, Want 2, IdleLimit 1, 3 asks, 1 refused spawn | 443,492 |
| PluginHost (MCPluginHost) | 1 plugin, 1 restart in the schedule, 2 faults, 1 event or 1 settings change | 497,711 |
| Sockets (Sockets) | 1 connection, a queue of 4 paused at 2, 2 unread chunks, 2 chunks of output, room for 1 | 480,088 |
| ChartWindow (MCChartWindow) | 2 fingers, ticks of 2, 3 and 4; 2 waters; 3 conditions, 2 alerts, 1 visible; 2 vessels | 57,338 |
| ShellFetch (MCShellFetch) | Linux 2 slots, 2 handles of 2 requests; Windows 2 workers, 2 handles of 1 request | 114,541 |
| ChartImport (ChartImport) | 2 folders, 1 kept at launch, 2 moves, 1 realize | 429,830 |
| WindowsImport (WindowsImport) | 1 folder, the library and a file, 2 moves, 1 failed open | 296,070 |
| NoaaSetup (MCNoaaSetup) | 2 orders, on the Windows picker as well | 177,110 |
| ShellPanes (MCShellPanes) | 2 settings windows, 2 row ids, 1 host; 2 files of 2 sets over one water, 2 views | 650,848 |
| ChartsPages (MCChartsPages) | 3 links, 2 asks, 3 shows; 3 sets, 2 opens, 2 moves, 1 or 2 steps | 133,240 |
| ChartsPageRecursion (MCChartsPages) | the same | violation |

What each shows; a property that has parts is named with them.

- *EngineLock*. `TypeOK`; `ContractSpec`, the lock implements `SharedExclusive`;
  `WriterIsServed`: no reader enters while the writer polls (`WriterPriority`), and the
  writer gets in (`WriterGetsIn`). `CompositionIsSound`: `ListIsQuiet` (no build reads a
  list that grows), `CurrentIsOpen`, `NothingLeaked`, `EveryChartComposed`.
  `BuildIsAdopted`: by frames alone.
- *TilePool*. `PoolAddsUp`: `AliveMatches` (the count is the workers that hold a badge),
  `AskInOnePlace`, `NotStranded` (an ask that waits has a worker), `NoJobAfterFree`.
  `WorkEnds`: `AskIsAnswered`, `CloseReturns`.
- *PluginHost*. `AttemptsBounded`, `NothingAfterFree`, `DispatchIsSound`;
  `PluginRecovers`: a promised restart is tried (`RestartIsTried`), a plugin in a loop
  is got out (`HangIsEnded`).
- *Sockets*. `ConnectionIsSound`; `SocketEventsBounded`, what sockets push into a queue
  nobody empties stays below the pause and two events a connection; `AskedIsDone`:
  `ConnectIsDecided`, `CloseIsReaped`, `SentIsWritten`, `StopReturns`.
- *ChartWindow*. `RestStopsCoast`; `StrokeIsAnsweredOnce`: `OneAnswer`, `PinchStandsOff`.
  `WindowIsTrue`: `ViewIsAlive`, `WindowAgrees`, `StripIsTrue` (`CopyIsTheBook`,
  `SirenCanBeAnswered`, `RowNamesItsAlert`, `WatchIsOfTheLayer`), `PanelIsTrue`
  (`WindowIsTheTable`, `OpenIsForAWindow`, `LastWordIsHeard`). `SeenAndHeard`:
  `OpenIsSeen` (`ChartIsDrawn`, `LoaderEnds`), `AlarmIsHeard`, `TableIsFed`.
- *ShellFetch*. `FetcherAddsUp`: `TableIsTrue`, `HoldsAreCounted`,
  `AnswerReachesItsAsker`. `HandleIsSafe`: `HandleOutlivesItsThreads`,
  `PoolIsUpForAsks`, `NothingShortIsTaken` (what a cancel or a stop cut off is no
  answer the handle takes; of a body cut off in the network see below),
  `LinksAreNotSleptOn`. `NobodyWaits`:
  `AskedForIsDecided`, `UiReturns`.
- *ChartImport*. `ListIsInForce`: `NothingDrawnThatIsOff`, `ScanIsTold`. `BakeIsDrawn`.
  `AskedForIsTakenUp`: `LaunchOpens`, `ImportBegins`.
- *WindowsImport*. `ClockRuns`: `ReadoutsRun`, `AwaitedIsPolled`. `LibrarySettles`:
  `AwaitedIsFinished`, `RemovedLeavesNothing`.
- *NoaaSetup*. `SetupIsHonest`: `RunIsCarried`, `OneBakeAtATime`, `NothingInHand`,
  `FollowIsCurrent`, `CopyIsCurrent`. `SetupMovesOn`: `ImportIsLeft`, `OrderIsTold`.
- *ShellPanes*. `PanesAreTrue`: on Linux `WindowIsTrue`,
  `OffersAnswer`, on Windows `PaneIsTrue`, of both `EditIsOnItsWay` and that core and
  store agree once it has arrived; of the pictures `ReadingIsTrue`, `LibraryIsInForce`,
  `PicksAreSaved` and `OnePicture`. `EditIsKept`: no step puts an older copy over an edit,
  but for the save of a Linux window beside which another one edited or saved
  (`NothingElseIsUndone`), or draws other sets than were drawn.
- *ChartsPages*. `ShelvesAreTrue`: `PickIsDrawn`, `ListIsSaved`, `NoTextLeft` of the core,
  `ReadingIsCurrent`, `ShelfIsCurrent`, `LitIsDrawn`, `MarkIsOfTheCall` of the shelves.
  `PagesAreTrue`: the rows are the sets and the panels the work. `PickIsDecided`.

### Why the bounds are enough to meet the cases

- *EngineLock*: four workers are MAX_WORKERS. One excluder, because every exclusive
  caller already holds the api lock; the proof of exclusion covers any number, and
  priority needs the one. Two adders and the frame thread are two adds in flight and
  a close in the gap of each; three adds let one land behind a swap. One tile worker, as
  its copy of the pointer is private. The library opens with none, one or two charts
  because the code treats these three differently.
- *TilePool*: with `Want` 2 and `IdleLimit` 1 a worker may stand down while the
  other works, while an ask lands, and while start counts; three slots let a
  leaver overlap with a full pool; three asks over two tiles bring a tile back
  after its answer. `MaxSpawnFails` 1 fails the only spawn or the second.
- *PluginHost*: one plugin, since a plugin's thread touches its own entry only; what
  needs several (the loops of start, stop and deinit) is in the proofs, which are for
  any set. One restart and two faults reach the end of the schedule and the fault
  behind it, with the clean run in between. The constraint `OneInput` allows one event
  or one settings change beside the faults.
- *Sockets*: an id is used once, and what two connections share is the queue and
  the I/O thread's loop. Two connections make well over 10 million states, so TLC
  checks one; the proofs hold of any set. With two chunks of output and
  room for one a flush leaves one behind, so that a partial write is met each time the
  output is full; and none is taken while the peer reads nothing. `MaxQueued` 4 over `PauseAt` 2 leaves room
  beyond the pause for the two events a connection may still report, and for timers to
  fill the rest.
- *ChartWindow*: 220, 350 and 550 ms become 2, 3 and 4 ticks, which keeps their order and
  lets a lift fall before, between and behind them; `MaxPoints` 3 is one more than the
  fingers, for the touches that cancels leave behind. Two waters tell a kept pose
  from another. Three conditions over a cap of two displace one; one visible row and
  two alerts hide one; two handles number again. Five batches and two letters of mail
  let a table close, open and be fed between two reads.
- *ShellFetch*: two handles, the second numbering as the first did; on Linux two slots are
  a fetch of the old handle and one of the new, on Windows two workers are one that
  reads and one that kicks.
- *ChartImport*, *WindowsImport*: two folders (one beside the library's own row and a
  file on Windows), one of them perhaps there at launch, and two moves are a pick
  during another's bake, a removal during a scan, a switch behind an import.
- *NoaaSetup*: two orders are one that replaces another, whose bake is let go while the
  new one's prepare waits behind it. A behaviour uses the card or the
  picker (`OneWay`), a launch that takes an online chart orders none (`OneChart`), on
  the picker an order replaces one that runs (`Replaces`), and an update check is not
  due behind an order (`EarlyCheck`).
- *ShellPanes*: two settings windows (`LinuxSlots`) are one built again and one opened
  beside it. Nothing keeps a mariner from closing, building again or reading again under
  an edit's timer. A behaviour (`busy`) edits the list, in one window, with hosts found and
  fields typed in (`list`); manages the added plugin, its number, its install and its
  removal, one window up at a time (`added`); its grants, with two (`grants`); or edits
  the list in two windows that are built again behind installs (`windows`; nothing is
  found or typed, the chart stays open, one row is added and the list is not emptied). Of
  the pictures `Hasty`, `Again` and `Stale` are off: a mariner does not use, before the idle or the frame that
  draws it again, what is about to be drawn again. Two files of two sets over one
  water are a choice; two views are a pick out of sight.
- *ChartsPages*: one link of tiles, one of a style, and the style shipped beside the
  tiles; two asks are a pick behind a pick, an add, a read again or a removal; three
  shows close and open the chart in between. Of the pages, three sets are one the app
  prepared, one of the mariner's and the downloader's own.

Larger instances that were checked once, without an error: WindowsImport with three
moves 2,723,647 states, and the safety of two folders 14,999,864; ShellPanes' two
windows with the number edited there too 468,534; LinkFetch with three slots 76,468;
NoaaLinux without the bounds of `MCNoaaSetup` 1,993,387; LinuxRaster with
three files over one water 461,499, and over two waters 78,124; WindowsRaster with `Stale`
343,244; AlertStrip with `MaxSeq` 5 32,122; LinuxShelf and WindowsShelf with three asks
27,286 and 26,835; MCNoaaSetup with three orders 392,932; LinuxCharts with three steps 610,600, WindowsCharts with three moves and
four steps 644,653; PluginHost with two settings changes, for the second invariant of the
proof, 9,403,039.

No run uses symmetry; the runs with liveness could not. Deadlock is checked where the
system has an end that stutters (`Ended`) or none. It is not in ChartWindow,
ShellFetch, WindowsImport, NoaaSetup, ShellPanes and ChartsPages: a shell whose mariner
does nothing, with every bound used up, really stops.

## Fairness

- A running thread goes on: weak fairness of every dispatch, worker, resolver,
  builder and API step. A lock's polling loop tries every millisecond, so weak
  fairness of its entry suffices where the entry stays enabled.
- Strong fairness is used where a lock hands over. `Recompose`'s exclusive sections are
  enabled again and again between workers, and that a single writer gets in against
  any stream of readers is `RwLock`'s `WriterGetsIn`, under weak fairness alone.
  `PluginHost`'s `Swap` and `Tombstone` need the registry's mutex, which the watchdog
  holds for its walk and leaves free for the 100 ms between. `WindowThreads`' steps
  that take the api lock, which is such a lock.
- `PluginHost`: a call that is not in a loop returns in the end; a terminated one
  traps; a looping one is over its budget in the end (time passes). Nothing makes
  a call return that is in a loop.
- `Sockets`: `poll` has a timeout, so the I/O thread goes round; a resolver and a
  handshake come to an end (the system's own timeouts). Nothing makes the peer
  send, read or close, nor the plugin take events: the guarantees that need its events
  taken say so, and `SentIsWritten` is of a peer that goes on reading.
- `Recompose`: the frame loop keeps drawing while a build is out (`FrameEnter`), as
  `loadingPulse` asks it to.
- A main loop runs what is queued on it: timers, idles and wakes that are set come,
  scans and bakes end, a fetch completes. So in `ChartWindow`, `LinkFetch`,
  `ChartImport`, `WindowsImport`, and in `AlertStrip` the poll, in `TablePanel` the
  plugin's reading of its queue, its batch, the window's poll and a restart, on the
  shelves the frame, the tick, the idle and the queued call.
- `NoaaSetup`'s handlers are whole functions of the state, and several actions take one
  flag down; the fairness is stated of the flag (`[]<>` of its being down), and every
  step that takes it down does so for good.
- Where several parts lie side by side the fairness of a part asks nothing of it while
  it rests. `ShellPanes` has safety only.
- Nothing is assumed of who asks: no fairness on `Ask`, `Pump`, `AddBegin`, `Open`,
  `Send`, faults, peers, `Stop` or `Close`, nor on anything a mariner does.

## Where the code and its words disagree

One of these is a run, *ChartsPageRecursion*. The Windows Charts page polls the
download as its work section is built (`PollNoaaPane` in `ChartsWorkSection`), where
the comment has the poll leave the section current on the frame it is built in. The
poll ends in `RefreshChartsPageOnChange`, which builds the page when its shape differs
from the shape written down at the end of the build before (Settings.cpp:822), and
that is not written down yet: a page opened while a download runs, of a shape that
has changed since, builds itself again without end. In the passing run such a page
is `hung` and its properties ask nothing of it.

The next were found by a run each that is no longer kept. A configuration with these
constants, the specification named and the property alone finds the counterexample.

| property (module) | constants, specification | the words | what the code does |
|---|---|---|---|
| `NoWorkerAfterFree` (TilePool) | the run's, `MaxAsks` 1, `FairSpec` | "each worker's last act is the decrement" (tiles.zig:146) | a worker that stands down decrements and then reads the queue again (:209), which `deinit` may have freed |
| `NoWorkerReadsClosed` (Recompose) | its part of the run's, `MaxAdds` 1, `Spec` | "the caller closes it only after this returns and the workers have drained" (tiles.zig:154) | `pollCompose` closes the old composition (root.zig:1932) before it points the workers at the new one; the engine lock keeps a worker out of the close, not out of the pointer it copied |
| `AddedChartsAreDrawn` (Recompose) | the same | charts added "fill in as their tiles land" (root.zig:1939) | a library opened with one chart is bound to its archive, and `bindComposed` never binds the provider (ct/host.zig:413) |
| `StopReturns` (MCPluginHost) | the run's without `OneInput`, `FairSpec` | "A plugin in a loop must not stop the app from closing" (host.zig:1685) | `stop` looks at the stamp once (:1712); a thread that has popped SHUTDOWN and not stamped it is joined for ever if the plugin loops in it |
| `ShownIsInForce` (MCPluginHost) | the run's without `OneInput`, `Spec` | settings show "the value in force" (wire.md:862) | `configSet` refused at its second key keeps the first (host.zig:975) and pushes nothing |
| `PausedLosesNothing` (Sockets) | the run's, `MaxUnread` 1, `Spec` | "The backlog waits in the kernel buffer ... No data is lost" (rules.md:152) | a hang-up is acted on whether or not reads are paused (broker.zig:2024) and closes the socket with its backlog unread |
| `PinIsDropped` (MCChartWindow) | the run's, `EachSpec` | an object with nothing to show has no bubble, "so the pin is dropped" (overlay.c) | the pin stays without its bubble |
| `PinchEnds` (MCChartWindow) | the run's, `EachSpec` | the pinch keeps the single finger out until all fingers lift | GDK_TOUCH_CANCEL is ignored (view.c:798): `touch_multi` stays latched |
| `ChangesAreNotSleptOn` (MCShellFetch) | the run's, `BothSpec` | "Every mutating lk_controller_* call kicks" (lk_controller.h:82) | the kick comes before the change (lk_controller.c:66-69), so the render thread may park over it |
| `NoPartOfABodyIsTaken` (MCShellFetch) | the run's, `BothSpec` | "A body that stopped part way is not a body. The status stayed 200 here, so the caller took a truncated style or archive for a whole one" (ChartLinks.cpp:205-207) | that comment's check is of a failed read; where WinHttpQueryDataAvailable fails the loop ends (:193-194) with the status kept, and `QueueGet` answers with 200 (:443) |
| `StopEndsTransfers` (MCShellFetch) | the run's, `BothSpec` | a worker still reading one "held the UI thread" (ChartLinks.cpp) | Stop misses a job that was popped and is not in the table yet (ChartLinks.cpp:306-331) |
| `EveryImportBegins` (ChartImport) | `MaxMoves` 1, `FairSpec` | "Bake an imported folder once the core has read it." (app-model.c:308) | `start_import` returns while the opening at launch is up (:322); where the widget is unrealized before that opens, nothing calls it again |
| `DoneStaysDone` (MCNoaaSetup) | the run's, `SetupFairSpec` | the card "has no report between two of the bake's ... so the step keeps the last one" (importing.c:57-62) | flow.c:399 clears it: a phase shown as done waits again |
| `FollowedIsTold` (MCNoaaSetup) | the run's, `SetupFairSpec` | "the order it follows to its end" (lk_noaa.h:1) | `Apply` follows the next run though none was ordered (lk_noaa.cpp:81-88) |
| `PicksArePutBack` (MCShellPanes) | the run's, `PanesSpec` | the shell puts back which sets were drawn (Raster.cpp:365) | a set picked in the Chart menu is not saved (Menu.cpp:109-122) |
| `UnwatchedKeepsNoRows` (TablePanel) | vessels v1, v2, `Restarts` FALSE, `MaxMail` 2, `MaxSeq` 5, `Spec` | "A table nobody is watching keeps no rows" (broker.zig:1631) | a batch that was under way when the window closed is taken (:1220) |
| `TableRefills` (TablePanel) | the same with `Restarts` TRUE, `FairSpec` | "the table refills if the plugin restarts" (table-window.c) | a table declared again is not opened for the window that is up |
| `SilencedWasHeard` (AlertStrip) | two conditions, `MaxAlerts` 2, `MaxVisible` 1, `MaxIds` 3, `MaxSeq` 4, `MaxOpens` 2, `FairSpec` | | a click on a row silences an alert that has grown into an alarm since the row was drawn |
| `NoTransferIsReplaced` (LinuxCharts) | the run's, its `Spec` | "Update stands down while one runs" (charts.c:834-836) | not before the idle behind the order: a second click replaces the transfer |
| `PickIsDrawn` (ChartLinks), with `c.drawn = c.active` for its `Draws` | ChartsPages' with three asks of the Linux shelf and style and tiles on its disk | "Already drawn." (chartlinks.zig:659) | `abort` (:822) draws Lookout's own chart in place of the style and leaves `applied`: picking the chart again behind a failed read of another does nothing, so it is lit and saved, Lookout's own is drawn, and nothing is wrong |
| `PL!NothingIsUndone`, as `[][...]_panesVars` (MCShellPanes) | the run's | an edit of the mariner's is what is saved | a window built again is not known to the main window, so two may stand (plugins-page.c:32-33): the one that read before the other's edit pushes its whole copy over it. An edit that is back at what its window pushed last is not pushed at all (registry.c:799-812), whatever the other saved |
| `PL!ReopenFindsItsWindow` (MCShellPanes) | the run's | "Doing it on an idle keeps the rebuild off the signal that asked for it" (plugins-page.c:15) | the idle and the install sheet's callback hold no reference: the window may be closed and freed before either runs (install.c:165-195, plugins-page.c:46-61) |
| `PW!EditIsOnItsWay` (MCShellPanes), with `m` for the body of `Survives(m, p)` | the run's | | a page read again within the 60 ms of an edit's timer (`LoadSettings`, an install, an uninstall) takes the edit away: what is pushed then is what was read |
| `OffersAreNew` (LinuxPlugins) | the run's | "A HOST the list points at is not offered again" (plugins.c:569) | a host typed into a row fills nothing again: it is still offered, and a click adds a second row for it |
| `LineMoves` (LinuxPlugins), `FoundIsShown`, `SwitchIsTrue` (WindowsPlugins) | the run's | "A line moves on its own" (plugins.c:383-384) | the lines of a window whose poll was not started stand; a find behind a build, a grant changed elsewhere, are not drawn |
| `ForgottenIsForgotten` (LinuxRaster), `SwitchesAreTrue` (WindowsRaster) | the run's | raster.c:189-193 | a hidden name outlives the set; a small switch stands as it was when its big one was touched |

Met while modelling, and modelled as the code has them, without a property.

The core:

- With two writers waiting, the one that comes in lowers the flag (lock.zig:117)
  and a reader may come in before the other polls again, against :78 ("once one
  is waiting, no further reader may enter"). The api lock leaves one writer.
- A restart finds events on the queue that were pushed while the plugin was down
  (configSet pushes to it, host.zig:991), where :1829 has it empty.
- "A restart that cannot instantiate ... is one more failed attempt: the schedule
  decides whether there is another" (:1832), but `giveUp` (:1847, :1969) ends the
  restarts whatever is left of the schedule.
- A plugin whose dispatch thread cannot make its WASM environment stays "live" in
  the registry with nobody to serve it (:1774).
- TCP_CLOSED is dropped like any other event by a queue that timers have filled
  (broker.zig:498); and a TCP_CLOSED may reach the plugin after its own tcp_close,
  when the peer's end was reported first (wire.md:103).
- Where the system refuses the pool its only thread, asks already queued wait for
  the next ask (tiles.zig:136); `NotStranded` and `AskIsAnswered` except it.
- Charts by link: a mark on Windows stays up behind a call that finds no handle, or a link
  that is gone. A pick of the chart that is applied does
  not supersede a read under way, which lands and is drawn over it. A read that lands
  behind a pick that moved is dropped without `changed`: the shells go on saying
  "Reading". Removing the pick drops an add in flight without a word, a refresh's pick
  is not saved, the reason of an add refused at MAX_LINKS is wiped by the read it was
  refused beside, and a new handle whose list is empty raises no `changed`.
- The NOAA service: a bake that was let go is not joined by the order that applies
  (the comment at noaajob.zig:1998 has it joined); an order that replaces one and lands
  nothing leaves the arrived charts unprepared until a later scan; a file written whose
  answer is cancelled is not counted as done.

The Linux shell:

- A pick made while another is looked through overwrites `import_source`; a set removed
  while it bakes is put back by the bake's end; two removals share one panel; a trash
  report may come behind the poll that would have told of it. `auto.opening` may stay
  up (`LoaderComesDown` of ChartImport is violated, by a widget unrealized before its idle).
- The pick report is not cleared by a close and reopen (controller.c:1143-1151), and the
  readouts' trailing edge is lost when throttled (:108-130).
- The alert layer never goes down within a handle, against alerts.c:454-456. A reveal may
  centre on a vessel that left the window's rows (`RevealIsOfARow`).
- The gallery's guard (`active == want`, return) defeats the retry its comment promises;
  behind pick X, "Read Y again" and remove X no tile is lit; an add refused at MAX_LINKS
  keeps its mark until the 25 s timer; Update's sensitivity is stale until the idle;
  `PickChartTile`'s header comment says low priority, its code uses the normal one.
- The alert dialog's answer acts "only while the window still stands" and tests
  `in_destruction`, which is false again once the window is destroyed (not reached).
- Plugin settings: the first edit pushes and saves every plugin with fields, as
  `last_json` starts NULL (registry.c:80-82 says otherwise); a LOOKOUT_CLEAN launch skips
  `apply_saved`, and an edit then overwrites what was saved; an uninstall keeps the saved
  configuration (plugins-page.c:92-94 says otherwise).
- Discovery: an ItemRemove on one interface removes a find still announced on another; a
  resolve reply behind it adds a dead find; a browser path that arrives behind the free
  is dropped, and the daemon's browser leaks (discovery.c:231-232).
- Pictures: a file switched off and added again is on in the engine and off in the list
  (raster.c:148-160, with LinuxRaster's `Again`); a row of a removed path puts it in `off`
  (with its `Hasty`); a pill's menu that is stale right behind an open can show a set with no file
  on, and two pictures then share a water; the sync compares with the reading of the
  engine before; sets that span several waters may be drawn two to a water; a group
  switched off and on is not drawn.
- Setup: where the directory cannot be made, or an order ends while its set is off, or no
  chart opens, Preparing has neither button. A picker opened during A's download does
  not tick A, and applying without A deletes it.

The Windows shell:

- Fetches: the comment at ChartLinks.cpp:449-454 is no longer true, and `noaa_wake_posted` stays up where TryEnqueue fails (:504-516).
- The library: a launch on a saved link does not start the readout timer
  (Open.cpp:294-329); `OpenPaths` is dropped while an open is pending; a deferred open has
  the paths from before a removal; `pending_set` and `removal_job` are overwritten; a set
  may be removed while it bakes or is awaited; a removal whose directory cannot be emptied
  ends in one of several ways (ChartSets.cpp:339-366), which the model takes for one; a folder is pending while another bake
  runs; a failed deferred open stops the clock (:278); an archive's import opens sets
  that are switched off; a scan that fails never ends the wait.
- Setup: `TakeRetry` drops the retry when the catalog's read fails silently; Stop redraws
  from the stale copy until the dropped fetch's answer; transfers dropped from the unpack
  queue at Stop post no wake; removing everything through the picker and then "Later"
  raises setup no more in that launch, though firstrun.zig has it come back.
- The Charts page: its Update is not rebuilt when a bake starts; a change of cadence
  starts no check, where Linux does; a refresh in place polls and may build the page,
  against "This creates nothing and destroys nothing" (618-623).
- The page's `BrowseFound` context is deleted right behind DnsServiceBrowseCancel; a
  parked install is overwritten by the next drop; `raster_hidden` is stale behind Forget,
  and `lk_store_forget_raster` leaves the hidden name (lk_store.c:308-310).
- `OpenBasemapForSetup` behind a failed open starts no watch of the alerts.

## What is proved

TLAPS checks these for every value of the constants: any set of threads, tiles,
plugins, connections, requests, fingers or folders, and any bound. Every run that a
proof stands beside checks the same definition on its instance.

| proof | theorems | of the runs' properties |
|---|---|---|
| `EngineLockProof` | `TypeHolds`, `ExclusionHolds`, `NoStaleFlag`, `PriorityHolds`, `Refinement`; `LInvHolds`, `CompositionHolds`; `PoolInvHolds`, `PoolTypeHolds`, `PoolHolds` | `TypeOK`, `ContractSpec`, `CompositionIsSound`; `WriterPriority`, a part of `WriterIsServed`; `PoolTypeOK`, `PoolAddsUp` |
| `PluginHostProof` | `IInvHolds`, `TypeHolds`, `AttemptsHold`, `FreeHolds`; `DInvHolds`, `DispatchHolds` | `TypeOK`, `AttemptsBounded`, `NothingAfterFree`, `DispatchIsSound` |
| `SocketsProof` | `IInvHolds`, `TypeHolds`, `ConnectionHolds`, `BudgetHolds` | `TypeOK`, `ConnectionIsSound`, `SocketEventsBounded` |
| `ChartWindowProof` | `TypeHolds`, `RestHolds`, `StrokesHold`; `VInvHolds`, `AInvHolds`, `TInvHolds`, `WindowHolds` | `TypeOK`, `RestStopsCoast`, `StrokeIsAnsweredOnce`, `WindowIsTrue` |
| `ShellFetchProof` | `IInvHolds`, `TypeHolds`, `FetcherHolds`; `WInvHolds`, `HandleHolds`; `PluginPanesHold`, `PluginEditsAreKept` | `TypeOK`, `FetcherAddsUp`, `HandleIsSafe`; `PanesAreTrue` and `EditIsKept`, of the plugins' panes |
| `ChartImportProof` | `TypeHolds`, `ListHolds`, `BakeHolds` | `TypeOK`, `ListIsInForce`, `BakeIsDrawn` |
| `WindowsImportProof` | `TypeHolds`, `ClockHolds`, `RemovalHolds` | `TypeOK`, `ClockRuns`; `RemovedLeavesNothing`, a part of `LibrarySettles` |
| `ShellPagesProof` | `ShelvesAreTrueHolds`, `PagesAreTrueHolds`; `SetupIsHonestHolds` | `ShelvesAreTrue`, `PagesAreTrue`; `SetupIsHonest` |

The assumptions are those the modules name: bounds are naturals, sets that are counted are
finite (`FiniteThreads`, `PoolBounds`, `SocketConstants`, `FetchBounds`, `ThreadBounds`,
`StripBounds`, `PanelBounds`), a value that stands for nothing is none of the things
(`NoneIsNone`, `NothingIsNone`, `NoneIsNobody`, `NoneIsNoJob`, `NoneIsNoPanel`,
`NilIsNoList`, `PlacesDiffer`), the caps of the alerts leave room for one, and of the times of `ChartInput`
only that the stitch is no longer than the double tap. TLC evaluates every one of them. In
each proof the inductive invariant was checked by TLC first; most of the sharper lines in it
are there because TLC or a failed leaf showed the plainer one was not inductive.

**The lock** (`EngineLockProof`, first part). `Exclusion` alone is not inductive: that a
thread may come in is decided by the counters, so the invariant is `IInv == TypeOK /\
CountersMatch /\ Exclusion`, where `CountersMatch` says that `readers` is the number of
sharers inside and `writer` whether an excluder is. `NoStaleFlag` is inductive with the
types. `Refinement`: entering and leaving map to the contract's steps, a failed poll to
a stutter. `PriorityHolds` assumes one caller of `lock` (`Excluders = {caller}`), which is
what the api lock admits; it is false of two, as the first one in lowers the other's
flag.

**The library** (`EngineLockProof`, second part). `LInv` conjoins the types with
`Control` (who holds the api lock is where it holds it, one add is in flight and one
only, a build that is joined is over), `Closing` (what a close has got to), `Named` (each
composition that is open has a name: the one in use, the one to be replaced, or the
result), `Built` (what a build reads is the list as long as it reads) and `Covered` (from
which step to which the composition in use covers the list). `CompositionHolds` follows, of the
composition in use; of the one before it, which a worker may hold while it is closed,
nothing is proved (`NoWorkerReadsClosed` is violated);
the steps of `pollCompose` are proved once for every caller.

**The tile pool** (`EngineLockProof`, third part). The four parts of `PoolAddsUp` lean on one another: `start` goes home
only when the count says the pool is full, so the count has to be right for
`NotStranded`; `deinit` frees when it is zero, so it has to be right for
`NoJobAfterFree`; and it is right because each worker that stands holds one badge, the
one about to be spawned included (`PlacesAgree`). `MoveCounts` is the lemma: what one
worker's move does to the number of workers at any places.

**The plugin host**, for any set of plugins and any schedule length, by two invariants.
`IInv` conjoins `Rest` and `Entries` (types; each entry is `Good`: `Allowance`, the
attempts since the last whole clean run are at most `restarts`, and a promised restart
has one left; `Threaded`, a handle outlives its thread), `Watched` (what the watchdog
judges is no tombstone), `Unloaded`, `Stopped` (behind a join there is no thread) and
`Buried` (what is freed is a tombstone or the program is over). `AttemptsBounded` needs
`Allowance`, as `tries` is reset in one place and `restarts` in another.
`DInv` is inductive beside it: `Sane` (what an entry tells of itself agrees: who is
retired is erased and begins no call, a stamp is up inside a call alone), `Aimed` and
`Dated` (whom the watchdog may kill is the instance it judged, and a call entered behind
its clock is not late by it), `Halted`, `Unborn`, `Cleared` (what unload and stop have
told whom, and what is not started yet), `Informed` (the settings last accepted are in
the instance, in its queue, or in the hands of a restart that reads the registry). A
plugin's own steps are proved once, through `Like` and `Keeps`, which say what such a
step leaves of an entry; the watchdog's and the API thread's one by one.

**Sockets**, for any set of connections and any cap. `Sound(c)`: who has c's descriptor,
the resolver until it attaches it, then the record, and nobody behind a record taken
out; `InHand`: what the I/O thread may still rely on of the connection it copied the
descriptor of; `Joined`; `Reports(c)`: who may still speak of a connection. One lemma per
action; those that touch one kind of state only go through `IoOnly`, `KernelOnly`,
`MarksOnly` and `BrokerOnly`. `BudgetHolds` is an account over all connections: until the
poll set is built again each owes two events at most (`Owed`), a queue that is short when
it is built starts the account afresh, and a paused one asks for no reads (`BInv`).

**Chart input.** The handlers read latches, the properties speak of the glass and the
answers. A contact still open has had no answer but its pan (`LiftedIsOpen`,
`PressIsOpen`, `TouchIsOpen`), and a contact that comes too soon to be a fresh one finds
the settle timer running, however late it is (`SoonIsUnsettled`).

**The chart window**, of which a behaviour is the input's, the view's, the strip's or the
table's (`EachIsTheirs`). The view's invariant is what the run checks of it. The strip's
(`AInv`) adds that the number a copy was taken at is not past the list's, and the lemma is
`BookMoves`: every step of the broker that changes its list moves its number, so equal
numbers mean one list, and no id is given twice, so a row still names its alert. That a
siren has a row (`LoudestIsShown`) is that the oldest alarm nobody answered has no alert
before it, however many there are and however few rows. The table's (`TInv`) is about
numbers that begin anew under a window that stays: then nobody has been told that anybody
looks (`Reborn`), so the new table is empty and at zero until that window closes.

**Link fetch.** That an answer reaches its asker does not follow from the numbers, which
the next handle uses again. What a handle's fetches may still answer is in the table, the
open cancels the whole table, and so every fetch not cancelled is of the handle that is
open (`GenerationsAgree`).

**The Windows threads.** `WInv`: the UI thread opens and closes alone and the render
thread stands between the two (`WindowIsInOrder`), a change that no frame has looked at
keeps the frame dirty (`FrameIsTrue`, with `FrameIsTyped`), nothing waits and nobody works
in the pool once it is down (`PoolIsInOrder`), every job is of the open handle
(`JobsAreTrue`), and a request whose transfer was marked or cut short is not the handle's
any more (`AsksAreTrue`). Request numbers begin anew with a handle; that the pool is
stopped and joined before the handle goes keeps one handle's jobs from the next one's.

**The Linux library.** The handlers change the list first and open on the new one, so the
lemmas about `OpenPrepared`, `StartImport` and `Recompose` take any well-formed list that
the chart is drawn from (`ListOK`, `DrawnFrom`). `WidgetAgrees` makes `Reopen`'s two ways
out agree.

**The Windows library.** Setup stops the readout clock and goes away without knowing why
it stopped. That the awaited set is polled again rests on what a closed handle means once
the launch has been tried: an open failed, or one is on its way (`ClosedIsExplained`);
and before that, `UntriedIsUntouched`. That a set taken off as empty had nothing prepared
rests on what the core's reading means while no bake is at work on it (`Known`).

**The shelves of charts by link**, for any links, styles, disks and number of asks. Both
stand on `LinksInv`, which one lemma per call and per answer of `ChartLinks` keeps. It says
of the core whatever is read (`CoreOK`): the list on disk is the list, the pick is on it,
what is drawn is what is applied, nothing is drawn behind a pick of Lookout's own. Of a
read under way it says what the answers may still do (`ReadOK`, `PhaseOK`): the style read
is the one at the link or the one beside it, one that adds has room on the list, and one
the pick has moved on from leaves everything as it stands, so `Apply` may drop it. With
nothing read (`RestOK`) the pick stands. `PickIsDrawn` was first meant as `drawn = active`;
that attempt failed in `Select`, where the core takes `applied` for drawn, and TLC found
the behaviour told [above](#where-the-code-and-its-words-disagree). `Draws` is what holds.
A shelf's own invariant says that the reading is the core's or a change is flagged, and
that a row, a page and a mark are of the reading: `LinuxShelfInv`; `WinShelfInv`, which
says besides that a call is out just while a pick is marked as picking (`CallOK`).

**The lists of sets and of work**, for any sets and steps. On Linux (`LinuxPageInv`) the
rows are the sets and the panels the work, or the idle that fills them is due. On Windows
(`WinPageInv`) a page shows what is so (`Shows`) because its shape is written down at the
end of the build (`Signed`): equal shapes leave only what is lettered in place. A page that
hangs in its build is excepted by the property and needs the weaker `ShowsOrHangs`.

**Setup and the NOAA picker**, for any number of orders; none of the bounds of `MCNoaaSetup`
but `MaxRuns` is used. One invariant says how the run, its transfers and the prepare stand
to one another (`JobHolds`: a prepare that outlives its download is of the run that waits
for it, nothing bakes beside a bake let go), and one lemma for each call of the service
keeps it. The other is `AtEase`: what the prepare waits for is still to come, so there is
nothing to adopt. `Adopt` establishes it from any state, the threads' steps break it and
post a wake, and so `AtEase(job) \/ owed` holds between two handlers (`LinuxSetupInv`,
`WinSetupInv`), with the run followed (`Follows`, `Watches`) and the order the card stands
on among those numbered. On Windows a drawing of the card may ask for the catalog and does
nothing else to the service (`Drawn`), and whatever reads the service leaves it at ease and
the copy current (`Served`); each handler is a chain of the two. A read of the catalog that
is out excuses the copy (`Copied`), as the card may be what asked for it. `NothingInHand`
was first stated without its last disjunct. It failed in `AtEase`: a prepare that is
stopped while it waits behind a bake let go would be finished at once by whoever adopts
next, and with two orders on the picker TLC found the behaviour, where Stop on Windows adopts nothing.
The end of that bake wakes the window, so the stop is taken up late and not lost.

**The plugins' panes** (`ShellFetchProof`, last part), for any hosts and rows. What the
mariner made of a plugin is what the pane holds of it until the timer has handed it over
(`LinuxHolds`, `WindowsHolds`); a copy of the list that differs from the saved one is such
an edit; and what such a Linux window takes for handed over is what is saved. So a save
that takes the whole copy, as the Windows one does, puts nothing older back. That the core runs
on what is saved (`CoreRuns`) needs that the plugin of the list is never a fresh one. Both
shells keep one configuration, so what a save does is proved once (`SameConfig`, `Handed`).
The theorems are of `PluginsSpec`: any number of Linux windows, nothing that keeps a
mariner from closing one, building one again or reading a page again under an edit's
timer, and none of the run's bounds. What then is lost is said in the invariant by
`beside`: a window beside which no other edited or saved has of the list what is saved or
what the mariner made of it (`LinuxHolds`), and a save of any other is the exception that
`NothingElseIsUndone` makes. An edit that is back at what its window pushed last (`Edit`)
and, on Windows, one that a read takes away within its timer (`Survives`) are given up in
`mine` at that step; that each is lost is told
[above](#where-the-code-and-its-words-disagree). `OffersAreNew` was to be proved as well. It held in the run because
the list had one row; the proof of `Commit` failed, and with two rows TLC found the
behaviour told [above](#where-the-code-and-its-words-disagree). `OffersAnswer` is what holds.

## What is only model-checked

All liveness (it needs fairness and ENABLED, which the prover does not have):
`WriterGetsIn`, `BuildIsAdopted`, `WorkEnds`, `PluginRecovers`, `AskedIsDone`,
`SeenAndHeard`, `NobodyWaits`, `AskedForIsTakenUp`, `AwaitedIsFinished`, `SetupMovesOn`,
`PickIsDecided`.
And, until its proof is written, the safety of the one part no theorem has reached:
of `PanesAreTrue` and `EditIsKept` what they say of the pictures. `MCShellPanes` fixes the
files, the sets they make and the waters they cover, so within the bounds of its
configuration the run is exhaustive; for other files only a proof would tell.

No module declares a RECURSIVE operator, so none is closed to the prover by that. What a
fold over a list computes for every list (the election of `RasterSets`, the reading of
`ChartLinks`) would be an induction over data, which the installed provers cannot
instantiate.

## What is not modelled

- Allocation failure, everywhere: Zig makes each allocation an error path of its
  own. Asks that `appendSlice` drops (tiles.zig:181) are an example.
- Formatting, parsing, geometry, camera, styles: sequential data code.
- `Sockets`: UDP ports, the due times of timers (a timer is an event at any tick),
  the parking of an idle dispatch thread, `checkConnecting`, which is Windows's
  only. Bytes are chunks, and one send or one flush takes whole ones.
- `PluginHost`: `lk_start` at load (a loop in it hangs the open: it runs on the API
  thread without a watchdog), and SHUTDOWN delivered inline takes one step, as
  nothing in the code bounds it.
- Chart window: the keyboard, the cursor's read-out, what menus and reports say.
- Alerts and tables: cells, columns, order and cadence; a batch is taken or refused
  whole. A declared table's own reset of its columns, and a TABLE_OPEN dropped at a full
  queue.
- The NOAA service: the counts, the catalog's parsing, the record on disk, the unpack
  and removal threads' progress; `retry_waiting` is unreachable as the shells call it,
  and the update check's catalog is read on Linux only. `FirstRun`'s online and depth
  steps are passed, not filled in.
- Plugin panes: a status poll that finds nothing moved, a find announced twice; what an
  idle or a callback does with a window that is freed, which is undefined.
- Pictures: views over several waters at once, files that vanish from disk, MAX_SETS, the
  raster's tile workers (a sibling of `TilePool`), the Windows pill's face.
- Charts by link: previews and their raising of `changed`, relays, tile templates and
  requests, TryEnqueue's failure. Of the Charts pages, the wording and the art.
- The parts marked *not modelled* in the inventory.

## What is left

In order of what it would say about the system.

1. Proofs: the pictures' panes.
2. `Grants`: `grantSet` against a native under way, the withdraw of what was
   published, `grants.json`; then installing and the precedence of origins.
3. The queue with its cap under `PluginHost` (a config event dropped at the cap,
   the parked dispatch thread), as a module that composes both.
4. `Fetches`: HTTP and WebSocket workers, cancellation, one answer each.
5. `VesselStore`: the election as a function checked against its definition by
   sorting, `clearSource`, the dirty set and the fanout; then AIS ageing.
6. `KvStore`, and the record of the chart download: state on disk, with a crash between
   any two steps and a restart.

Abstract specifications worth stating next: a pool that answers each ask once,
implemented by `TilePool`; a request that gets exactly one answer, implemented by
`LinkFetch` and `WindowThreads` both.
