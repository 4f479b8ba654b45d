---------------------------- MODULE WindowThreads ----------------------------
(***************************************************************************)
(* The threads of the Windows chart window: the UI thread, which changes   *)
(* the chart through lk_controller (src/windows/src/engine) and opens,     *)
(* resizes and closes it (app/ui/MainWindow.xaml.cpp, chart/ui/Open.cpp);  *)
(* the render thread, which draws it and parks on the wake event; and the  *)
(* workers that fetch what its handle asks for (library/ui/ChartLinks.cpp).*)
(*                                                                         *)
(* The handle's api lock is held over a frame and over a call that may     *)
(* ask, for the fetcher is called back inside them; every other call takes *)
(* and releases it in a step.  It hands over to who waits (RwLock), which  *)
(* is the strong fairness of the steps that take it.                       *)
(***************************************************************************)
EXTENDS Naturals, FiniteSets

CONSTANTS Workers,   \* the threads of the pool
          MaxOpens,  \* bound: handles opened
          MaxIds,    \* bound: requests of a handle
          None

TicksBeforeStop == 2
Ids == 1 .. MaxIds
Jobs == [id : Ids, of : 1 .. MaxOpens]   \* a request, and the handle it is of

VARIABLES
    handle,    \* the open handle by its generation, 0 for none
    opens,     \* handles opened so far
    api,       \* who holds the handle's api lock over several steps
    provider,  \* the handle has the shell's fetcher
    nextId, asked,  \* its next request number; its undecided requests
    inbox,     \* answers it has not adopted
    dirty, quiet,   \* needs_redraw; ticks_since_change
    layer,     \* a plugin layer is up
    due,       \* changes no frame has looked at: of a "setter", of a "link"
    ui,        \* where the UI thread is
    render,    \* where the render thread is
    run, wake, warm,  \* render_run; the wake event is set; warm-up frames are left
    link, link_live,  \* who holds link_mu; answers may pass
    running, queue, \* the pool takes jobs; the jobs no worker took
    dropped,   \* those Stop took out of the queue
    at, job,   \* worker -> where it is, and its job
    live, ended     \* the table of transfers; those of them marked to end

core == <<provider, nextId, asked, inbox>>
frame == <<dirty, quiet, layer, due>>
thread == <<render, run, wake, warm>>
pool == <<running, queue, dropped, at, job, live, ended>>
locks == <<api, link, link_live>>
vars == <<handle, opens, ui, core, frame, thread, pool, locks>>

Init ==
    /\ handle = 0 /\ opens = 0 /\ ui = "idle"
    /\ provider = FALSE /\ nextId = 1 /\ asked = {} /\ inbox = {}
    /\ dirty = FALSE /\ quiet = 0 /\ layer = FALSE /\ due = {}
    /\ render = "none" /\ run = FALSE /\ wake = FALSE /\ warm = FALSE
    /\ api = None /\ link = None /\ link_live = FALSE
    /\ running = FALSE /\ queue = {} /\ dropped = {}
    /\ at = [w \in Workers |-> "gone"] /\ job = [w \in Workers |-> None]
    /\ live = {} /\ ended = {}

-------------------------------------------------------------------------------
(* what the threads call                                                     *)

\* kick of lk_controller.c: the handle's frameKick under its lock, then the
\* event.  Nothing but a frame that finds nothing comes between the two.
Kick ==
    /\ api = None
    /\ quiet' = 0 /\ dirty' = TRUE
    /\ wake' = TRUE

\* HttpGetThunk: QueueGet submits to the pool, which is up.
Ask(who) ==
    /\ api = who /\ provider /\ nextId \in Ids
    /\ running
    /\ queue' = queue \cup {[id |-> nextId, of |-> handle]}
    /\ asked' = asked \cup {nextId}
    /\ nextId' = nextId + 1
    /\ UNCHANGED <<handle, opens, ui, provider, inbox, frame, thread, running, dropped, at, job,
                   live, ended, locks>>

\* HttpCancelThunk, in a frame or a link's change: HttpPool::Cancel drops a job
\* that waits and marks a transfer that is out.
Cancel(who, i) ==
    LET one == [id |-> i, of |-> handle] IN
    /\ api = who /\ i \in asked
    /\ asked' = asked \ {i}
    /\ IF one \in queue
       THEN queue' = queue \ {one} /\ UNCHANGED ended
       ELSE ended' = ended \cup ({one} \cap live) /\ UNCHANGED queue
    /\ UNCHANGED <<handle, opens, ui, provider, nextId, inbox, frame, thread, running, dropped, at,
                   job, live, locks>>

-------------------------------------------------------------------------------
(* the render thread                                                         *)

\* A frame that finds the run ended.
RenderEnds ==
    /\ render = "top" /\ ~run
    /\ render' = "gone"
    /\ UNCHANGED <<handle, opens, ui, core, frame, run, wake, warm, pool, locks>>

\* A warm-up frame is one the loop kicks itself.
Warm ==
    /\ render = "top" /\ run /\ warm
    /\ warm' = FALSE
    /\ Kick
    /\ render' = "warmed"
    /\ UNCHANGED <<handle, opens, ui, core, layer, due, run, pool, locks>>

\* lookout_frame_next takes the lock and adopts what has come in.
FrameBegins ==
    /\ (render = "top" /\ run /\ ~warm) \/ render = "warmed"
    /\ api = None
    /\ api' = "render" /\ render' = "frame"
    /\ asked' = asked \ {a.id : a \in inbox}
    /\ inbox' = {}
    /\ dirty' \in {dirty, dirty \/ inbox # {}}
    /\ UNCHANGED <<handle, opens, ui, provider, nextId, quiet, layer, due, run, wake, warm, pool,
                   link, link_live>>

\* The verdict and the park it asks for.  What a RENDER leaves may need another
\* frame: an ease, a build, a swapchain with no image free.
FrameEnds ==
    /\ render = "frame"
    /\ api' = None
    /\ IF dirty \/ inbox # {}
       THEN /\ render' = "short" /\ quiet' = 0
            /\ dirty' \in BOOLEAN /\ due' = {}
       ELSE /\ render' = IF quiet < TicksBeforeStop THEN "short" ELSE IF layer THEN "poll" ELSE "forever"
            /\ quiet' = IF quiet > TicksBeforeStop THEN quiet ELSE quiet + 1
            /\ UNCHANGED <<dirty, due>>
    /\ UNCHANGED <<handle, opens, ui, core, layer, run, wake, warm, pool, link, link_live>>

\* lk_controller_wait: the event ends the park and is reset by it, and a park
\* that is not for ever ends by itself.
Unparks ==
    /\ render \in {"short", "poll", "forever"}
    /\ wake \/ render # "forever"
    /\ render' = "top" /\ wake' = FALSE
    /\ UNCHANGED <<handle, opens, ui, core, frame, run, warm, pool, locks>>

\* A plugin posts from its own thread: its layer is polled for, not waited for.
PluginPosts ==
    /\ layer /\ ~dirty /\ dirty' = TRUE
    /\ UNCHANGED <<handle, opens, ui, core, quiet, layer, due, thread, pool, locks>>

-------------------------------------------------------------------------------
(* the UI thread: a change of the chart                                      *)

\* lk_controller_pan and its like kick and then change.
SetterKicks ==
    /\ ui = "idle" /\ handle # 0
    /\ Kick
    /\ ui' = "kicked"
    /\ UNCHANGED <<handle, opens, core, layer, due, render, run, warm, pool, locks>>

\* The change of a setter, which for a plugin's goes on to invalidate.
SetterChanges ==
    /\ ui = "kicked" /\ api = None
    /\ dirty' = TRUE /\ due' = due \cup {"setter"}
    /\ \/ ui' = "idle" /\ UNCHANGED layer
       \/ ui' = "plugin" /\ layer' \in BOOLEAN
    /\ UNCHANGED <<handle, opens, core, quiet, thread, pool, locks>>

\* lk_controller_invalidate
Invalidates ==
    /\ ui = "plugin"
    /\ Kick
    /\ ui' = "marking"
    /\ UNCHANGED <<handle, opens, core, layer, due, render, run, warm, pool, locks>>

ViewMarked ==
    /\ ui = "marking" /\ api = None
    /\ dirty' = TRUE /\ ui' = "idle"
    /\ UNCHANGED <<handle, opens, core, quiet, layer, due, thread, pool, locks>>

\* lk_controller_chart_link_add, select, remove and refresh change, and then
\* kick; the handle may ask and cancel in the call.
LinkChanges ==
    /\ ui = "idle" /\ handle # 0 /\ api = None
    /\ api' = "ui" /\ ui' = "link"
    /\ due' = due \cup {"link"} /\ dirty' = TRUE
    /\ UNCHANGED <<handle, opens, core, quiet, layer, thread, pool, link, link_live>>

LinkReturns ==
    /\ ui = "link" /\ api = "ui"
    /\ api' = None /\ ui' = "linked"
    /\ UNCHANGED <<handle, opens, core, frame, thread, pool, link, link_live>>

LinkKicks ==
    /\ ui = "linked"
    /\ Kick
    /\ ui' = "idle"
    /\ UNCHANGED <<handle, opens, core, layer, due, render, run, warm, pool, locks>>

-------------------------------------------------------------------------------
(* the UI thread: open, resize and close                                     *)

\* lk_controller_open, over no handle.
Open ==
    /\ ui = "idle" /\ handle = 0 /\ opens < MaxOpens
    /\ opens' = opens + 1 /\ handle' = opens'
    /\ nextId' = 1
    /\ dirty' = TRUE /\ quiet' = 0 /\ layer' \in BOOLEAN /\ due' = {}
    /\ ui' = "attach"
    /\ UNCHANGED <<provider, asked, inbox, thread, pool, locks>>

\* ChartLinksAttach: answers may pass, and the pool starts its workers.
Attach ==
    /\ ui = "attach" /\ link = None
    /\ link_live' = TRUE
    /\ running' = TRUE
    /\ at' = [w \in Workers |-> "idle"]
    /\ ui' = "attached"
    /\ UNCHANGED <<handle, opens, core, frame, thread, api, link, queue, dropped, job, live, ended>>

\* lookout_set_http_provider, which asks for the link that is selected.
Provide ==
    /\ ui = "attached" /\ api = None
    /\ api' = "ui" /\ provider' = TRUE
    /\ ui' = "providing"
    /\ UNCHANGED <<handle, opens, nextId, asked, inbox, frame, thread, pool, link, link_live>>

\* The end of an open: its caller starts the render thread.
StartsRender ==
    /\ ui = "providing" /\ api = "ui"
    /\ api' = None
    /\ run' = TRUE /\ render' = "top" /\ warm' \in BOOLEAN
    /\ ui' = "idle"
    /\ UNCHANGED <<handle, opens, core, frame, wake, pool, link, link_live>>

\* StopRenderThread raises the stop and kicks the event alone, in a resize and
\* in a close.
StopsRender ==
    /\ \/ ui = "idle" /\ handle # 0 /\ ui' = "resizing"
       \/ ui = "detached" /\ ui' = "closing"
    /\ run' = FALSE /\ wake' = TRUE
    /\ UNCHANGED <<handle, opens, core, frame, render, warm, pool, locks>>

\* SyncChartBounds over a joined thread: two setters, and the thread again.
Resized ==
    /\ ui = "resizing" /\ render = "gone"
    /\ api = None
    /\ dirty' = TRUE /\ quiet' = 0 /\ due' = due \cup {"setter"}
    /\ run' = TRUE /\ render' = "top" /\ wake' = TRUE /\ warm' = TRUE
    /\ ui' = "idle"
    /\ UNCHANGED <<handle, opens, core, layer, pool, locks>>

\* Detach that leaves the handle its fetcher.
DetachKeepsProvider ==
    /\ ui = "idle" /\ handle # 0 /\ api = None
    /\ ui' = "detach"
    /\ UNCHANGED <<handle, opens, core, frame, thread, pool, locks>>

\* ChartLinksDetach clears the provider, and the handle gives its requests up.
Detach ==
    /\ ui = "idle" /\ handle # 0 /\ api = None
    /\ provider' = FALSE /\ asked' = {}
    /\ ui' = "detach"
    /\ UNCHANGED <<handle, opens, nextId, inbox, frame, thread, pool, locks>>

\* HttpPool::Stop: the flag and the queue, under the pool's lock;
StopsPool ==
    /\ ui = "detach"
    /\ running' = FALSE
    /\ dropped' = queue /\ queue' = {}
    /\ ui' = "aborting"
    /\ UNCHANGED <<handle, opens, core, frame, thread, locks, at, job, live, ended>>

\* AbortAll marks the transfers that are in the table;
AbortsAll ==
    /\ ui = "aborting"
    /\ ended' = ended \cup live
    /\ ui' = "joining"
    /\ UNCHANGED <<handle, opens, core, frame, thread, locks, running, queue, dropped, at, job, live>>

\* and each worker is joined.
Joined ==
    /\ ui = "joining" /\ \A w \in Workers : at[w] = "gone"
    /\ ui' = "dropping"
    /\ UNCHANGED <<handle, opens, core, frame, thread, pool, locks>>

\* The requests that never started are answered, under link_mu.
AnswersDropped ==
    /\ ui = "dropping" /\ link = None
    /\ IF dropped = {} THEN UNCHANGED <<dirty, quiet, wake>> ELSE Kick
    /\ dropped' = {} /\ link_live' = FALSE
    /\ ui' = "detached"
    /\ UNCHANGED <<handle, opens, core, layer, due, render, run, warm, running, queue, at, job,
                   live, ended, api, link>>

\* CloseChartHandle joins the render thread and closes the handle.
Close ==
    /\ ui = "closing" /\ render = "gone"
    /\ render' = "none"
    /\ handle' = 0 /\ inbox' = {} /\ dirty' = FALSE /\ due' = {}
    /\ ui' = "idle"
    /\ UNCHANGED <<opens, provider, nextId, asked, quiet, layer, run, wake, warm, pool, locks>>

-------------------------------------------------------------------------------
(* a worker                                                                  *)

\* HttpPool::Run: a worker that finds the pool down goes,
WorkerEnds(w) ==
    /\ at[w] = "idle" /\ ~running
    /\ at' = [at EXCEPT ![w] = "gone"]
    /\ UNCHANGED <<handle, opens, ui, core, frame, thread, locks, running, queue, dropped, job, live, ended>>

\* and takes a job else.
Take(w) ==
    /\ at[w] = "idle" /\ running
    /\ \E j \in queue : queue' = queue \ {j} /\ job' = [job EXCEPT ![w] = j]
    /\ at' = [at EXCEPT ![w] = "taken"]
    /\ UNCHANGED <<handle, opens, ui, core, frame, thread, locks, running, dropped, live, ended>>

\* The job of a link that names a file reads it.
ReadsFile(w) ==
    /\ at[w] = "taken"
    /\ \E how \in {"whole", "failed"} : at' = [at EXCEPT ![w] = how]
    /\ UNCHANGED <<handle, opens, ui, core, frame, thread, locks, running, queue, dropped, job, live, ended>>

\* FetchUrl enters its transfer in the table, not marked,
Begins(w) ==
    /\ at[w] = "taken"
    /\ at' = [at EXCEPT ![w] = "reading"]
    /\ live' = live \cup {job[w]}
    /\ UNCHANGED <<handle, opens, ui, core, frame, thread, locks, running, queue, dropped, job, ended>>

\* and takes it out when the loop ends: with the whole body; with a read that
\* failed; with a body that stopped part way, which the loop's condition reads as
\* its end and leaves the status good; or, as quietly, with the mark ("short").
Fetched(w) ==
    /\ at[w] = "reading"
    /\ \E how \in {"whole", "failed", "cut"} \cup (IF job[w] \in ended THEN {"short"} ELSE {}) :
           at' = [at EXCEPT ![w] = how]
    /\ live' = live \ {job[w]} /\ ended' = ended \ {job[w]}
    /\ UNCHANGED <<handle, opens, ui, core, frame, thread, locks, running, queue, dropped, job>>

\* ChartLinkRespondChunk: under link_mu, while answers may pass, the answer is
\* handed in, and taken if its request is still the handle's.
Responds(w) ==
    /\ at[w] \in {"whole", "failed", "cut", "short"} /\ link = None
    /\ IF link_live
       THEN /\ inbox' = IF job[w].id \in asked
                        THEN inbox \cup {[id |-> job[w].id, of |-> job[w].of, how |-> at[w]]}
                        ELSE inbox
            /\ link' = w /\ at' = [at EXCEPT ![w] = "kicking"] /\ UNCHANGED job
       ELSE /\ at' = [at EXCEPT ![w] = "idle"] /\ job' = [job EXCEPT ![w] = None]
            /\ UNCHANGED <<inbox, link>>
    /\ UNCHANGED <<handle, opens, ui, provider, nextId, asked, frame, thread, running, queue,
                   dropped, live, ended, api, link_live>>

\* and it kicks, which takes the handle's lock under link_mu.
RespondKicks(w) ==
    /\ at[w] = "kicking"
    /\ Kick
    /\ link' = None
    /\ at' = [at EXCEPT ![w] = "idle"] /\ job' = [job EXCEPT ![w] = None]
    /\ UNCHANGED <<handle, opens, ui, core, layer, due, render, run, warm, running, queue, dropped,
                   live, ended, api, link_live>>

-------------------------------------------------------------------------------
RenderTicks == Warm \/ FrameBegins
RenderGoesOn == RenderEnds \/ FrameEnds \/ Unparks

UiGoesOn ==
    \/ SetterChanges \/ Invalidates \/ ViewMarked \/ LinkReturns \/ LinkKicks
    \/ Attach \/ Provide \/ StartsRender \/ Resized
    \/ StopsPool \/ AbortsAll \/ Joined \/ AnswersDropped
    \/ (ui = "detached" /\ StopsRender) \/ Close

WorkerStep(w) ==
    WorkerEnds(w) \/ Take(w) \/ ReadsFile(w) \/ Begins(w) \/ Fetched(w) \/ Responds(w) \/ RespondKicks(w)

Next ==
    \/ RenderTicks \/ RenderGoesOn \/ PluginPosts
    \/ \E who \in {"ui", "render"} : Ask(who) \/ \E i \in Ids : Cancel(who, i)
    \/ SetterKicks \/ LinkChanges \/ Open \/ StopsRender \/ Detach \/ UiGoesOn
    \/ \E w \in Workers : WorkerStep(w)

Spec == Init /\ [][Next]_vars

\* Each thread goes on with what it began, and gets a lock it asks for again
\* and again.  No event, change or request is owed.
Fairness ==
    /\ SF_vars(RenderTicks) /\ WF_vars(RenderGoesOn)
    /\ SF_vars(UiGoesOn)
    /\ \A w \in Workers : SF_vars(WorkerStep(w))

FairSpec == Spec /\ Fairness

-------------------------------------------------------------------------------
Busy == {w \in Workers : at[w] \notin {"gone", "idle"}}

\* What the threads' places say of one another: who holds a lock is where it
\* holds it, a job is a worker's and of the handle that is open, and the table
\* is of the transfers under way.
TypeOK ==
    /\ handle \in 0 .. MaxOpens /\ opens \in 0 .. MaxOpens /\ handle \in {0, opens}
    /\ nextId \in 1 .. MaxIds + 1 /\ asked \subseteq 1 .. nextId - 1
    /\ inbox \subseteq [id : Ids, of : 1 .. MaxOpens, how : {"whole", "failed", "cut", "short"}]
    /\ {provider, dirty, layer, run, wake, warm, link_live, running} \subseteq BOOLEAN
    /\ quiet \in 0 .. TicksBeforeStop + 1
    /\ due \subseteq {"setter", "link"}
    /\ render \in {"none", "top", "warmed", "frame", "short", "poll", "forever", "gone"}
    /\ api = "render" <=> render = "frame"
    /\ api = "ui" <=> ui \in {"link", "providing"}
    /\ \A w \in Workers : link = w <=> at[w] = "kicking"
    /\ \A w \in Workers : job[w] # None <=> w \in Busy
    /\ {job[w] : w \in Busy} \cup queue \cup dropped \subseteq [id : 1 .. nextId - 1, of : {handle}]
    /\ live = {job[w] : w \in {v \in Workers : at[v] = "reading"}}
    /\ ended \subseteq live

\* No thread of the window's is inside a handle that is closed, and none
\* answers a handle it was not asked by (CloseChartHandle's order).
HandleOutlivesItsThreads ==
    /\ render \notin {"none", "gone"} => handle # 0
    /\ Busy # {} => handle # 0
    /\ \A w \in Busy : job[w].of = handle
    /\ \A a \in inbox : a.of = handle

\* The pool is up for whoever asks it: a request it refuses is answered from
\* inside the ask, and its kick waits for the lock the ask runs under.
PoolIsUpForAsks == provider => running /\ link_live

\* What a cancel or a stop cut off is no answer of a handle's, though its status
\* is that of a whole body: who asked for it has given it up.
NothingShortIsTaken == \A a \in inbox : a.how # "short"

\* The render thread is parked for good with nothing under way to wake it.
AsleepForGood == render = "forever" /\ ~wake

\* What a link changed, or an answer brought, is not slept on: the thread that
\* put it there has yet to kick.
LinksAreNotSleptOn ==
    AsleepForGood =>
        /\ "link" \in due => ui \in {"link", "linked"}
        /\ inbox # {} => link # None

\* Each request is answered, cancelled or given up by its handle.
AskIsSettled == \A i \in Ids : i \in asked ~> i \notin asked

\* The UI thread comes back from every call: an open, a resize, and the close
\* that joins the workers and the render thread.
UiReturns == ui # "idle" ~> ui = "idle"

\* "Every mutating lk_controller_* call kicks, so the frame that shows a change
\* starts at once" (engine/lk_controller.h:82): of a setter's change.
ChangesAreNotSleptOn == AsleepForGood /\ ui = "idle" => "setter" \notin due

\* "The transfers still out ... joining a worker still reading one held the UI
\* thread for as long as it took" (library/ui/ChartLinks.cpp): once it joins,
\* every transfer is marked to end.
StopEndsTransfers == ui = "joining" => live \subseteq ended

\* "A body that stopped part way is not a body.  The status stayed 200 here, so
\* the caller took a truncated style or archive for a whole one"
\* (library/ui/ChartLinks.cpp:205): a handle takes no part of a body for a body.
NoPartOfABodyIsTaken == \A a \in inbox : a.how \notin {"cut", "short"}

\* A handle is safe from the window's threads: none is inside it when it is
\* closed, the pool is up whenever it may ask, and it takes nothing that a
\* cancel or a stop cut off.
HandleIsSafe == HandleOutlivesItsThreads /\ PoolIsUpForAsks /\ NothingShortIsTaken

\* The threads come to an end of what they do: each request is settled, and the
\* UI thread comes back.
ThreadsSettle == AskIsSettled /\ UiReturns
===============================================================================
