------------------------------ MODULE Recompose ------------------------------
(***************************************************************************)
(* How the open library is composed again when charts arrive, after        *)
(* src/src/root.zig (chartsAdd, composeWorker, pollCompose, close) and the *)
(* use src/src/ct/tiles.zig makes of the composition (setCompose, serve).  *)
(*                                                                         *)
(* Three kinds of thread meet here.  Callers (the frame thread, and the    *)
(* threads that add charts) run one at a time under the api lock, which    *)
(* chartsAdd lets go of while it opens files.  One builder thread reads    *)
(* the chart list and opens a composition.  Tile workers copy the pointer  *)
(* to the composition, take the engine lock shared, and read through the   *)
(* copy; what swaps or closes a composition takes that lock exclusively.   *)
(* The engine lock is SharedExclusive's: its sharers are the workers       *)
(* composing, and an exclusive section is one step taken while there are   *)
(* none.                                                                   *)
(*                                                                         *)
(* A composition is a number, 0 for none, given out in order of opening.   *)
(***************************************************************************)
EXTENDS Naturals, Sequences

CONSTANTS Adders,      \* threads that may call lookout_charts_add
          Frame,       \* the thread that draws frames and closes the library
          Workers,     \* tile workers
          FirstCharts, \* how many charts the library may open with
          MaxAdds,     \* bound: calls of chartsAdd
          NoOne        \* nobody holds the api lock

Callers == Adders \cup {Frame}

RecomposeConstants ==
    /\ Frame \notin Adders /\ NoOne \notin Callers
    /\ FirstCharts \subseteq Nat /\ MaxAdds \in Nat

VARIABLES
    api,          \* who holds api_mu
    pc,           \* caller -> where it is
    block,        \* caller -> pollCompose's argument
    after,        \* caller -> where it goes on behind pollCompose
    adding,       \* a chartsAdd is in flight
    adds,         \* calls of chartsAdd so far
    charts,       \* charts in the list
    compose,      \* the composition frames and picks read
    prev,         \* compose_prev
    result,       \* compose_result
    rebuilding,   \* loading or recomposing
    builder,      \* "none", "reading" the chart list, or "done"
    failed,       \* the last build opened nothing
    tilesCompose, \* Tiles.compose, what a worker copies
    source,       \* what the renderer draws from: "none", one chart's
                  \* "archive", or the "provider" the workers answer
    held,         \* worker -> its copy
    wpc,          \* worker -> "idle", "copied", "composing"
    covers,       \* the charts each composition was opened over, in that order
    closed,       \* compositions closed
    shut          \* the library is closed

callVars == <<api, pc, block, after, adding, adds>>
workVars == <<held, wpc>>
compVars == <<compose, prev, result, rebuilding, builder, failed, covers, closed>>
tileVars == <<tilesCompose, source>>
vars == <<callVars, charts, compVars, tileVars, workVars, shut>>

Opened == DOMAIN covers
Composing == {w \in Workers : wpc[w] = "composing"}

\* finishOpen: more than one chart is composed by the builder, one is bound
\* straight to its archive.
Init ==
    /\ charts \in FirstCharts
    /\ api = NoOne
    /\ pc = [c \in Callers |-> "out"]
    /\ block = [c \in Callers |-> FALSE]
    /\ after = [c \in Callers |-> "leave"]
    /\ adding = FALSE
    /\ adds = 0
    /\ compose = 0 /\ prev = 0 /\ result = 0
    /\ rebuilding = (charts > 1)
    /\ builder = (IF charts > 1 THEN "reading" ELSE "none")
    /\ failed = FALSE
    /\ covers = <<>> /\ closed = {}
    /\ tilesCompose = 0
    /\ source = (IF charts = 1 THEN "archive" ELSE "none")
    /\ held = [w \in Workers |-> 0]
    /\ wpc = [w \in Workers |-> "idle"]
    /\ shut = FALSE

Goto(c, place) == pc' = [pc EXCEPT ![c] = place]

\* c runs pollCompose(blocking), then goes on at next.
CallPoll(c, blocking, next) ==
    /\ Goto(c, "poll")
    /\ block' = [block EXCEPT ![c] = blocking]
    /\ after' = [after EXCEPT ![c] = next]

-------------------------------------------------------------------------------
(* The builder thread                                                        *)

BuildOk ==
    /\ builder = "reading"
    /\ covers' = Append(covers, charts)
    /\ result' = Len(covers) + 1
    /\ builder' = "done"
    /\ failed' = FALSE
    /\ UNCHANGED <<callVars, charts, compose, prev, rebuilding, closed,
                   tileVars, workVars, shut>>

BuildFails ==
    /\ builder = "reading"
    /\ builder' = "done"
    /\ failed' = TRUE
    /\ UNCHANGED <<callVars, charts, compose, prev, result, rebuilding, covers,
                   closed, tileVars, workVars, shut>>

-------------------------------------------------------------------------------
(* pollCompose, run by a caller that holds the api lock                      *)

\* No build is out, or it is not over and the caller does not wait for it.
PollNothing(c) ==
    /\ pc[c] = "poll"
    /\ ~rebuilding \/ (~block[c] /\ builder # "done")
    /\ Goto(c, after[c])
    /\ UNCHANGED <<api, block, after, adding, adds, charts, compVars,
                   tileVars, workVars, shut>>

\* The build is over and its thread joined: adopt what it opened.
PollJoin(c) ==
    /\ pc[c] = "poll"
    /\ rebuilding /\ builder = "done"
    /\ builder' = "none"
    /\ rebuilding' = FALSE
    /\ Goto(c, IF result # 0 THEN "swap" ELSE after[c])
    /\ UNCHANGED <<api, block, after, adding, adds, charts, compose, prev,
                   result, failed, covers, closed, tileVars, workVars, shut>>

\* A swap that closes what it replaced without looking whether there was one.
SwapClosesNull(c) ==
    /\ pc[c] = "swap"
    /\ Composing = {}
    /\ compose' = result
    /\ closed' = closed \cup {prev}
    /\ prev' = 0
    /\ Goto(c, "bind")
    /\ UNCHANGED <<api, block, after, adding, adds, charts, result, rebuilding,
                   builder, failed, covers, tileVars, workVars, shut>>

\* Under the engine lock: the new composition in, the one it replaced closed.
Swap(c) ==
    /\ pc[c] = "swap"
    /\ Composing = {}
    /\ compose' = result
    /\ closed' = closed \cup ({prev} \ {0})
    /\ prev' = 0
    /\ Goto(c, "bind")
    /\ UNCHANGED <<api, block, after, adding, adds, charts, result, rebuilding,
                   builder, failed, covers, tileVars, workVars, shut>>

\* bindComposed: point the tile workers at it, and bind the renderer to them
\* unless it is bound already.
Bind(c) ==
    /\ pc[c] = "bind"
    /\ tilesCompose' = compose
    /\ source' = IF source = "none" THEN "provider" ELSE source
    /\ Goto(c, after[c])
    /\ UNCHANGED <<api, block, after, adding, adds, charts, compVars, workVars, shut>>

-------------------------------------------------------------------------------
(* Frames, and adding charts                                                 *)

\* A frame that does not look for a finished build.
FrameNoPoll ==
    /\ ~shut /\ api = NoOne /\ pc[Frame] = "out"
    /\ api' = Frame
    /\ Goto(Frame, "leave")
    /\ UNCHANGED <<block, after, adding, adds, charts, compVars, tileVars,
                   workVars, shut>>

FrameEnter ==
    /\ ~shut /\ api = NoOne /\ pc[Frame] = "out"
    /\ api' = Frame
    /\ CallPoll(Frame, FALSE, "leave")
    /\ UNCHANGED <<adding, adds, charts, compVars, tileVars, workVars, shut>>

\* chartsAdd: one at a time, and a build already running is taken first.
AddBegin(a) ==
    /\ ~shut /\ api = NoOne /\ pc[a] = "out" /\ adds < MaxAdds
    /\ ~adding
    /\ adds' = adds + 1
    /\ adding' = TRUE
    /\ api' = a
    /\ CallPoll(a, TRUE, "release")
    /\ UNCHANGED <<charts, compVars, tileVars, workVars, shut>>

\* The files are opened outside the api lock.
AddRelease(a) ==
    /\ pc[a] = "release"
    /\ api' = NoOne
    /\ Goto(a, "opening")
    /\ UNCHANGED <<block, after, adding, adds, charts, compVars, tileVars,
                   workVars, shut>>

AddRelock(a) ==
    /\ pc[a] = "opening" /\ api = NoOne
    /\ api' = a
    /\ Goto(a, "append")
    /\ UNCHANGED <<block, after, adding, adds, charts, compVars, tileVars,
                   workVars, shut>>

\* Charts added to a library that is drawing, and not composed again.
AddAppendOnly(a) ==
    /\ pc[a] = "append"
    /\ Composing = {}
    /\ \E n \in {0, 1} :
        /\ charts' = charts + n
        /\ Goto(a, IF n = 0 \/ compose # 0 THEN "leave" ELSE "start")
    /\ UNCHANGED <<api, block, after, adding, adds, compVars, tileVars,
                   workVars, shut>>

\* Under the engine lock.  With nothing opened the call is over.
AddAppend(a) ==
    /\ pc[a] = "append"
    /\ Composing = {}
    /\ \E n \in {0, 1} :
        /\ charts' = charts + n
        /\ Goto(a, IF n = 0 THEN "leave" ELSE "start")
    /\ UNCHANGED <<api, block, after, adding, adds, compVars, tileVars,
                   workVars, shut>>

\* Start the build; where no thread can be had it runs here, and is waited for.
AddStart(a) ==
    /\ pc[a] = "start"
    /\ prev' = compose
    /\ rebuilding' = TRUE
    /\ result' = 0
    /\ builder' = "reading"
    /\ \E ranHere \in BOOLEAN : CallPoll(a, ranHere, "leave")
    /\ UNCHANGED <<api, adding, adds, charts, compose, failed, covers, closed,
                   tileVars, workVars, shut>>

Leave(c) ==
    /\ pc[c] = "leave"
    /\ api' = NoOne
    /\ adding' = (adding /\ c = Frame)
    /\ Goto(c, "out")
    /\ UNCHANGED <<block, after, adds, charts, compVars, tileVars, workVars, shut>>

-------------------------------------------------------------------------------
(* Closing the library, with no call in flight                               *)

CloseBegin ==
    /\ ~shut /\ api = NoOne
    /\ \A c \in Callers : pc[c] = "out"
    /\ api' = Frame
    /\ CallPoll(Frame, TRUE, "deinit")
    /\ UNCHANGED <<adding, adds, charts, compVars, tileVars, workVars, shut>>

\* The tile pool has stood down; then the composition goes.
CloseEnd ==
    /\ pc[Frame] = "deinit"
    /\ \A w \in Workers : wpc[w] = "idle"
    /\ closed' = closed \cup ({compose} \ {0})
    /\ shut' = TRUE
    /\ api' = NoOne
    /\ Goto(Frame, "out")
    /\ UNCHANGED <<block, after, adding, adds, charts, compose, prev, result,
                   rebuilding, builder, failed, covers, tileVars, workVars>>

-------------------------------------------------------------------------------
(* A tile worker                                                             *)

\* serve copies the pointer under the pool's lock; asks come from a renderer
\* bound to the pool, which is bound behind the first composition.
CopyCompose(w) ==
    /\ ~shut /\ wpc[w] = "idle" /\ source = "provider"
    /\ held' = [held EXCEPT ![w] = tilesCompose]
    /\ wpc' = [wpc EXCEPT ![w] = "copied"]
    /\ UNCHANGED <<callVars, charts, compVars, tileVars, shut>>

ComposeTile(w) ==
    /\ wpc[w] = "copied"
    /\ wpc' = [wpc EXCEPT ![w] = "composing"]
    /\ UNCHANGED <<callVars, charts, compVars, tileVars, held, shut>>

TileComposed(w) ==
    /\ wpc[w] = "composing"
    /\ wpc' = [wpc EXCEPT ![w] = "idle"]
    /\ held' = [held EXCEPT ![w] = 0]
    /\ UNCHANGED <<callVars, charts, compVars, tileVars, shut>>

Ended == shut /\ UNCHANGED vars

Poll(c) == PollNothing(c) \/ PollJoin(c) \/ Swap(c) \/ Bind(c)

Next ==
    \/ BuildOk \/ BuildFails
    \/ \E c \in Callers : Poll(c) \/ Leave(c)
    \/ FrameEnter \/ CloseBegin \/ CloseEnd
    \/ \E a \in Adders : \/ AddBegin(a) \/ AddRelease(a) \/ AddRelock(a)
                         \/ AddAppend(a) \/ AddStart(a)
    \/ \E w \in Workers : CopyCompose(w) \/ ComposeTile(w) \/ TileComposed(w)
    \/ Ended

Spec == Init /\ [][Next]_vars

\* A caller that holds the api lock goes on, and the frame loop keeps polling
\* while a build is out.  The exclusive sections are strongly fair: the api lock
\* lets one caller ask for the engine lock at a time, and a single one gets it
\* from any stream of workers (RwLock's WriterGetsIn).  Nobody has to add charts,
\* get the api lock back after the opens, or close.
Fairness ==
    /\ WF_vars(BuildOk \/ BuildFails)
    /\ WF_vars(FrameEnter) /\ WF_vars(CloseEnd)
    /\ \A c \in Callers : /\ WF_vars(PollNothing(c) \/ PollJoin(c) \/ Bind(c))
                          /\ SF_vars(Swap(c)) /\ WF_vars(Leave(c))
    /\ \A a \in Adders : /\ WF_vars(AddRelease(a)) /\ SF_vars(AddAppend(a))
                         /\ WF_vars(AddStart(a))
    /\ \A w \in Workers : WF_vars(TileComposed(w))

FairSpec == Spec /\ Fairness

-------------------------------------------------------------------------------
CallPlaces == {"out", "poll", "swap", "bind", "leave", "release", "opening",
               "append", "start", "deinit"}

TypeOK ==
    /\ api \in Callers \cup {NoOne}
    /\ pc \in [Callers -> CallPlaces]
    /\ block \in [Callers -> BOOLEAN]
    /\ after \in [Callers -> CallPlaces]
    /\ {adding, rebuilding, failed, shut} \subseteq BOOLEAN
    /\ adds \in 0..MaxAdds /\ charts \in Nat
    /\ {compose, prev, result, tilesCompose} \subseteq Opened \cup {0}
    /\ builder \in {"none", "reading", "done"}
    /\ source \in {"none", "archive", "provider"}
    /\ covers \in Seq(Nat)
    /\ closed \subseteq Opened
    /\ held \in [Workers -> Opened \cup {0}]
    /\ wpc \in [Workers -> {"idle", "copied", "composing"}]

\* Two builds over one list, a list that grows while a build reads it, a build
\* thread nobody joins: none of it, though chartsAdd lets go of the api lock
\* half way.
ListIsQuiet ==
    \A a \in Adders : pc[a] \in {"append", "start"} => builder = "none"

\* Frames and picks read `compose` at any time under the api lock: while the
\* library is open it is never a closed one, and neither is what the swap will
\* close next.
CurrentIsOpen == ~shut => {compose, prev} \cap closed = {}

\* Nothing is leaked: a composition that was opened is closed, in use, or
\* waiting to be adopted; at the end every one is closed.
NothingLeaked ==
    /\ Opened \ closed \subseteq {compose, prev, result}
    /\ shut => closed = Opened

\* "The old one may still be in a worker's hands, so the caller closes it only
\* after this returns and the workers have drained" (setCompose).
NoWorkerReadsClosed == \A w \in Composing : held[w] \notin closed

Quiet == /\ ~adding /\ ~rebuilding /\ ~failed /\ ~shut
         /\ \A c \in Callers : pc[c] = "out"

\* What the workers compose from once things are quiet is the composition in
\* use, and it covers every chart in the list: no add is swallowed by a build
\* that began without it.
EveryChartComposed ==
    Quiet /\ charts > 1 =>
        /\ compose # 0 /\ tilesCompose = compose
        /\ covers[compose] = charts

\* "the charts that were already there re-compose identically, and the new ones
\* fill in as their tiles land": the renderer draws from the composition.
AddedChartsAreDrawn == Quiet /\ compose # 0 => source = "provider"

\* A finished composition reaches the tile workers with no api call but frames:
\* without loadingPulse's poll the building indicator "would spin forever".
BuildIsAdopted ==
    \A n \in 1..(MaxAdds + 1) : rebuilding /\ result = n ~> tilesCompose = n

\* Through adds, builds, swaps and a close that overlap, no build reads a list
\* that grows, no composition in use is closed, none is leaked, and what the
\* workers compose from in the end covers every chart.
CompositionIsSound == ListIsQuiet /\ CurrentIsOpen /\ NothingLeaked /\ EveryChartComposed
===============================================================================
