------------------------------- MODULE TilePool -------------------------------
(***************************************************************************)
(* The pool of tile workers in src/src/ct/tiles.zig: detached threads that *)
(* answer charttable's asks, hand in their badge when the queue stays      *)
(* empty, and are spawned again by the next ask.                           *)
(*                                                                         *)
(* One frame thread (every caller holds the api lock) pumps the asks,      *)
(* brings the pool up to strength and closes it.  What a worker composes,  *)
(* and from which composition, is Recompose.tla's subject; here serving a  *)
(* job is two steps, the answer and the in_flight decrement behind it.     *)
(* The clock is the count of empty polls: IdleLimit of them stand for      *)
(* IDLE_EXIT_MS.                                                           *)
(***************************************************************************)
EXTENDS Integers, Sequences, FiniteSets, SequencesExt

CONSTANTS Tiles,          \* the tiles charttable may ask for
          Slots,        \* slots for threads standing at one time
          Want,           \* min(max(cpus / 2, 1), MAX_WORKERS)
          IdleLimit,      \* empty polls before a worker stands down
          MaxAsks,        \* bound: asks raised in a behaviour
          MaxSpawnFails,  \* bound: thread spawns the system refuses
          NoTile          \* an empty pair of hands

ASSUME PoolBounds ==
    /\ Want \in Nat \ {0}
    /\ {IdleLimit, MaxAsks, MaxSpawnFails} \subseteq Nat
    /\ IsFiniteSet(Slots) /\ Cardinality(Slots) > Want

ASSUME NoTileIsNone == NoTile \notin Tiles

VARIABLES
    tile,       \* where each tile's ask is
    queue,      \* asks drained from charttable, newest last
    in_flight,  \* jobs taken and not finished
    alive,      \* workers standing, as the atomic counts them
    stopping,   \* deinit has begun
    freed,      \* deinit has returned: queue, lock and provider are gone
    spot,        \* worker slot -> where its thread is
    idle,       \* worker slot -> empty polls in a row
    job,        \* worker slot -> the tile in its hands
    fpc,        \* where the frame thread is
    asks, fails \* counters of the two bounds

poolVars == <<queue, in_flight, alive, stopping, freed>>
workerVars == <<spot, idle, job>>
bounds == <<asks, fails>>
tilePoolVars == <<tile, poolVars, workerVars, fpc, bounds>>

PoolInit ==
    /\ tile = [a \in Tiles |-> "unasked"]
    /\ queue = <<>>
    /\ in_flight = 0
    /\ alive = 0
    /\ stopping = FALSE
    /\ freed = FALSE
    /\ spot = [w \in Slots |-> "none"]
    /\ idle = [w \in Slots |-> 0]
    /\ job = [w \in Slots |-> NoTile]
    /\ fpc = "idle"
    /\ asks = 0
    /\ fails = 0

-------------------------------------------------------------------------------
(* charttable and the frame thread                                           *)

\* A cache worker of charttable finds no tile, and parks it until an answer.
Ask(a) ==
    /\ ~stopping
    /\ asks < MaxAsks
    /\ tile[a] \in {"unasked", "answered"}
    /\ tile' = [tile EXCEPT ![a] = "parked"]
    /\ asks' = asks + 1
    /\ UNCHANGED <<poolVars, workerVars, fpc, fails>>

Parked == {a \in Tiles : tile[a] = "parked"}

\* pump that queues the asks and leaves the pool as it is.
PumpWithoutStart ==
    /\ fpc = "idle"
    /\ Parked # {}
    /\ queue' = queue \o SetToSeq(Parked)
    /\ tile' = [a \in Tiles |-> IF a \in Parked THEN "queued" ELSE tile[a]]
    /\ UNCHANGED <<in_flight, alive, stopping, freed, workerVars, fpc, bounds>>

\* pump: drain the asks onto the queue, then start.
Pump ==
    /\ fpc = "idle"
    /\ Parked # {}
    /\ queue' = queue \o SetToSeq(Parked)
    /\ tile' = [a \in Tiles |-> IF a \in Parked THEN "queued" ELSE tile[a]]
    /\ fpc' = "start"
    /\ UNCHANGED <<in_flight, alive, stopping, freed, workerVars, bounds>>

\* bindComposed brings the pool up whatever the queue holds.
Bind ==
    /\ fpc = "idle"
    /\ fpc' = "start"
    /\ UNCHANGED <<tile, poolVars, workerVars, bounds>>

\* start counts the worker before its thread exists.
StartCheck ==
    /\ fpc = "start"
    /\ IF alive < Want
       THEN alive' = alive + 1 /\ fpc' = "spawn"
       ELSE alive' = alive /\ fpc' = "idle"
    /\ UNCHANGED <<tile, queue, in_flight, stopping, freed, workerVars, bounds>>

SpawnOk(w) ==
    /\ fpc = "spawn"
    /\ spot[w] = "none"
    /\ spot' = [spot EXCEPT ![w] = "top"]
    /\ idle' = [idle EXCEPT ![w] = 0]
    /\ fpc' = "start"
    /\ UNCHANGED <<tile, poolVars, job, bounds>>

SpawnFail ==
    /\ fpc = "spawn"
    /\ fails < MaxSpawnFails
    /\ fails' = fails + 1
    /\ alive' = alive - 1
    /\ fpc' = "idle"
    /\ UNCHANGED <<tile, queue, in_flight, stopping, freed, workerVars, asks>>

\* deinit: tell the workers, then wait for the count to reach zero.
Close ==
    /\ fpc = "idle"
    /\ stopping' = TRUE
    /\ fpc' = "closing"
    /\ UNCHANGED <<tile, queue, in_flight, alive, freed, workerVars, bounds>>

Free ==
    /\ fpc = "closing"
    /\ alive = 0
    /\ freed' = TRUE
    /\ fpc' = "closed"
    /\ UNCHANGED <<tile, queue, in_flight, alive, stopping, workerVars, bounds>>

-------------------------------------------------------------------------------
(* A worker                                                                  *)

Goto(w, next) == spot' = [spot EXCEPT ![w] = next]

Top(w) ==
    /\ spot[w] = "top"
    /\ Goto(w, IF stopping THEN "leave" ELSE "take")
    /\ UNCHANGED <<tile, poolVars, idle, job, fpc, bounds>>

\* take: newest first.
Take(w) ==
    /\ spot[w] = "take"
    /\ IF queue = <<>>
       THEN Goto(w, "starved") /\ UNCHANGED <<tile, queue, in_flight, job, idle>>
       ELSE /\ job' = [job EXCEPT ![w] = Last(queue)]
            /\ queue' = Front(queue)
            /\ tile' = [tile EXCEPT ![Last(queue)] = "taken"]
            /\ in_flight' = in_flight + 1
            /\ idle' = [idle EXCEPT ![w] = 0]
            /\ Goto(w, "serve")
    /\ UNCHANGED <<alive, stopping, freed, fpc, bounds>>

Sleep(w) ==
    /\ spot[w] = "starved"
    /\ idle[w] < IdleLimit
    /\ idle' = [idle EXCEPT ![w] = @ + 1]
    /\ Goto(w, "top")
    /\ UNCHANGED <<tile, poolVars, job, fpc, bounds>>

\* A worker that stands down without asking whether it was the last.
StandDownUnchecked(w) ==
    /\ spot[w] = "starved"
    /\ idle[w] >= IdleLimit
    /\ alive' = alive - 1
    /\ Goto(w, "none")
    /\ UNCHANGED <<tile, queue, in_flight, stopping, freed, idle, job, fpc, bounds>>

\* Two idle seconds: out, and the last one out looks at the queue again.
StandDown(w) ==
    /\ spot[w] = "starved"
    /\ idle[w] >= IdleLimit
    /\ alive' = alive - 1
    /\ Goto(w, IF alive = 1 THEN "recheck" ELSE "none")
    /\ UNCHANGED <<tile, queue, in_flight, stopping, freed, idle, job, fpc, bounds>>

Recheck(w) ==
    /\ spot[w] = "recheck"
    /\ Goto(w, IF queue # <<>> THEN "rejoin" ELSE "none")
    /\ UNCHANGED <<tile, poolVars, idle, job, fpc, bounds>>

\* A worker back at its post that is not counted again.
RejoinUncounted(w) ==
    /\ spot[w] = "rejoin"
    /\ idle' = [idle EXCEPT ![w] = 0]
    /\ Goto(w, "top")
    /\ UNCHANGED <<tile, poolVars, job, fpc, bounds>>

Rejoin(w) ==
    /\ spot[w] = "rejoin"
    /\ alive' = alive + 1
    /\ idle' = [idle EXCEPT ![w] = 0]
    /\ Goto(w, "top")
    /\ UNCHANGED <<tile, queue, in_flight, stopping, freed, job, fpc, bounds>>

\* serve: compose, free of every lock of the pool, and answer.
Respond(w) ==
    /\ spot[w] = "serve"
    /\ tile' = [tile EXCEPT ![job[w]] = "answered"]
    /\ job' = [job EXCEPT ![w] = NoTile]
    /\ Goto(w, "answered")
    /\ UNCHANGED <<poolVars, idle, fpc, bounds>>

Finish(w) ==
    /\ spot[w] = "answered"
    /\ in_flight' = in_flight - 1
    /\ Goto(w, "top")
    /\ UNCHANGED <<tile, queue, alive, stopping, freed, idle, job, fpc, bounds>>

Leave(w) ==
    /\ spot[w] = "leave"
    /\ alive' = alive - 1
    /\ Goto(w, "none")
    /\ UNCHANGED <<tile, queue, in_flight, stopping, freed, idle, job, fpc, bounds>>

Work(w) ==
    \/ Top(w) \/ Take(w) \/ Sleep(w) \/ StandDown(w) \/ Recheck(w)
    \/ Rejoin(w) \/ Respond(w) \/ Finish(w) \/ Leave(w)

\* The pool is closed and every thread is gone: the end of the program.
Ended == fpc = "closed" /\ (\A w \in Slots : spot[w] = "none") /\ UNCHANGED tilePoolVars

PoolNext ==
    \/ \E a \in Tiles : Ask(a)
    \/ Pump \/ Bind \/ StartCheck \/ SpawnFail \/ Close \/ Free
    \/ \E w \in Slots : SpawnOk(w) \/ Work(w)
    \/ Ended

PoolSpec == PoolInit /\ [][PoolNext]_tilePoolVars

\* start is a loop without waits, deinit polls the count every millisecond, and
\* a worker is a running thread: each goes on when it can.
PoolFairness ==
    /\ WF_tilePoolVars(StartCheck) /\ WF_tilePoolVars(Free)
    /\ WF_tilePoolVars(\E w \in Slots : SpawnOk(w))
    /\ \A w \in Slots : WF_tilePoolVars(Work(w))

PoolFairSpec == PoolSpec /\ PoolFairness

-------------------------------------------------------------------------------
Places == {"none", "top", "take", "starved", "recheck", "rejoin", "serve",
           "answered", "leave"}

PoolTypeOK ==
    /\ tile \in [Tiles -> {"unasked", "parked", "queued", "taken", "answered"}]
    /\ queue \in Seq(Tiles)
    /\ in_flight \in Nat
    /\ alive \in Nat
    /\ {stopping, freed} \subseteq BOOLEAN
    /\ spot \in [Slots -> Places]
    /\ idle \in [Slots -> 0..IdleLimit]
    /\ job \in [Slots -> Tiles \cup {NoTile}]
    /\ fpc \in {"idle", "start", "spawn", "closing", "closed"}
    /\ asks \in 0..MaxAsks /\ fails \in 0..MaxSpawnFails

PoolAt(places) == {w \in Slots : spot[w] \in places}

\* The badge count is the workers that hold one, plus the one start is about to
\* spawn: a count too high leaves the pool short for ever, one too low lets
\* deinit free under a worker.
AliveMatches ==
    alive = Cardinality(Slots \ PoolAt({"none", "recheck", "rejoin"}))
            + (IF fpc = "spawn" THEN 1 ELSE 0)

\* An ask taken from charttable is in one place: once on the queue, or in one
\* worker's hands.  busy() therefore tells the truth about the pool.
AskInOnePlace ==
    /\ \A a \in Tiles :
        /\ tile[a] = "queued" <=> a \in ToSet(queue)
        /\ tile[a] = "taken" <=> \E w \in Slots : job[w] = a
    /\ IsInjective(queue)
    /\ \A v, w \in Slots : job[v] = job[w] => v = w \/ job[v] = NoTile
    /\ in_flight = Cardinality(PoolAt({"serve", "answered"}))

\* "a parked tile that is never answered is a hole in the chart forever": when
\* the frame thread has gone home, a queued ask has a thread to find it.  (Where
\* the system refused the pool its only thread, the ask waits for the next one.)
NotStranded ==
    fpc = "idle" /\ queue # <<>> => PoolAt(Places \ {"none"}) # {} \/ fails > 0

\* deinit frees nothing under a worker that holds a job or may still take one.
NoJobAfterFree ==
    freed => /\ in_flight = 0
             /\ PoolAt({"take", "serve", "answered"}) = {}

\* "joined by handshake: each worker's last act is the decrement": once deinit
\* has freed the pool, no worker thread is left that will touch it again.
NoWorkerAfterFree == freed => PoolAt(Places \ {"none"}) = {}

\* Every ask taken from charttable is answered, unless the map closes first or
\* a thread is refused:
\* pump calls start behind the append, and neither a full count of idle workers
\* nor the last of them leaving may swallow it.
AskIsAnswered ==
    \A a \in Tiles : tile[a] = "queued" ~> tile[a] = "answered" \/ stopping \/ fails > 0

\* deinit returns, however the workers stand when it is called.
CloseReturns == fpc = "closing" ~> fpc = "closed"

\* The pool's books are true: its count of workers, the place of each ask, and
\* nothing freed under a worker that holds or may take one (ct/tiles.zig).
PoolAddsUp == AliveMatches /\ AskInOnePlace /\ NotStranded /\ NoJobAfterFree

\* What the pool is asked ends: every ask in an answer, and deinit.
WorkEnds == AskIsAnswered /\ CloseReturns
===============================================================================
