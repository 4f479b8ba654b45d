------------------------------ MODULE PluginHost ------------------------------
(***************************************************************************)
(* The plugin host in src/src/plugin/host.zig: one dispatch thread per     *)
(* plugin, which serves its events, takes it out of service when it faults *)
(* and brings it back on the backoff schedule; the watchdog on the I/O     *)
(* thread, which terminates a call over its budget; and the API thread,    *)
(* which starts, configures, unloads and stops.                            *)
(*                                                                         *)
(* The clock is abstract: a call's stamp goes from "in" to "over", a clean *)
(* run from "fresh" to "whole", and a backoff comes due, each in its own   *)
(* time.  WAMR is external: a call returns, traps, or never comes back     *)
(* until its instance is terminated.                                       *)
(***************************************************************************)
EXTENDS Integers, Sequences, FiniteSets, SequencesExt

CONSTANTS Plugins,      \* the registry: indices of loaded plugins
          Attempts,     \* restart_backoff_ms.len
          MaxFaults,    \* bound: calls that trap, overrun, hang or refuse
          MaxEvents,    \* bound: events the I/O thread queues
          MaxConfigs,   \* bound: settings the mariner changes
          NoPlugin      \* the subject of an idle thread

ASSUME HostBounds ==
    /\ Attempts \in Nat
    /\ MaxFaults \in Nat /\ MaxEvents \in Nat /\ MaxConfigs \in Nat
    /\ NoPlugin \notin Plugins

VARIABLES
    e,          \* plugin -> its registry entry, broker record and thread
    queue,      \* plugin -> its events, oldest first
    values,     \* plugin -> the settings in force, as a version number, and
                \* the version the last accepted configSet left
    late,       \* plugins whose stamp the tick's clock puts over the budget
    wd,         \* the watchdog: at, todo (rest of the walk), p, gen
    api,        \* the API thread: at, p or todo, gen
    started,    \* start has run: the I/O thread ticks
    count       \* the counters of the bounds: faults, events

vars == <<e, queue, values, late, wd, api, started, count>>

\* An entry after loadOne: lk_start has returned cleanly.
Loaded ==
    [live |-> TRUE, stopping |-> FALSE, entered |-> "out", killed |-> FALSE,
     retired |-> FALSE, restarts |-> 0, restart_at |-> FALSE, clean |-> "fresh",
     removed |-> FALSE, thread |-> FALSE,
     enabled |-> TRUE, scene |-> TRUE,              \* the broker's record
     gen |-> 0, terminated |-> FALSE, freed |-> FALSE,  \* the instance
     pc |-> "none", cur |-> [kind |-> "none", v |-> 0], seen |-> 0,
     told |-> FALSE, tries |-> 0, overran |-> FALSE]    \* history: see below

\* told: SHUTDOWN has been handed to the module.  tries: restarts begun since
\* the plugin last ran clean for restart_clean_ms.  overran: a call into this
\* instance has been over the budget.
Init ==
    /\ e = [p \in Plugins |-> Loaded]
    /\ queue = [p \in Plugins |-> <<>>]
    /\ values = [p \in Plugins |-> [v |-> 0, said |-> 0]]
    /\ late = {}
    /\ wd = [at |-> "idle", todo |-> {}, p |-> NoPlugin, gen |-> 0]
    /\ api = [at |-> "idle", todo |-> {}, p |-> NoPlugin, gen |-> 0]
    /\ started = FALSE
    /\ count = [faults |-> 0, events |-> 0]

\* The watchdog holds reg_mu for its whole walk; every other holder takes it
\* for one step here.
RegFree == wd.at = "idle"

Ev(kind, v) == [kind |-> kind, v |-> v]
Put(p, ev) == queue' = [queue EXCEPT ![p] = Append(@, ev)]

Fault == count.faults < MaxFaults /\ count' = [count EXCEPT !.faults = @ + 1]

\* A record taken out of service and erased: retire behind its swap, dropPlugin.
Dropped(r) == [r EXCEPT !.live = FALSE, !.retired = TRUE, !.enabled = FALSE,
                        !.scene = FALSE]

-------------------------------------------------------------------------------
(* The dispatch thread: serving                                              *)

\* p's thread goes from one place to another; r is the entry it leaves behind.
At(p, place) == e[p].pc = place
Move(p, r, place) == e' = [e EXCEPT ![p] = [r EXCEPT !.pc = place]]
Goto(p, place) == Move(p, e[p], place)

\* A step that touches nothing but p's own entry.
Run(p, r, place) ==
    /\ Move(p, r, place)
    /\ UNCHANGED <<queue, values, late, wd, api, started, count>>
RunTo(p, place) == Run(p, e[p], place)

\* initThreadEnv; a thread without it returns at once.
EnvOk(p) ==
    /\ At(p, "env")
    /\ RunTo(p, "serve")

EnvFails(p) ==
    /\ At(p, "env")
    /\ Fault
    /\ Goto(p, "gone")
    /\ UNCHANGED <<queue, values, late, wd, api, started>>

\* serveEvents asks again before each event.
Serve(p) ==
    /\ At(p, "serve")
    /\ RunTo(p, IF e[p].stopping \/ ~e[p].live THEN "leave"
               ELSE IF e[p].killed THEN "stuck" ELSE "pop")

\* popFor; an empty queue parks the thread, and sends it round again.
Pop(p) ==
    /\ At(p, "pop")
    /\ IF queue[p] = <<>>
       THEN Goto(p, "serve") /\ UNCHANGED queue
       ELSE /\ Move(p, [e[p] EXCEPT !.cur = Head(queue[p])], "deliver")
            /\ queue' = [queue EXCEPT ![p] = Tail(@)]
    /\ UNCHANGED <<values, late, wd, api, started, count>>

\* deliverTo: SHUTDOWN is the last thing a plugin ever sees.
Deliver(p) ==
    /\ At(p, "deliver")
    /\ Run(p, IF e[p].cur.kind = "shutdown"
               THEN [e[p] EXCEPT !.live = FALSE, !.told = TRUE] ELSE e[p], "stamp")

\* The stamp the watchdog reads, and the call: eventWith, or start in restart.
Stamp(p) ==
    /\ At(p, "stamp")
    /\ Move(p, [e[p] EXCEPT !.entered = "in"], "call")
    /\ late' = late \ {p}
    /\ UNCHANGED <<queue, values, wd, api, started, count>>

\* The module draws, publishes, dials: whatever its record lets through.
Contribute(p) ==
    /\ At(p, "call")
    /\ e[p].enabled /\ ~e[p].scene
    /\ e' = [e EXCEPT ![p].scene = TRUE]
    /\ UNCHANGED <<queue, values, late, wd, api, started, count>>

\* The call returns; a module that took settings knows them.
Return(p) ==
    LET kind == e[p].cur.kind
    IN  /\ At(p, "call")
        /\ Run(p, [e[p] EXCEPT !.entered = "out",
                        !.seen = IF kind \in {"config", "start"} THEN e[p].cur.v ELSE @],
                IF kind = "shutdown" THEN "retire"
                ELSE IF kind = "start" THEN "up" ELSE "serve")

\* lk_start refuses.
Refuse(p) ==
    /\ At(p, "call")
    /\ e[p].cur.kind = "start"
    /\ Fault
    /\ Move(p, [e[p] EXCEPT !.entered = "out"], "retire")
    /\ UNCHANGED <<queue, values, late, wd, api, started>>

\* The call traps, by itself or because its instance was terminated.
Trap(p) ==
    /\ e[p].pc \in {"call", "hung"}
    /\ IF e[p].terminated THEN UNCHANGED count ELSE At(p, "call") /\ Fault
    /\ Move(p, [e[p] EXCEPT !.entered = "out"], "trapped")
    /\ UNCHANGED <<queue, values, late, wd, api, started>>

\* The module enters a loop it never leaves.
Hang(p) ==
    /\ At(p, "call")
    /\ Fault
    /\ Goto(p, "hung")
    /\ UNCHANGED <<queue, values, late, wd, api, started>>

\* Time passes over the event budget; a slow call may still return.
Overrun(p) ==
    /\ e[p].pc \in {"call", "hung"} /\ e[p].entered = "in"
    /\ IF At(p, "hung") THEN UNCHANGED count ELSE Fault
    /\ e' = [e EXCEPT ![p].entered = "over", ![p].overran = TRUE]
    /\ UNCHANGED <<queue, values, late, wd, api, started>>

\* A terminated event goes to disableStuck; any other trap keeps its text.
Trapped(p) ==
    /\ At(p, "trapped")
    /\ RunTo(p, IF e[p].killed /\ e[p].cur.kind # "start" THEN "stuck" ELSE "retire")

Stuck(p) ==
    /\ At(p, "stuck")
    /\ Run(p, [e[p] EXCEPT !.cur = Ev("stuck", 0)], "retire")

\* What follows retire: a plugin on its way out is not brought back.
Afterwards(p) == IF e[p].cur.kind = "shutdown" THEN "serve" ELSE "schedule"

\* retire: live off first, then the clean-up, once.
Retire(p) ==
    /\ At(p, "retire")
    /\ Run(p, [e[p] EXCEPT !.live = FALSE, !.retired = TRUE],
            IF e[p].retired THEN Afterwards(p) ELSE "drop")

\* dropPlugin
Drop(p) ==
    /\ At(p, "drop")
    /\ Move(p, Dropped(e[p]), Afterwards(p))
    /\ queue' = [queue EXCEPT ![p] = <<>>]
    /\ UNCHANGED <<values, late, wd, api, started, count>>

-------------------------------------------------------------------------------
(* The dispatch thread: restarting                                           *)

\* allowanceWhole, asked by decayRestarts.
AllowanceWhole(r) == r.restarts > 0 /\ r.clean = "whole"

\* A schedule with one promise too many.
ScheduleOffByOne(p) ==
    LET spent == IF AllowanceWhole(e[p]) THEN 0 ELSE e[p].restarts
    IN  /\ At(p, "schedule")
        /\ Run(p, [e[p] EXCEPT !.restarts = spent, !.restart_at = spent <= Attempts],
                "serve")

\* scheduleRestart: promise a restart, or give the plugin up.
Schedule(p) ==
    LET spent == IF AllowanceWhole(e[p]) THEN 0 ELSE e[p].restarts
    IN  /\ At(p, "schedule")
        /\ Run(p, IF e[p].stopping \/ Attempts = 0 THEN e[p]
                   ELSE [e[p] EXCEPT !.restarts = spent,
                                     !.restart_at = spent < Attempts], "serve")

\* dispatchMain behind serveEvents: is a restart promised?
Leave(p) ==
    /\ At(p, "leave")
    /\ Run(p, [e[p] EXCEPT !.restart_at = FALSE],
            IF e[p].restart_at THEN "backoff" ELSE "clear")

\* The wait ends when it is due or the plugin is told to stop.  The shortest
\* wait, a second, outlasts the half second a stop or an unload gives SHUTDOWN.
Backoff(p) ==
    /\ At(p, "backoff")
    /\ e[p].told => e[p].stopping
    /\ RunTo(p, "due")

Due(p) ==
    /\ At(p, "due")
    /\ RunTo(p, IF e[p].stopping THEN "clear" ELSE "restart")

\* restart that leaves the last clean run standing.
BeginKeepsClean(p) ==
    /\ At(p, "restart")
    /\ Run(p, [e[p] EXCEPT !.restarts = @ + 1, !.tries = @ + 1], "instantiate")

\* restart: the attempt is counted, and the clean run is over.
Begin(p) ==
    /\ At(p, "restart")
    /\ Run(p, [e[p] EXCEPT !.restarts = @ + 1, !.tries = @ + 1, !.clean = "none"],
            "instantiate")

\* No instance, or no config JSON to start it with: giveUp.
GiveUp(p) ==
    /\ e[p].pc \in {"instantiate", "config"}
    /\ Fault
    /\ Move(p, [e[p] EXCEPT !.restart_at = FALSE], "serve")
    /\ UNCHANGED <<queue, values, late, wd, api, started>>

Fresh(r) == [r EXCEPT !.gen = @ + 1, !.terminated = FALSE, !.overran = FALSE]

\* The swap without the registry lock.
SwapUnlocked(p) ==
    /\ At(p, "instantiate")
    /\ Run(p, Fresh(e[p]), "config")

\* The old instance is freed and the new one put in its place.
Swap(p) ==
    /\ At(p, "instantiate")
    /\ RegFree
    /\ Run(p, Fresh(e[p]), "config")

\* startJson under cfg_mu: the settings exactly as they stand.
Config(p) ==
    /\ At(p, "config")
    /\ Run(p, [e[p] EXCEPT !.cur = Ev("start", values[p].v)], "revive")

\* A restart that leaves the kill of the last instance standing.
ReviveKeepsKilled(p) ==
    /\ At(p, "revive")
    /\ Run(p, [e[p] EXCEPT !.retired = FALSE, !.enabled = TRUE], "golive")

Revive(p) ==
    /\ At(p, "revive")
    /\ Run(p, [e[p] EXCEPT !.killed = FALSE, !.retired = FALSE, !.enabled = TRUE],
            "golive")

GoLive(p) ==
    /\ At(p, "golive")
    /\ Run(p, [e[p] EXCEPT !.live = TRUE], "stamp")

\* lk_start returned 0: the clean run begins, and the grants are told.
Up(p) ==
    /\ At(p, "up")
    /\ Move(p, [e[p] EXCEPT !.clean = "fresh"], "serve")
    /\ Put(p, Ev("grants", 0))
    /\ UNCHANGED <<values, late, wd, api, started, count>>

\* restart_clean_ms passes over a plugin in service.
CleanRun(p) ==
    /\ e[p].live /\ e[p].clean = "fresh"
    /\ e' = [e EXCEPT ![p].clean = "whole", ![p].tries = 0]
    /\ UNCHANGED <<queue, values, late, wd, api, started, count>>

\* Anything still queued belongs to nobody now.
Clear(p) ==
    /\ At(p, "clear")
    /\ Goto(p, "gone")
    /\ queue' = [queue EXCEPT ![p] = <<>>]
    /\ UNCHANGED <<values, late, wd, api, started, count>>

-------------------------------------------------------------------------------
(* The watchdog, and the events the I/O thread queues                        *)

\* watchdogTick: its clock is read once, then the registry is walked under
\* reg_mu, each flag with a read of its own.
Tick ==
    /\ started
    /\ wd.at = "idle"
    /\ wd' = [wd EXCEPT !.at = "walk", !.todo = Plugins]
    /\ late' = {p \in Plugins : e[p].entered = "over"}
    /\ UNCHANGED <<e, queue, values, api, started, count>>

Look(p) ==
    /\ wd.at = "walk" /\ p \in wd.todo
    /\ wd' = [wd EXCEPT !.todo = @ \ {p},
                        !.at = IF e[p].removed \/ ~e[p].live THEN "walk" ELSE "judge",
                        !.p = p]
    /\ UNCHANGED <<e, queue, values, late, api, started, count>>

Judge(p) ==
    /\ wd.at = "judge" /\ wd.p = p
    /\ wd' = [wd EXCEPT !.at = IF e[p].entered # "out" /\ p \in late
                               THEN "claim" ELSE "walk",
                        !.gen = e[p].gen]
    /\ UNCHANGED <<e, queue, values, late, api, started, count>>

\* The kill is claimed with a compare-and-swap.
Claim(p) ==
    /\ wd.at = "claim" /\ wd.p = p
    /\ wd' = [wd EXCEPT !.at = IF e[p].killed THEN "walk" ELSE "kill"]
    /\ e' = [e EXCEPT ![p].killed = TRUE]
    /\ UNCHANGED <<queue, values, late, api, started, count>>

Kill(p) ==
    /\ wd.at = "kill" /\ wd.p = p
    /\ e' = [e EXCEPT ![p].terminated = TRUE]
    /\ wd' = [wd EXCEPT !.at = "walk"]
    /\ UNCHANGED <<queue, values, late, api, started, count>>

EndWalk ==
    /\ wd.at = "walk" /\ wd.todo = {}
    /\ wd' = [wd EXCEPT !.at = "idle"]
    /\ UNCHANGED <<e, queue, values, late, api, started, count>>

\* A socket, a timer or a subscription of a plugin in service has something.
IoPush(p) ==
    /\ started
    /\ e[p].enabled
    /\ count.events < MaxEvents
    /\ Put(p, Ev("ev", 0))
    /\ count' = [count EXCEPT !.events = @ + 1]
    /\ UNCHANGED <<e, values, late, wd, api, started>>

-------------------------------------------------------------------------------
(* The API thread: one call at a time                                        *)

GoApi(place) == api' = [api EXCEPT !.at = place]

\* Every loop over the registry: each entry once, in no order that matters.
Each(p) == p \in api.todo
DoneWith(p) == api' = [api EXCEPT !.todo = @ \ {p}]
NextLoop(from, to) ==
    /\ api.at = from /\ api.todo = {}
    /\ api' = [api EXCEPT !.at = to, !.todo = Plugins]
    /\ UNCHANGED <<e, queue, values, late, wd, started, count>>

Start ==
    /\ api.at = "idle" /\ ~started
    /\ started' = TRUE
    /\ api' = [api EXCEPT !.at = "spawn", !.todo = Plugins]
    /\ UNCHANGED <<e, queue, values, late, wd, count>>

Spawnable(p) == ~e[p].removed /\ e[p].live /\ ~e[p].thread

SpawnOk(p) ==
    /\ api.at = "spawn" /\ Each(p) /\ DoneWith(p)
    /\ IF Spawnable(p)
       THEN Move(p, [e[p] EXCEPT !.stopping = FALSE, !.thread = TRUE], "env")
       ELSE UNCHANGED e
    /\ UNCHANGED <<queue, values, late, wd, started, count>>

\* No thread means no events, ever: retired at once.
SpawnFails(p) ==
    /\ api.at = "spawn" /\ Each(p) /\ DoneWith(p)
    /\ Spawnable(p)
    /\ Fault
    /\ e' = [e EXCEPT ![p] = [Dropped(e[p]) EXCEPT !.stopping = FALSE]]
    /\ queue' = [queue EXCEPT ![p] = <<>>]
    /\ UNCHANGED <<values, late, wd, started>>

Started == /\ api.at = "spawn" /\ api.todo = {}
           /\ GoApi("idle")
           /\ UNCHANGED <<e, queue, values, late, wd, started, count>>

\* configSet: the value changes under cfg_mu, the event is pushed behind it.
ConfigSet(p) ==
    /\ api.at = "idle"
    /\ ~e[p].removed
    /\ values[p].v < MaxConfigs
    /\ values' = [values EXCEPT ![p] = [v |-> @.v + 1, said |-> @.v + 1]]
    /\ api' = [api EXCEPT !.at = "config", !.p = p]
    /\ UNCHANGED <<e, queue, late, wd, started, count>>

\* BadConfig at one key, behind a key already written: nothing is pushed.
ConfigRefused(p) ==
    /\ api.at = "idle"
    /\ ~e[p].removed
    /\ values[p].v < MaxConfigs
    /\ values' = [values EXCEPT ![p].v = @ + 1]
    /\ UNCHANGED <<e, queue, late, wd, api, started, count>>

ConfigPush(p) ==
    /\ api.at = "config" /\ api.p = p
    /\ Put(p, Ev("config", values[p].v))
    /\ GoApi("idle")
    /\ UNCHANGED <<e, values, late, wd, started, count>>

\* unload and stop open alike: SHUTDOWN to a live plugin.
Tell(p) == IF e[p].live THEN Put(p, Ev("shutdown", 0)) ELSE UNCHANGED queue

\* The inline delivery of a host with no thread in the module.
Inline(p) ==
    /\ e' = [e EXCEPT ![p] = IF e[p].live THEN [Dropped(e[p]) EXCEPT !.told = TRUE] ELSE @]
    /\ queue' = IF e[p].live /\ ~e[p].retired THEN [queue EXCEPT ![p] = <<>>] ELSE queue

Unload(p) ==
    /\ api.at = "idle"
    /\ ~e[p].removed
    /\ IF e[p].thread
       THEN Tell(p) /\ UNCHANGED e /\ api' = [api EXCEPT !.at = "wait", !.p = p]
       ELSE Inline(p) /\ api' = [api EXCEPT !.at = "retire", !.p = p]
    /\ UNCHANGED <<values, late, wd, started, count>>

\* The wait for SHUTDOWN to land is shutdown_ms long at most.
UnloadHalt(p) ==
    /\ api.at = "wait" /\ api.p = p
    /\ e' = [e EXCEPT ![p].stopping = TRUE]
    /\ GoApi("grace")
    /\ UNCHANGED <<queue, values, late, wd, started, count>>

\* The grace period ends: whatever is still inside is terminated, then joined.
UnloadGrace(p) ==
    /\ api.at = "grace" /\ api.p = p
    /\ api' = [api EXCEPT !.at = IF e[p].entered # "out" THEN "terminate" ELSE "join",
                          !.gen = e[p].gen]
    /\ UNCHANGED <<e, queue, values, late, wd, started, count>>

UnloadTerminate(p) ==
    /\ api.at = "terminate" /\ api.p = p
    /\ e' = [e EXCEPT ![p].terminated = TRUE]
    /\ GoApi("join")
    /\ UNCHANGED <<queue, values, late, wd, started, count>>

\* An unload that does not wait for the thread.
UnloadDetach(p) ==
    /\ api.at = "join" /\ api.p = p
    /\ e' = [e EXCEPT ![p].thread = FALSE]
    /\ GoApi("retire")
    /\ UNCHANGED <<queue, values, late, wd, started, count>>

UnloadJoin(p) ==
    /\ api.at = "join" /\ api.p = p
    /\ At(p, "gone")
    /\ e' = [e EXCEPT ![p].thread = FALSE, ![p].pc = "none"]
    /\ GoApi("retire")
    /\ UNCHANGED <<queue, values, late, wd, started, count>>

\* retire where SHUTDOWN could not, then removePlugin, which empties the queue.
UnloadRetire(p) ==
    /\ api.at = "retire" /\ api.p = p
    /\ e' = [e EXCEPT ![p] = IF e[p].retired THEN [@ EXCEPT !.live = FALSE]
                             ELSE Dropped(@)]
    /\ queue' = [queue EXCEPT ![p] = <<>>]
    /\ GoApi("tombstone")
    /\ UNCHANGED <<values, late, wd, started, count>>

Tombstone(p) ==
    /\ api.at = "tombstone" /\ api.p = p
    /\ RegFree
    /\ e' = [e EXCEPT ![p].removed = TRUE]
    /\ GoApi("free")
    /\ UNCHANGED <<queue, values, late, wd, started, count>>

UnloadFree(p) ==
    /\ api.at = "free" /\ api.p = p
    /\ e' = [e EXCEPT ![p].freed = TRUE]
    /\ GoApi("idle")
    /\ UNCHANGED <<queue, values, late, wd, started, count>>

-------------------------------------------------------------------------------
(* stop, and the second stop inside deinit                                   *)

Stop ==
    /\ api.at = "idle" /\ started
    /\ api' = [api EXCEPT !.at = "tell", !.todo = Plugins]
    /\ UNCHANGED <<e, queue, values, late, wd, started, count>>

StopTell(p) ==
    /\ api.at = "tell" /\ Each(p) /\ DoneWith(p)
    /\ IF e[p].removed THEN UNCHANGED queue ELSE Tell(p)
    /\ UNCHANGED <<e, values, late, wd, started, count>>

\* The drain ends with the queues, or after shutdown_ms.
StopHalt(p) ==
    /\ api.at = "halt" /\ Each(p) /\ DoneWith(p)
    /\ e' = [e EXCEPT ![p].stopping = TRUE]
    /\ UNCHANGED <<queue, values, late, wd, started, count>>

StopGrace(p) ==
    /\ api.at = "lastcall" /\ Each(p)
    /\ IF e[p].removed \/ ~e[p].thread \/ e[p].entered = "out"
       THEN DoneWith(p)
       ELSE api' = [api EXCEPT !.at = "endcall", !.p = p, !.gen = e[p].gen]
    /\ UNCHANGED <<e, queue, values, late, wd, started, count>>

StopTerminate(p) ==
    /\ api.at = "endcall" /\ api.p = p
    /\ e' = [e EXCEPT ![p].terminated = TRUE]
    /\ api' = [api EXCEPT !.at = "lastcall", !.todo = @ \ {p}]
    /\ UNCHANGED <<queue, values, late, wd, started, count>>

StopJoin(p) ==
    /\ api.at = "joins" /\ Each(p) /\ DoneWith(p)
    /\ IF e[p].thread
       THEN At(p, "gone") /\ e' = [e EXCEPT ![p].thread = FALSE, ![p].pc = "none"]
       ELSE UNCHANGED e
    /\ UNCHANGED <<queue, values, late, wd, started, count>>

\* started off, and br.stop, which lets the I/O thread end its last tick.
StopIo ==
    /\ api.at = "joins" /\ api.todo = {}
    /\ started' = FALSE
    /\ GoApi("iojoin")
    /\ UNCHANGED <<e, queue, values, late, wd, count>>

JoinIo ==
    /\ api.at = "iojoin"
    /\ RegFree
    /\ api' = [api EXCEPT !.at = "inline", !.todo = Plugins]
    /\ UNCHANGED <<e, queue, values, late, wd, started, count>>

\* deinit calls stop again, which now delivers SHUTDOWN itself.
DeinitInline(p) ==
    /\ api.at = "inline" /\ Each(p) /\ DoneWith(p)
    /\ IF e[p].removed THEN UNCHANGED <<e, queue>> ELSE Inline(p)
    /\ UNCHANGED <<values, late, wd, started, count>>

Deinit ==
    /\ api.at = "inline" /\ api.todo = {}
    /\ e' = [p \in Plugins |-> [e[p] EXCEPT !.freed = TRUE]]
    /\ GoApi("end")
    /\ UNCHANGED <<queue, values, late, wd, started, count>>

-------------------------------------------------------------------------------
\* What p's thread does of its own accord, outside the module.
Dispatch(p) ==
    \/ EnvOk(p) \/ Serve(p) \/ Pop(p) \/ Deliver(p) \/ Stamp(p)
    \/ Trapped(p) \/ Stuck(p) \/ Retire(p) \/ Drop(p) \/ Schedule(p) \/ Leave(p)
    \/ Backoff(p) \/ Due(p) \/ Begin(p) \/ Config(p) \/ Revive(p) \/ GoLive(p)
    \/ Up(p) \/ Clear(p)

Module(p) == Contribute(p) \/ Return(p) \/ Refuse(p) \/ Trap(p) \/ Hang(p)
World(p) == EnvFails(p) \/ GiveUp(p) \/ Overrun(p) \/ CleanRun(p) \/ IoPush(p)
Watchdog == Tick \/ EndWalk
            \/ \E p \in Plugins : Look(p) \/ Judge(p) \/ Claim(p) \/ Kill(p)

Unloading(p) ==
    \/ UnloadHalt(p) \/ UnloadGrace(p) \/ UnloadTerminate(p) \/ UnloadJoin(p)
    \/ UnloadRetire(p) \/ Tombstone(p) \/ UnloadFree(p)
Stopping ==
    \/ NextLoop("tell", "halt") \/ NextLoop("halt", "lastcall")
    \/ NextLoop("lastcall", "joins") \/ StopIo \/ JoinIo \/ Deinit
    \/ \E p \in Plugins : StopTell(p) \/ StopHalt(p) \/ StopGrace(p)
                          \/ StopTerminate(p) \/ StopJoin(p) \/ DeinitInline(p)

\* The calls of the API thread, and how each goes on.
Api ==
    \/ Start \/ Stop
    \/ \E p \in Plugins : ConfigSet(p) \/ ConfigRefused(p) \/ Unload(p)
ApiGoesOn ==
    \/ Started \/ Stopping
    \/ \E p \in Plugins : SpawnOk(p) \/ SpawnFails(p) \/ ConfigPush(p) \/ Unloading(p)

Ended == api.at = "end" /\ UNCHANGED vars

Next ==
    \/ \E p \in Plugins : Dispatch(p) \/ Module(p) \/ World(p) \/ Swap(p)
    \/ Watchdog \/ Api \/ ApiGoesOn \/ Ended

Spec == Init /\ [][Next]_vars

\* Threads run; the tick comes every 100 ms; a call that is not in a loop for
\* ever comes back, a terminated one traps, and a hung one is over its budget
\* in the end.  The tick leaves reg_mu free in between, so Swap gets it.
Fairness ==
    /\ WF_vars(Watchdog) /\ WF_vars(ApiGoesOn)
    /\ \A p \in Plugins :
        /\ WF_vars(Dispatch(p)) /\ SF_vars(Swap(p))
        /\ SF_vars(Tombstone(p))
        /\ WF_vars(Return(p))
        /\ WF_vars(e[p].terminated /\ Trap(p))
        /\ WF_vars(At(p, "hung") /\ Overrun(p))

FairSpec == Spec /\ Fairness

-------------------------------------------------------------------------------
Places == {"none", "env", "serve", "pop", "deliver", "stamp", "call", "hung",
           "trapped", "stuck", "retire", "drop", "schedule", "leave", "backoff",
           "due", "restart", "instantiate", "config", "revive", "golive", "up",
           "clear", "gone"}
Kinds == {"none", "ev", "config", "grants", "shutdown", "start", "stuck"}
Events == [kind : Kinds, v : 0..MaxConfigs]

Settings == [v : 0..MaxConfigs, said : 0..MaxConfigs]

Entry ==
    [live : BOOLEAN, stopping : BOOLEAN, entered : {"out", "in", "over"},
     killed : BOOLEAN, retired : BOOLEAN, restarts : 0..Attempts,
     restart_at : BOOLEAN, clean : {"none", "fresh", "whole"}, removed : BOOLEAN,
     thread : BOOLEAN, enabled : BOOLEAN, scene : BOOLEAN, gen : Nat,
     terminated : BOOLEAN, freed : BOOLEAN,
     pc : Places, cur : Events, seen : 0..MaxConfigs, told : BOOLEAN,
     tries : Nat, overran : BOOLEAN]

\* restarts stays within the schedule it indexes, among the other types.
TypeOK ==
    /\ e \in [Plugins -> Entry]
    /\ queue \in [Plugins -> Seq(Events)]
    /\ values \in [Plugins -> Settings]
    /\ late \subseteq Plugins
    /\ wd \in [at : {"idle", "walk", "judge", "claim", "kill"},
               todo : SUBSET Plugins, p : Plugins \cup {NoPlugin}, gen : Nat]
    /\ api \in [at : {"idle", "spawn", "config", "wait", "grace", "terminate", "join",
                     "retire", "tombstone", "free", "tell", "halt", "lastcall",
                     "endcall", "joins", "iojoin", "inline", "end"},
                todo : SUBSET Plugins, p : Plugins \cup {NoPlugin}, gen : Nat]
    /\ started \in BOOLEAN
    /\ count \in [faults : 0..MaxFaults, events : 0..MaxEvents]

\* The schedule bounds the attempts between two whole clean runs, whatever the
\* failures in between: the allowance is not handed back to a plugin that
\* cannot come up.
AttemptsBounded == \A p \in Plugins : e[p].tries <= Attempts

\* What a plugin out of service drew, published and dialled is gone, on every
\* path that retires it, and nothing it does afterwards brings any of it back.
RetiredIsErased ==
    \A p \in Plugins : e[p].retired /\ e[p].pc # "drop" =>
        ~e[p].live /\ ~e[p].enabled /\ ~e[p].scene

\* The watchdog kills no instance that kept its budget, however late its claim
\* lands behind the call it judged; only stop and unload end a call in time.
KillIsEarned ==
    \A p \in Plugins : e[p].terminated => e[p].overran \/ e[p].stopping

\* terminate reaches the instance whose call was seen: a restart does not put
\* another in its place between the look and the blow.
TerminateHitsItsTarget ==
    /\ wd.at \in {"claim", "kill"} => e[wd.p].gen = wd.gen
    /\ api.at \in {"terminate", "endcall"} => e[api.p].gen = api.gen

\* Behind unload and deinit no thread is in the instance or about to enter or
\* terminate it.
NothingAfterFree ==
    \A p \in Plugins : e[p].freed =>
        /\ e[p].pc = "none"
        /\ ~(wd.at \in {"judge", "claim", "kill"} /\ wd.p = p)

\* "SHUTDOWN is the last thing a plugin ever sees": not even a watchdog that
\* claims an earlier call while SHUTDOWN runs gets the plugin restarted.
ShutdownIsLast ==
    \A p \in Plugins : e[p].told =>
        /\ ~e[p].live
        /\ e[p].pc \notin {"restart", "instantiate", "config", "revive", "golive"}

\* A plugin that serves, with no settings event waiting and no configSet half
\* way.
Settled(p) ==
    /\ e[p].live /\ ~e[p].stopping
    /\ e[p].pc \in {"none", "env", "serve", "pop"}
    /\ ~(api.at = "config" /\ api.p = p)
    /\ \A i \in DOMAIN queue[p] : queue[p][i].kind # "config"

\* It has the settings the last accepted configSet left or newer ones, through
\* any number of faults and restarts.
SettingsInForce == \A p \in Plugins : Settled(p) => e[p].seen >= values[p].said

\* The registry JSON shows "the value in force", and the plugin "receives the
\* WHOLE config": what Settings shows is what the plugin runs with.
ShownIsInForce == \A p \in Plugins : Settled(p) => e[p].seen = values[p].v

\* When the host is gone, so is everything any plugin contributed: one that was
\* not told in the first stop is told in the second.
NothingLeftBehind == api.at = "end" => \A p \in Plugins : ~e[p].scene

\* A restart that was promised is tried, or the plugin is told to stop.
RestartIsTried ==
    \A p \in Plugins : e[p].restart_at ~> At(p, "instantiate") \/ e[p].stopping

\* A live plugin that hangs in an event or in its restart does not hang for
\* ever: the watchdog gets it out.
HangIsEnded ==
    \A p \in Plugins : At(p, "hung") /\ e[p].live ~> ~At(p, "hung")

\* "A plugin in a loop must not stop the app from closing, and a thread that
\* never returns cannot be joined."
StopReturns == api.at = "joins" ~> api.at = "end"

\* Dispatch, watchdog and API thread meet soundly: a kill is earned and reaches
\* the instance it was meant for, SHUTDOWN is the last event, the settings in
\* force survive a restart, and a plugin retired or gone leaves nothing behind.
DispatchIsSound ==
    /\ KillIsEarned /\ TerminateHitsItsTarget /\ ShutdownIsLast
    /\ SettingsInForce
    /\ RetiredIsErased /\ NothingLeftBehind

\* A plugin that fails comes back or is got out of the way: a promised restart
\* is tried, and a hang is ended.
PluginRecovers == RestartIsTried /\ HangIsEnded
===============================================================================
