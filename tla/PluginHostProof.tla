--------------------------- MODULE PluginHostProof ---------------------------
(***************************************************************************)
(* What holds of the plugin host for every set of plugins, every length of *)
(* the restart schedule and every bound: its types, the bound on restart   *)
(* attempts, that nothing touches an instance once it is freed, and that   *)
(* dispatch threads, watchdog and API thread meet soundly.                 *)
(*                                                                         *)
(* Two invariants carry it.  IInv holds the types, the restart allowance   *)
(* and the order of join, tombstone and free.  DInv, inductive beside it,  *)
(* says what each entry tells of itself (Sane), whom the watchdog may hit  *)
(* (Aimed, Dated), what unload and stop have told whom (Halted, Unborn,    *)
(* Cleared), and where the settings last accepted are (Informed).          *)
(***************************************************************************)
EXTENDS PluginHost, TLAPS

-------------------------------------------------------------------------------
(* The inductive invariant                                                   *)

\* The attempts begun since the last whole clean run are among those counted;
\* a promise, and a thread that waits on one, has an attempt left to spend.
Allowance(r) ==
    /\ r.tries <= r.restarts
    /\ r.clean = "whole" => r.tries = 0
    /\ r.restart_at => r.restarts < Attempts
    /\ r.pc \in {"backoff", "due", "restart"} => r.restarts < Attempts /\ ~r.restart_at

\* A thread handle outlives its thread; a tombstone has none.
Threaded(r) ==
    /\ ~r.thread => r.pc = "none"
    /\ r.removed => ~r.thread

Good(r) == r \in Entry /\ Allowance(r) /\ Threaded(r)

\* The types of everything but the entries.
Rest ==
    /\ queue \in [Plugins -> Seq(Events)]
    /\ values \in [Plugins -> Settings]
    /\ late \subseteq Plugins
    /\ wd \in [at : {"idle", "walk", "judge", "claim", "kill"},
               todo : SUBSET Plugins, p : Plugins \cup {NoPlugin}, gen : Nat]
    /\ api \in [at : {"idle", "spawn", "config", "wait", "grace", "terminate", "join",
                     "retire", "tombstone", "free", "tell", "halt", "lastcall",
                     "endcall", "joins", "iojoin", "inline", "end"},
                todo : SUBSET Plugins, p : Plugins \cup {NoPlugin}, gen : Nat]
    /\ started \in BOOLEAN
    /\ count \in [faults : 0..MaxFaults, events : 0..MaxEvents]

\* What the watchdog judges is no tombstone.
Watched == wd.at \in {"judge", "claim", "kill"} => wd.p \in Plugins /\ ~e[wd.p].removed

\* Unloading behind its join, and stopping behind each of its joins.
Unloaded ==
    /\ api.at \in {"retire", "tombstone", "free"} =>
         api.p \in Plugins /\ ~e[api.p].thread
    /\ api.at = "free" => e[api.p].removed

Stopped ==
    /\ api.at = "joins" => \A p \in Plugins \ api.todo : ~e[p].thread
    /\ api.at \in {"iojoin", "inline", "end"} => \A p \in Plugins : ~e[p].thread
    /\ api.at \in {"iojoin", "inline", "end"} => ~started
    /\ api.at \in {"inline", "end"} => wd.at = "idle"

Buried == \A p \in Plugins : e[p].freed => e[p].removed \/ api.at = "end"

Entries == e \in [Plugins -> Entry] /\ \A p \in Plugins : Good(e[p])

IInv == Rest /\ Entries /\ Watched /\ Unloaded /\ Stopped /\ Buried

USE HostBounds

-------------------------------------------------------------------------------
(* A step of p's own thread                                                  *)

\* The entry keeps its counters, its thread and its grave.
Like(r, s) ==
    /\ s.tries = r.tries /\ s.restarts = r.restarts /\ s.clean = r.clean
    /\ s.restart_at => r.restart_at
    /\ s.thread = r.thread /\ s.removed = r.removed /\ s.freed = r.freed

Calm == Places \ {"backoff", "due", "restart"}

\* An entry with a running thread stays good wherever the thread goes, unless
\* it goes to wait.
LEMMA GoodMove ==
  ASSUME NEW r, Good(r), r.pc # "none",
         NEW s \in Entry, Like(r, s), NEW place \in Calm
  PROVE  Good([s EXCEPT !.pc = place])
<1> DEFINE n == [s EXCEPT !.pc = place]
<1>1. n \in Entry /\ n.pc = place /\ Like(r, n)
  BY DEF Entry, Like, Calm
<1>2. Allowance(n)
  BY <1>1 DEF Good, Allowance, Like, Calm, Entry
<1>3. Threaded(n)
  BY <1>1 DEF Good, Threaded, Like
<1> QED BY <1>1, <1>2, <1>3 DEF Good

\* A step that changes p's entry alone, and neither its thread nor its grave,
\* keeps what is said of the watchdog and the API thread.
LEMMA OwnStep ==
  ASSUME IInv, NEW p \in Plugins, NEW s, Good(s),
         s.thread = e[p].thread, s.removed = e[p].removed, s.freed = e[p].freed,
         e' = [e EXCEPT ![p] = s], UNCHANGED <<wd, api, started>>, Rest'
  PROVE  IInv'
<1>1. Entries'
  BY DEF IInv, Entries, Good
<1>2. /\ \A q \in Plugins : e'[q].thread = e[q].thread
      /\ \A q \in Plugins : e'[q].removed = e[q].removed
      /\ \A q \in Plugins : e'[q].freed = e[q].freed
  BY DEF IInv, Entries
<1>3. Watched' /\ Buried'
  BY <1>2 DEF IInv, Watched, Buried
<1>4. Unloaded'
  BY DEF IInv, Unloaded, Entries
<1>5. Stopped'
  BY <1>2 DEF IInv, Stopped
<1> QED BY <1>1, <1>3, <1>4, <1>5 DEF IInv

\* A thread that goes on, with its record changed only where Like allows.
LEMMA MoveStep ==
  ASSUME IInv, NEW p \in Plugins, e[p].pc # "none",
         NEW s \in Entry, Like(e[p], s), NEW place \in Calm, Move(p, s, place),
         UNCHANGED <<wd, api, started>>, Rest'
  PROVE  IInv'
<1> DEFINE n == [s EXCEPT !.pc = place]
<1>1. Good(n)
  BY GoodMove DEF IInv, Entries
<1>2. n.thread = e[p].thread /\ n.removed = e[p].removed /\ n.freed = e[p].freed
  BY DEF Entry, Like
<1>3. e' = [e EXCEPT ![p] = n]
  BY DEF Move
<1> HIDE DEF n
<1> QED BY <1>1, <1>2, <1>3, OwnStep

\* The same, for a step that touches nothing but p's own entry.
LEMMA RunStep ==
  ASSUME IInv, NEW p \in Plugins, e[p].pc # "none",
         NEW s \in Entry, Like(e[p], s), NEW place \in Calm, Run(p, s, place)
  PROVE  IInv'
<1>1. Rest'
  BY DEF IInv, Rest, Run
<1> QED BY <1>1, MoveStep DEF Run

\* A thread that goes on without a change to its entry.
LEMMA RunToStep ==
  ASSUME IInv, NEW p \in Plugins, e[p].pc # "none", NEW place \in Calm, RunTo(p, place)
  PROVE  IInv'
<1>1. e[p] \in Entry /\ Like(e[p], e[p])
  BY DEF IInv, Entries, Good, Like
<1> QED BY <1>1, RunStep DEF RunTo

\* The steps that only move the thread keep IInv.
LEMMA SimpleRuns ==
  ASSUME IInv, NEW p \in Plugins,
         \/ EnvOk(p) \/ Serve(p) \/ Trapped(p)
  PROVE  IInv'
<1>1. CASE EnvOk(p)
  BY <1>1, RunToStep DEF EnvOk, At, Calm, Places
<1>2. CASE Serve(p)
  BY <1>2, RunToStep DEF Serve, At, Calm, Places
<1>3. CASE Trapped(p)
  BY <1>3, RunToStep DEF Trapped, At, Calm, Places
<1> QED BY <1>1, <1>2, <1>3

\* The entry before a step is one, and its thread is where the step finds it.
LEMMA EntryOf ==
  ASSUME IInv, NEW p \in Plugins
  PROVE  /\ e[p] \in Entry /\ Like(e[p], e[p])
         /\ values[p] \in Settings /\ values[p].v \in 0..MaxConfigs
         /\ e[p].cur \in Events /\ e[p].cur.v \in 0..MaxConfigs
<1>1. e[p] \in Entry /\ values[p] \in Settings
  BY DEF IInv, Entries, Good, Rest
<1> QED BY <1>1 DEF Entry, Events, Like, Settings

\* A fault and a message have their types.
LEMMA FaultCounts ==
  ASSUME IInv, Fault
  PROVE  count' \in [faults : 0..MaxFaults, events : 0..MaxEvents]
<1>1. count.faults \in 0..MaxFaults /\ count.events \in 0..MaxEvents
  BY DEF IInv, Rest
<1>2. count.faults + 1 \in 0..MaxFaults
  BY <1>1 DEF Fault
<1>3. count \in [faults : 0..MaxFaults, events : 0..MaxEvents]
  BY DEF IInv, Rest
<1> QED BY <1>2, <1>3 DEF Fault

\* Ev makes an event.
LEMMA EvType ==
  ASSUME NEW kind \in Kinds, NEW v \in 0..MaxConfigs
  PROVE  Ev(kind, v) \in Events
  BY DEF Ev, Events

\* What the steps write into an entry leaves it one.
LEMMA Writes ==
  ASSUME NEW r \in Entry
  PROVE  /\ [r EXCEPT !.live = TRUE] \in Entry
         /\ [r EXCEPT !.live = FALSE, !.retired = TRUE] \in Entry
         /\ [r EXCEPT !.live = FALSE, !.told = TRUE] \in Entry
         /\ [r EXCEPT !.killed = FALSE, !.retired = FALSE, !.enabled = TRUE] \in Entry
         /\ [r EXCEPT !.clean = "fresh"] \in Entry
         /\ [r EXCEPT !.killed = TRUE] \in Entry
         /\ [r EXCEPT !.terminated = TRUE] \in Entry
         /\ [r EXCEPT !.stopping = TRUE] \in Entry
         /\ [r EXCEPT !.stopping = FALSE] \in Entry
         /\ [r EXCEPT !.freed = TRUE] \in Entry
         /\ [r EXCEPT !.removed = TRUE] \in Entry
         /\ [r EXCEPT !.live = FALSE] \in Entry
         /\ [r EXCEPT !.told = TRUE] \in Entry
         /\ [r EXCEPT !.thread = FALSE, !.pc = "none"] \in Entry
         /\ [r EXCEPT !.stopping = FALSE, !.thread = TRUE] \in Entry
         /\ [r EXCEPT !.clean = "whole", !.tries = 0] \in Entry
         /\ Fresh(r) \in Entry
         /\ Dropped(r) \in Entry
<1>1. [r EXCEPT !.live = FALSE, !.told = TRUE] \in Entry
  BY DEF Entry
<1>2. [r EXCEPT !.killed = FALSE, !.retired = FALSE, !.enabled = TRUE] \in Entry
  BY DEF Entry
<1>3. [r EXCEPT !.gen = @ + 1, !.terminated = FALSE, !.overran = FALSE] \in Entry
  <2>1. r.gen + 1 \in Nat
    BY DEF Entry
  <2> QED BY <2>1 DEF Entry
<1>4. [r EXCEPT !.live = FALSE, !.retired = TRUE, !.enabled = FALSE, !.scene = FALSE] \in Entry
  BY DEF Entry
<1>5. [r EXCEPT !.live = TRUE] \in Entry
  BY DEF Entry
<1>6. [r EXCEPT !.live = FALSE, !.retired = TRUE] \in Entry
  BY DEF Entry
<1>7. [r EXCEPT !.clean = "fresh"] \in Entry
  BY DEF Entry
<1>8. [r EXCEPT !.clean = "whole", !.tries = 0] \in Entry
  BY DEF Entry
<1>9. /\ [r EXCEPT !.killed = TRUE] \in Entry
      /\ [r EXCEPT !.terminated = TRUE] \in Entry
      /\ [r EXCEPT !.stopping = TRUE] \in Entry
      /\ [r EXCEPT !.stopping = FALSE] \in Entry
  BY DEF Entry
<1>10. /\ [r EXCEPT !.freed = TRUE] \in Entry
       /\ [r EXCEPT !.removed = TRUE] \in Entry
       /\ [r EXCEPT !.live = FALSE] \in Entry
       /\ [r EXCEPT !.told = TRUE] \in Entry
  BY DEF Entry
<1>11. [r EXCEPT !.thread = FALSE, !.pc = "none"] \in Entry
  BY DEF Entry, Places
<1>12. [r EXCEPT !.stopping = FALSE, !.thread = TRUE] \in Entry
  BY DEF Entry
<1> QED BY <1>1, <1>2, <1>3, <1>4, <1>5, <1>6, <1>7, <1>8, <1>9, <1>10, <1>11,
           <1>12 DEF Fresh, Dropped

\* An event in hand is all that changes in the record that takes it.
LEMMA InHand ==
  ASSUME NEW r \in Entry, NEW ev \in Events
  PROVE  [r EXCEPT !.cur = ev] \in Entry
  BY DEF Entry

\* A module that took settings knows a version of them.
LEMMA KnowsIt ==
  ASSUME NEW r \in Entry, NEW v \in 0..MaxConfigs
  PROVE  [r EXCEPT !.entered = "out", !.seen = v] \in Entry
  BY DEF Entry

\* Taking SHUTDOWN in hand puts the plugin out of service and no more.
LEMMA DeliverStep == ASSUME IInv, NEW p \in Plugins, Deliver(p) PROVE IInv'
<1> DEFINE s == IF e[p].cur.kind = "shutdown"
                THEN [e[p] EXCEPT !.live = FALSE, !.told = TRUE] ELSE e[p]
<1>0. s \in Entry
  BY EntryOf, Writes
<1>1. Like(e[p], s)
  BY EntryOf DEF Entry, Like
<1>2. e[p].pc # "none" /\ Run(p, s, "stamp")
  BY DEF Deliver, At
<1>3. "stamp" \in Calm
  BY DEF Calm, Places
<1> HIDE DEF s
<1> QED BY <1>0, <1>1, <1>2, <1>3, RunStep

\* A killed plugin goes to retire with its counters as they were.
LEMMA StuckStep == ASSUME IInv, NEW p \in Plugins, Stuck(p) PROVE IInv'
<1> DEFINE s == [e[p] EXCEPT !.cur = Ev("stuck", 0)]
<1>0. s \in Entry
  <2>1. Ev("stuck", 0) \in Events
    BY EvType DEF Kinds
  <2> QED BY <2>1, EntryOf, InHand
<1>1. Like(e[p], s)
  BY EntryOf DEF Entry, Like
<1>2. e[p].pc # "none" /\ Run(p, s, "retire")
  BY DEF Stuck, At
<1>3. "retire" \in Calm
  BY DEF Calm, Places
<1> HIDE DEF s
<1> QED BY <1>0, <1>1, <1>2, <1>3, RunStep

\* retire touches neither the allowance nor the thread.
LEMMA RetireStep == ASSUME IInv, NEW p \in Plugins, Retire(p) PROVE IInv'
<1> DEFINE s == [e[p] EXCEPT !.live = FALSE, !.retired = TRUE]
<1>0. s \in Entry
  BY EntryOf, Writes
<1>1. Like(e[p], s)
  BY EntryOf DEF Entry, Like
<1>2. e[p].pc # "none" /\ Run(p, s, (IF e[p].retired THEN Afterwards(p) ELSE "drop"))
  BY DEF Retire, At
<1>3. (IF e[p].retired THEN Afterwards(p) ELSE "drop") \in Calm
  BY DEF Calm, Places, Afterwards
<1> HIDE DEF s
<1> QED BY <1>0, <1>1, <1>2, <1>3, RunStep

\* A new instance changes nothing the invariant counts.
LEMMA SwapStep == ASSUME IInv, NEW p \in Plugins, Swap(p) PROVE IInv'
<1> DEFINE s == Fresh(e[p])
<1>0. s \in Entry
  BY EntryOf, Writes
<1>1. Like(e[p], s)
  BY EntryOf DEF Entry, Like, Fresh
<1>2. e[p].pc # "none" /\ Run(p, s, "config")
  BY DEF Swap, At
<1>3. "config" \in Calm
  BY DEF Calm, Places
<1> HIDE DEF s
<1> QED BY <1>0, <1>1, <1>2, <1>3, RunStep

\* The config JSON handed to lk_start is a version of the settings.
LEMMA ConfigStep == ASSUME IInv, NEW p \in Plugins, Config(p) PROVE IInv'
<1> DEFINE s == [e[p] EXCEPT !.cur = Ev("start", values[p].v)]
<1>0. s \in Entry
  <2>1. Ev("start", values[p].v) \in Events
    BY EntryOf, EvType DEF Kinds
  <2> QED BY <2>1, EntryOf, InHand
<1>1. Like(e[p], s)
  BY EntryOf DEF Entry, Like
<1>2. e[p].pc # "none" /\ Run(p, s, "revive")
  BY DEF Config, At
<1>3. "revive" \in Calm
  BY DEF Calm, Places
<1> HIDE DEF s
<1> QED BY <1>0, <1>1, <1>2, <1>3, RunStep

\* A revived plugin keeps its spent attempts.
LEMMA ReviveStep == ASSUME IInv, NEW p \in Plugins, Revive(p) PROVE IInv'
<1> DEFINE s == [e[p] EXCEPT !.killed = FALSE, !.retired = FALSE, !.enabled = TRUE]
<1>0. s \in Entry
  BY EntryOf, Writes
<1>1. Like(e[p], s)
  BY EntryOf DEF Entry, Like
<1>2. e[p].pc # "none" /\ Run(p, s, "golive")
  BY DEF Revive, At
<1>3. "golive" \in Calm
  BY DEF Calm, Places
<1> HIDE DEF s
<1> QED BY <1>0, <1>1, <1>2, <1>3, RunStep

\* Going live again keeps the spent attempts.
LEMMA GoLiveStep == ASSUME IInv, NEW p \in Plugins, GoLive(p) PROVE IInv'
<1> DEFINE s == [e[p] EXCEPT !.live = TRUE]
<1>0. s \in Entry
  BY EntryOf, Writes
<1>1. Like(e[p], s)
  BY EntryOf DEF Entry, Like
<1>2. e[p].pc # "none" /\ Run(p, s, "stamp")
  BY DEF GoLive, At
<1>3. "stamp" \in Calm
  BY DEF Calm, Places
<1> HIDE DEF s
<1> QED BY <1>0, <1>1, <1>2, <1>3, RunStep

\* A call that returns leaves the allowance alone.
LEMMA ReturnStep == ASSUME IInv, NEW p \in Plugins, Return(p) PROVE IInv'
<1> DEFINE s == [e[p] EXCEPT !.entered = "out",
                   !.seen = IF e[p].cur.kind \in {"config", "start"}
                            THEN e[p].cur.v ELSE @]
<1>0. s \in Entry
  <2>1. (IF e[p].cur.kind \in {"config", "start"} THEN e[p].cur.v ELSE e[p].seen) \in 0..MaxConfigs
    BY EntryOf DEF Entry
  <2> QED BY <2>1, EntryOf, KnowsIt
<1>1. Like(e[p], s)
  BY EntryOf DEF Entry, Like
<1>2. e[p].pc # "none" /\ Run(p, s, (IF e[p].cur.kind = "shutdown" THEN "retire"
                            ELSE IF e[p].cur.kind = "start" THEN "up" ELSE "serve"))
  BY DEF Return, At
<1>3. (IF e[p].cur.kind = "shutdown" THEN "retire"
                            ELSE IF e[p].cur.kind = "start" THEN "up" ELSE "serve") \in Calm
  BY DEF Calm, Places
<1> HIDE DEF s
<1> QED BY <1>0, <1>1, <1>2, <1>3, RunStep

\* A thread that cannot enter the module ends, its handle kept.
LEMMA EnvFailsStep == ASSUME IInv, NEW p \in Plugins, EnvFails(p) PROVE IInv'
<1> DEFINE s == e[p]
<1>0. s \in Entry
  BY EntryOf DEF Entry
<1>1. Like(e[p], s)
  BY EntryOf DEF Entry, Like
<1>2. /\ e[p].pc # "none"
      /\ Move(p, s, "gone")
      /\ UNCHANGED <<wd, api, started>>
  BY DEF EnvFails, At, Goto
<1>3. "gone" \in Calm
  BY DEF Calm, Places
<1>4. Rest'
  BY FaultCounts DEF IInv, Rest, EnvFails
<1> HIDE DEF s
<1> QED BY <1>0, <1>1, <1>2, <1>3, <1>4, MoveStep

\* The stamp and the tick's clock are bookkeeping to the invariant.
LEMMA StampStep == ASSUME IInv, NEW p \in Plugins, Stamp(p) PROVE IInv'
<1> DEFINE s == [e[p] EXCEPT !.entered = "in"]
<1>0. s \in Entry
  BY EntryOf DEF Entry
<1>1. Like(e[p], s)
  BY EntryOf DEF Entry, Like
<1>2. /\ e[p].pc # "none"
      /\ Move(p, s, "call")
      /\ UNCHANGED <<wd, api, started>>
  BY DEF Stamp, At
<1>3. "call" \in Calm
  BY DEF Calm, Places
<1>4. Rest'
  BY DEF IInv, Rest, Stamp
<1> HIDE DEF s
<1> QED BY <1>0, <1>1, <1>2, <1>3, <1>4, MoveStep

\* A refused start keeps the attempt spent.
LEMMA RefuseStep == ASSUME IInv, NEW p \in Plugins, Refuse(p) PROVE IInv'
<1> DEFINE s == [e[p] EXCEPT !.entered = "out"]
<1>0. s \in Entry
  BY EntryOf DEF Entry
<1>1. Like(e[p], s)
  BY EntryOf DEF Entry, Like
<1>2. /\ e[p].pc # "none"
      /\ Move(p, s, "retire")
      /\ UNCHANGED <<wd, api, started>>
  BY DEF Refuse, At
<1>3. "retire" \in Calm
  BY DEF Calm, Places
<1>4. Rest'
  BY FaultCounts DEF IInv, Rest, Refuse
<1> HIDE DEF s
<1> QED BY <1>0, <1>1, <1>2, <1>3, <1>4, MoveStep

\* A trap keeps the allowance as it was.
LEMMA TrapStep == ASSUME IInv, NEW p \in Plugins, Trap(p) PROVE IInv'
<1> DEFINE s == [e[p] EXCEPT !.entered = "out"]
<1>0. s \in Entry
  BY EntryOf DEF Entry
<1>1. Like(e[p], s)
  BY EntryOf DEF Entry, Like
<1>2. /\ e[p].pc # "none"
      /\ Move(p, s, "trapped")
      /\ UNCHANGED <<wd, api, started>>
  BY DEF Trap, At
<1>3. "trapped" \in Calm
  BY DEF Calm, Places
<1>4. Rest'
  BY FaultCounts DEF IInv, Rest, Trap
<1> HIDE DEF s
<1> QED BY <1>0, <1>1, <1>2, <1>3, <1>4, MoveStep

\* A hang keeps the allowance as it was.
LEMMA HangStep == ASSUME IInv, NEW p \in Plugins, Hang(p) PROVE IInv'
<1> DEFINE s == e[p]
<1>0. s \in Entry
  BY EntryOf DEF Entry
<1>1. Like(e[p], s)
  BY EntryOf DEF Entry, Like
<1>2. /\ e[p].pc # "none"
      /\ Move(p, s, "hung")
      /\ UNCHANGED <<wd, api, started>>
  BY DEF Hang, At, Goto
<1>3. "hung" \in Calm
  BY DEF Calm, Places
<1>4. Rest'
  BY FaultCounts DEF IInv, Rest, Hang
<1> HIDE DEF s
<1> QED BY <1>0, <1>1, <1>2, <1>3, <1>4, MoveStep

\* dropPlugin erases and empties the queue, and counts nothing.
LEMMA DropStep == ASSUME IInv, NEW p \in Plugins, Drop(p) PROVE IInv'
<1> DEFINE s == Dropped(e[p])
<1>0. s \in Entry
  BY EntryOf, Writes
<1>1. Like(e[p], s)
  BY EntryOf DEF Entry, Like, Dropped
<1>2. /\ e[p].pc # "none"
      /\ Move(p, s, Afterwards(p))
      /\ UNCHANGED <<wd, api, started>>
  BY DEF Drop, At
<1>3. Afterwards(p) \in Calm
  BY DEF Calm, Places, Afterwards
<1>4. Rest'
  BY DEF IInv, Rest, Drop
<1> HIDE DEF s
<1> QED BY <1>0, <1>1, <1>2, <1>3, <1>4, MoveStep

\* giveUp withdraws the promise and hands no attempt back.
LEMMA GiveUpStep == ASSUME IInv, NEW p \in Plugins, GiveUp(p) PROVE IInv'
<1> DEFINE s == [e[p] EXCEPT !.restart_at = FALSE]
<1>0. s \in Entry
  BY EntryOf DEF Entry
<1>1. Like(e[p], s)
  BY EntryOf DEF Entry, Like
<1>2. /\ e[p].pc # "none"
      /\ Move(p, s, "serve")
      /\ UNCHANGED <<wd, api, started>>
  BY DEF GiveUp, At
<1>3. "serve" \in Calm
  BY DEF Calm, Places
<1>4. Rest'
  BY FaultCounts DEF IInv, Rest, GiveUp
<1> HIDE DEF s
<1> QED BY <1>0, <1>1, <1>2, <1>3, <1>4, MoveStep

\* A thread that ends for good empties its queue.
LEMMA ClearStep == ASSUME IInv, NEW p \in Plugins, Clear(p) PROVE IInv'
<1> DEFINE s == e[p]
<1>0. s \in Entry
  BY EntryOf DEF Entry
<1>1. Like(e[p], s)
  BY EntryOf DEF Entry, Like
<1>2. /\ e[p].pc # "none"
      /\ Move(p, s, "gone")
      /\ UNCHANGED <<wd, api, started>>
  BY DEF Clear, At, Goto
<1>3. "gone" \in Calm
  BY DEF Calm, Places
<1>4. Rest'
  BY DEF IInv, Rest, Clear
<1> HIDE DEF s
<1> QED BY <1>0, <1>1, <1>2, <1>3, <1>4, MoveStep

\* popFor hands over the head of the queue, or nothing.
LEMMA PopStep == ASSUME IInv, NEW p \in Plugins, Pop(p) PROVE IInv'
<1>1. /\ e[p].pc # "none" /\ UNCHANGED <<wd, api, started>>
      /\ {"serve", "deliver"} \subseteq Calm
  BY DEF Pop, At, Calm, Places
<1>2. queue[p] \in Seq(Events) /\ queue \in [Plugins -> Seq(Events)]
  BY DEF IInv, Rest
<1>3. CASE queue[p] = <<>>
  <2>1. Rest'
    BY <1>3 DEF IInv, Rest, Pop
  <2> QED BY <1>1, <1>3, <2>1, EntryOf, MoveStep DEF Pop, Goto
<1>4. CASE queue[p] # <<>>
  <2> DEFINE s == [e[p] EXCEPT !.cur = Head(queue[p])]
  <2>1. Head(queue[p]) \in Events /\ Tail(queue[p]) \in Seq(Events)
    BY <1>2, <1>4
  <2>2. s \in Entry
    BY <2>1, EntryOf, InHand
  <2>3. Like(e[p], s)
    BY EntryOf DEF Entry, Like
  <2>4. queue' \in [Plugins -> Seq(Events)]
    BY <1>2, <1>4, <2>1 DEF Pop
  <2>5. Rest'
    BY <2>4 DEF IInv, Rest, Pop
  <2>6. Move(p, s, "deliver")
    BY <1>4 DEF Pop
  <2> HIDE DEF s
  <2> QED BY <1>1, <2>2, <2>3, <2>5, <2>6, MoveStep
<1> QED BY <1>3, <1>4

\* An entry that stays in its place stays good.
LEMMA GoodStay ==
  ASSUME NEW r, Good(r), NEW s \in Entry, Like(r, s), s.pc = r.pc
  PROVE  Good(s)
<1>1. Allowance(s)
  BY DEF Good, Allowance, Like, Entry
<1>2. Threaded(s)
  BY DEF Good, Threaded, Like
<1> QED BY <1>1, <1>2 DEF Good

\* A step that changes p's record and leaves its thread where it is.
LEMMA StayStep ==
  ASSUME IInv, NEW p \in Plugins, NEW s \in Entry, Like(e[p], s), s.pc = e[p].pc,
         e' = [e EXCEPT ![p] = s], UNCHANGED <<wd, api, started>>, Rest'
  PROVE  IInv'
<1>1. Good(s)
  BY GoodStay DEF IInv, Entries
<1> QED BY <1>1, OwnStep DEF Like

\* What the module draws is not what the invariant counts.
LEMMA ContributeStep == ASSUME IInv, NEW p \in Plugins, Contribute(p) PROVE IInv'
<1> DEFINE s == [e[p] EXCEPT !.scene = TRUE]
<1>1. s \in Entry
  BY EntryOf DEF Entry
<1>2. Like(e[p], s) /\ s.pc = e[p].pc
  BY EntryOf DEF Entry, Like
<1>3. e' = [e EXCEPT ![p] = s] /\ UNCHANGED <<wd, api, started>> /\ Rest'
  BY DEF Contribute, IInv, Rest
<1> HIDE DEF s
<1> QED BY <1>1, <1>2, <1>3, StayStep

\* A call over its budget keeps the allowance as it was.
LEMMA OverrunStep == ASSUME IInv, NEW p \in Plugins, Overrun(p) PROVE IInv'
<1> DEFINE s == [e[p] EXCEPT !.entered = "over", !.overran = TRUE]
<1>1. s \in Entry
  BY EntryOf DEF Entry
<1>2. Like(e[p], s) /\ s.pc = e[p].pc
  BY EntryOf DEF Entry, Like
<1>3. e' = [e EXCEPT ![p] = s] /\ UNCHANGED <<wd, api, started>>
  BY DEF Overrun, IInv, Entries
<1>4. Rest'
  <2>1. count' \in [faults : 0..MaxFaults, events : 0..MaxEvents]
    BY FaultCounts DEF Overrun, IInv, Rest
  <2> QED BY <2>1 DEF Overrun, IInv, Rest
<1> HIDE DEF s
<1> QED BY <1>1, <1>2, <1>3, <1>4, StayStep

\* An append to one queue keeps the type of all.
LEMMA PutType ==
  ASSUME IInv, NEW p \in Plugins, NEW ev \in Events, Put(p, ev)
  PROVE  queue' \in [Plugins -> Seq(Events)]
<1>1. queue \in [Plugins -> Seq(Events)] /\ queue[p] \in Seq(Events)
  BY DEF IInv, Rest
<1>2. Append(queue[p], ev) \in Seq(Events)
  BY <1>1
<1> QED BY <1>1, <1>2 DEF Put

\* Coming up starts a clean run and queues the grants.
LEMMA UpStep == ASSUME IInv, NEW p \in Plugins, Up(p) PROVE IInv'
<1> DEFINE s == [[e[p] EXCEPT !.clean = "fresh"] EXCEPT !.pc = "serve"]
<1>1. s \in Entry
  <2> DEFINE r == [e[p] EXCEPT !.clean = "fresh"]
  <2>1. r \in Entry /\ "serve" \in Places
    BY EntryOf, Writes DEF Places
  <2> HIDE DEF r
  <2>2. [r EXCEPT !.pc = "serve"] \in Entry
    BY <2>1 DEF Entry
  <2> QED BY <2>2 DEF r
<1>2. /\ s.tries = e[p].tries /\ s.restarts = e[p].restarts /\ s.clean = "fresh"
      /\ s.restart_at = e[p].restart_at /\ s.pc = "serve"
      /\ s.thread = e[p].thread /\ s.removed = e[p].removed /\ s.freed = e[p].freed
  BY EntryOf DEF Entry
<1>3. Good(e[p]) /\ e[p].pc = "up"
  BY DEF IInv, Entries, Up, At
<1>4. Allowance(s) /\ Threaded(s)
  BY <1>2, <1>3 DEF Good, Allowance, Threaded
<1>5. e' = [e EXCEPT ![p] = s] /\ UNCHANGED <<wd, api, started>>
  BY DEF Up, Move
<1>6. Ev("grants", 0) \in Events
  BY EvType DEF Kinds
<1>7. Rest'
  BY <1>6, PutType DEF Up, IInv, Rest
<1> HIDE DEF s
<1> QED BY <1>1, <1>2, <1>4, <1>5, <1>7, OwnStep DEF Good

\* Only a whole clean run forgets the attempts begun.
LEMMA CleanRunStep == ASSUME IInv, NEW p \in Plugins, CleanRun(p) PROVE IInv'
<1> DEFINE s == [e[p] EXCEPT !.clean = "whole", !.tries = 0]
<1>1. s \in Entry
  BY EntryOf, Writes
<1>2. /\ s.tries = 0 /\ s.restarts = e[p].restarts
      /\ s.restart_at = e[p].restart_at /\ s.pc = e[p].pc
      /\ s.thread = e[p].thread /\ s.removed = e[p].removed /\ s.freed = e[p].freed
  BY EntryOf DEF Entry
<1>3. Good(e[p]) /\ e[p].restarts \in Nat
  BY EntryOf DEF IInv, Entries, Entry
<1>4. Allowance(s) /\ Threaded(s)
  BY <1>2, <1>3 DEF Good, Allowance, Threaded
<1>5. e' = [e EXCEPT ![p] = s] /\ UNCHANGED <<wd, api, started>> /\ Rest'
  BY DEF CleanRun, IInv, Rest, Entries
<1> HIDE DEF s
<1> QED BY <1>1, <1>2, <1>4, <1>5, OwnStep DEF Good

\* The steps that spend and give back attempts, and that wait on a promise.
LEMMA LeaveStep == ASSUME IInv, NEW p \in Plugins, Leave(p) PROVE IInv'
<1> DEFINE place == IF e[p].restart_at THEN "backoff" ELSE "clear"
           s == [[e[p] EXCEPT !.restart_at = FALSE] EXCEPT !.pc = place]
<1>1. s \in Entry
  <2> DEFINE r == [e[p] EXCEPT !.restart_at = FALSE]
  <2>1. r \in Entry
    BY EntryOf DEF Entry
  <2>2. place \in Places
    BY DEF Places
  <2> HIDE DEF r, place
  <2>3. [r EXCEPT !.pc = place] \in Entry
    BY <2>1, <2>2 DEF Entry
  <2> QED BY <2>3 DEF r
<1>2. /\ s.tries = e[p].tries /\ s.restarts = e[p].restarts /\ s.clean = e[p].clean
      /\ ~s.restart_at /\ s.pc = place
      /\ s.thread = e[p].thread /\ s.removed = e[p].removed /\ s.freed = e[p].freed
  BY EntryOf DEF Entry
<1>3. Good(e[p]) /\ e[p].pc = "leave"
  BY DEF IInv, Entries, Leave, At
<1>4. Allowance(s) /\ Threaded(s)
  BY <1>2, <1>3 DEF Good, Allowance, Threaded
<1>5. e' = [e EXCEPT ![p] = s] /\ UNCHANGED <<wd, api, started>> /\ Rest'
  BY DEF Leave, Run, Move, IInv, Rest
<1> HIDE DEF s
<1> QED BY <1>1, <1>2, <1>4, <1>5, OwnStep DEF Good

\* A thread at the backoff, or past it, still has an attempt to spend.
LEMMA WaitStep ==
  ASSUME IInv, NEW p \in Plugins, Backoff(p) \/ Due(p)
  PROVE  IInv'
<1> DEFINE place == IF Backoff(p) THEN "due"
                    ELSE IF e[p].stopping THEN "clear" ELSE "restart"
           s == [e[p] EXCEPT !.pc = place]
<1>1. s \in Entry
  BY EntryOf DEF Entry, Places
<1>2. /\ s.tries = e[p].tries /\ s.restarts = e[p].restarts /\ s.clean = e[p].clean
      /\ s.restart_at = e[p].restart_at /\ s.pc = place
      /\ s.thread = e[p].thread /\ s.removed = e[p].removed /\ s.freed = e[p].freed
  BY EntryOf DEF Entry
<1>3. Good(e[p]) /\ e[p].pc \in {"backoff", "due"}
  BY DEF IInv, Entries, Backoff, Due, At
<1>4. Allowance(s) /\ Threaded(s)
  BY <1>2, <1>3 DEF Good, Allowance, Threaded
<1>5. e' = [e EXCEPT ![p] = s] /\ UNCHANGED <<wd, api, started>> /\ Rest'
  BY DEF Backoff, Due, At, RunTo, Run, Move, IInv, Rest
<1> HIDE DEF s
<1> QED BY <1>1, <1>2, <1>4, <1>5, OwnStep DEF Good

\* The attempt that begins is counted, and there was one to count.
LEMMA BeginStep == ASSUME IInv, NEW p \in Plugins, Begin(p) PROVE IInv'
<1> DEFINE s == [[e[p] EXCEPT !.restarts = @ + 1, !.tries = @ + 1, !.clean = "none"]
                 EXCEPT !.pc = "instantiate"]
<1>1. Good(e[p]) /\ e[p] \in Entry /\ e[p].pc = "restart"
  BY DEF IInv, Entries, Good, Begin, At
<1>2. e[p].restarts + 1 \in 0..Attempts /\ e[p].tries + 1 \in Nat
  BY <1>1 DEF Good, Allowance, Entry
<1>3. s \in Entry
  BY <1>1, <1>2 DEF Entry, Places
<1>4. /\ s.tries = e[p].tries + 1 /\ s.restarts = e[p].restarts + 1
      /\ s.clean = "none" /\ s.restart_at = e[p].restart_at /\ s.pc = "instantiate"
      /\ s.thread = e[p].thread /\ s.removed = e[p].removed /\ s.freed = e[p].freed
  BY <1>1 DEF Entry
<1>5. ~e[p].restart_at /\ e[p].tries \in Nat /\ e[p].restarts \in Nat
  BY <1>1 DEF Good, Allowance, Entry
<1>6. Allowance(s) /\ Threaded(s)
  BY <1>1, <1>4, <1>5 DEF Good, Allowance, Threaded
<1>7. e' = [e EXCEPT ![p] = s] /\ UNCHANGED <<wd, api, started>> /\ Rest'
  BY DEF Begin, Run, Move, IInv, Rest
<1> HIDE DEF s
<1> QED BY <1>3, <1>4, <1>6, <1>7, OwnStep DEF Good

\* A promise is made only with an attempt left to spend.
LEMMA ScheduleStep == ASSUME IInv, NEW p \in Plugins, Schedule(p) PROVE IInv'
<1> DEFINE spent == IF AllowanceWhole(e[p]) THEN 0 ELSE e[p].restarts
           s == [[e[p] EXCEPT !.restarts = spent, !.restart_at = spent < Attempts]
                 EXCEPT !.pc = "serve"]
<1>1. Good(e[p]) /\ e[p] \in Entry /\ e[p].pc = "schedule"
  BY DEF IInv, Entries, Good, Schedule, At
<1>2. CASE e[p].stopping \/ Attempts = 0
  <2>1. Run(p, e[p], "serve") /\ "serve" \in Calm
    BY <1>2 DEF Schedule, Calm, Places
  <2> QED BY <1>1, <2>1, EntryOf, RunStep
<1>3. CASE ~(e[p].stopping \/ Attempts = 0)
  <2>1. spent \in 0..Attempts /\ (spent < Attempts) \in BOOLEAN
    BY <1>1 DEF Entry
  <2>2. e[p].tries <= spent
    BY <1>1 DEF Good, Allowance, AllowanceWhole
  <2> HIDE DEF spent
  <2>3. s \in Entry
    BY <1>1, <2>1 DEF Entry, Places
  <2>4. /\ s.tries = e[p].tries /\ s.restarts = spent /\ s.clean = e[p].clean
        /\ s.restart_at = (spent < Attempts) /\ s.pc = "serve"
        /\ s.thread = e[p].thread /\ s.removed = e[p].removed /\ s.freed = e[p].freed
    BY <1>1 DEF Entry
  <2>5. Allowance(s) /\ Threaded(s)
    BY <1>1, <2>2, <2>4 DEF Good, Allowance, Threaded
  <2>6. e' = [e EXCEPT ![p] = s] /\ UNCHANGED <<wd, api, started>> /\ Rest'
    BY <1>3 DEF Schedule, Run, Move, IInv, Rest, spent
  <2> HIDE DEF s
  <2> QED BY <2>3, <2>4, <2>5, <2>6, OwnStep DEF Good
<1> QED BY <1>2, <1>3

\* Every step of p's own thread and of its module keeps IInv.
LEMMA OwnSteps ==
  ASSUME IInv, NEW p \in Plugins, Dispatch(p) \/ Module(p) \/ Swap(p)
  PROVE  IInv'
<1>1. CASE Dispatch(p)
  BY <1>1, SimpleRuns, PopStep, DeliverStep, StampStep, StuckStep, RetireStep,
     DropStep, ScheduleStep, LeaveStep, WaitStep, BeginStep, ConfigStep,
     ReviveStep, GoLiveStep, UpStep, ClearStep DEF Dispatch
<1>2. CASE Module(p)
  BY <1>2, ContributeStep, ReturnStep, RefuseStep, TrapStep, HangStep DEF Module
<1> QED BY <1>1, <1>2, SwapStep

-------------------------------------------------------------------------------
(* The watchdog and the I/O thread                                           *)

\* No entry changes its thread or its grave.
SameGraves ==
    \A q \in Plugins : /\ e'[q].thread = e[q].thread
                       /\ e'[q].removed = e[q].removed
                       /\ e'[q].freed = e[q].freed

\* An entry that stays in its place, whatever else changes.
LEMMA Flagged ==
  ASSUME IInv, NEW p \in Plugins, NEW s \in Entry, Like(e[p], s), s.pc = e[p].pc,
         e' = [e EXCEPT ![p] = s]
  PROVE  Entries' /\ SameGraves
<1>1. Good(s)
  BY GoodStay DEF IInv, Entries
<1>2. Entries'
  BY <1>1 DEF IInv, Entries, Good
<1>3. SameGraves
  BY DEF IInv, Entries, SameGraves, Like
<1> QED BY <1>2, <1>3

\* Entries that do not change stay good.
LEMMA Still == ASSUME IInv, UNCHANGED e PROVE Entries' /\ SameGraves
  BY DEF IInv, Entries, SameGraves

\* A step of the watchdog: the API thread stands still.
LEMMA WatchStep ==
  ASSUME IInv, Entries', SameGraves, Rest', UNCHANGED <<api, started>>,
         Watched', wd'.at = "idle" \/ wd.at # "idle" \/ started
  PROVE  IInv'
<1>1. Unloaded'
  BY DEF IInv, Unloaded, SameGraves, Rest
<1>2. Stopped'
  BY DEF IInv, Stopped, SameGraves
<1>3. Buried'
  BY DEF IInv, Buried, SameGraves
<1> QED BY <1>1, <1>2, <1>3 DEF IInv

\* A tick reads the clock and opens the walk.
LEMMA TickStep == ASSUME IInv, Tick PROVE IInv'
<1>1. /\ UNCHANGED <<e, queue, values, api, started, count>> /\ started
      /\ wd' = [wd EXCEPT !.at = "walk", !.todo = Plugins] /\ late' \subseteq Plugins
  BY DEF Tick
<1>2. wd'.at = "walk" /\ Rest'
  BY <1>1 DEF IInv, Rest
<1>3. Watched'
  BY <1>2 DEF Watched
<1> QED BY <1>1, <1>2, <1>3, Still, WatchStep

\* The end of the walk gives the registry lock back.
LEMMA EndWalkStep == ASSUME IInv, EndWalk PROVE IInv'
<1>1. /\ UNCHANGED <<e, queue, values, late, api, started, count>>
      /\ wd' = [wd EXCEPT !.at = "idle"]
  BY DEF EndWalk
<1>2. wd'.at = "idle" /\ Rest'
  BY <1>1 DEF IInv, Rest
<1>3. Watched'
  BY <1>2 DEF Watched
<1> QED BY <1>1, <1>2, <1>3, Still, WatchStep

\* What the walk goes on to judge carries no tombstone.
LEMMA LookStep == ASSUME IInv, NEW p \in Plugins, Look(p) PROVE IInv'
<1> DEFINE at == IF e[p].removed \/ ~e[p].live THEN "walk" ELSE "judge"
<1>1. /\ UNCHANGED <<e, queue, values, late, api, started, count>>
      /\ wd' = [wd EXCEPT !.todo = @ \ {p}, !.at = at, !.p = p]
      /\ wd.at = "walk"
  BY DEF Look
<1>2. wd'.at = at /\ wd'.p = p /\ Rest'
  BY <1>1 DEF IInv, Rest
<1>3. Watched'
  BY <1>1, <1>2 DEF Watched
<1> QED BY <1>1, <1>2, <1>3, Still, WatchStep

\* Judging changes the watchdog alone.
LEMMA JudgeStep == ASSUME IInv, NEW p \in Plugins, Judge(p) PROVE IInv'
<1> DEFINE at == IF e[p].entered # "out" /\ p \in late THEN "claim" ELSE "walk"
<1>1. /\ UNCHANGED <<e, queue, values, late, api, started, count>>
      /\ wd' = [wd EXCEPT !.at = at, !.gen = e[p].gen]
      /\ wd.at = "judge" /\ wd.p = p
  BY DEF Judge
<1>2. e[p].gen \in Nat
  BY EntryOf DEF Entry
<1>3. wd'.p = p /\ Rest'
  BY <1>1, <1>2 DEF IInv, Rest
<1>4. Watched'
  BY <1>1, <1>3 DEF Watched, IInv
<1> QED BY <1>1, <1>3, <1>4, Still, WatchStep

\* A claimed kill is a flag in the entry.
LEMMA ClaimStep == ASSUME IInv, NEW p \in Plugins, Claim(p) PROVE IInv'
<1> DEFINE s == [e[p] EXCEPT !.killed = TRUE]
<1>1. s \in Entry
  BY EntryOf, Writes
<1>2. Like(e[p], s) /\ s.pc = e[p].pc
  BY EntryOf DEF Entry, Like
<1>3. /\ e' = [e EXCEPT ![p] = s] /\ UNCHANGED <<queue, values, late, api, started, count>>
      /\ wd' = [wd EXCEPT !.at = IF e[p].killed THEN "walk" ELSE "kill"]
      /\ wd.at = "claim" /\ wd.p = p
  BY DEF Claim, IInv, Entries
<1> HIDE DEF s
<1>4. Entries' /\ SameGraves
  BY <1>1, <1>2, <1>3, Flagged
<1>5. wd'.p = p /\ Rest'
  BY <1>3 DEF IInv, Rest
<1>6. Watched'
  BY <1>3, <1>4, <1>5 DEF Watched, IInv, SameGraves
<1> QED BY <1>3, <1>4, <1>5, <1>6, WatchStep

\* Terminating an instance is a flag in it.
LEMMA KillStep == ASSUME IInv, NEW p \in Plugins, Kill(p) PROVE IInv'
<1> DEFINE s == [e[p] EXCEPT !.terminated = TRUE]
<1>1. s \in Entry
  BY EntryOf, Writes
<1>2. Like(e[p], s) /\ s.pc = e[p].pc
  BY EntryOf DEF Entry, Like
<1>3. /\ e' = [e EXCEPT ![p] = s] /\ UNCHANGED <<queue, values, late, api, started, count>>
      /\ wd' = [wd EXCEPT !.at = "walk"]
      /\ wd.at = "kill" /\ wd.p = p
  BY DEF Kill, IInv, Entries
<1> HIDE DEF s
<1>4. Entries' /\ SameGraves
  BY <1>1, <1>2, <1>3, Flagged
<1>5. wd'.at = "walk" /\ Rest'
  BY <1>3 DEF IInv, Rest
<1>6. Watched'
  BY <1>5 DEF Watched
<1> QED BY <1>3, <1>4, <1>5, <1>6, WatchStep

\* An event from the I/O thread is one more in a queue.
LEMMA IoPushStep == ASSUME IInv, NEW p \in Plugins, IoPush(p) PROVE IInv'
<1>1. /\ UNCHANGED <<e, values, late, wd, api, started>>
      /\ Put(p, Ev("ev", 0)) /\ Ev("ev", 0) \in Events
      /\ count.events < MaxEvents /\ count' = [count EXCEPT !.events = @ + 1]
  BY EvType DEF IoPush, Kinds
<1>2. count' \in [faults : 0..MaxFaults, events : 0..MaxEvents]
  <2>1. count \in [faults : 0..MaxFaults, events : 0..MaxEvents]
    BY DEF IInv, Rest
  <2>2. count.events + 1 \in 0..MaxEvents
    BY <1>1, <2>1
  <2> QED BY <1>1, <2>1, <2>2
<1>3. Rest'
  BY <1>1, <1>2, PutType DEF IInv, Rest
<1>4. Watched'
  BY <1>1 DEF IInv, Watched
<1> QED BY <1>1, <1>3, <1>4, Still, WatchStep

\* What the world does to p keeps IInv.
LEMMA WorldSteps ==
  ASSUME IInv, NEW p \in Plugins, World(p)
  PROVE  IInv'
  BY EnvFailsStep, GiveUpStep, OverrunStep, CleanRunStep, IoPushStep DEF World

\* Every step of the watchdog keeps IInv.
LEMMA WatchdogSteps == ASSUME IInv, Watchdog PROVE IInv'
  BY TickStep, EndWalkStep, LookStep, JudgeStep, ClaimStep, KillStep DEF Watchdog

-------------------------------------------------------------------------------
(* The API thread                                                            *)

\* A step to a place about which nothing is said, that leaves every thread.
LEMMA ApiStep ==
  ASSUME IInv, Entries', SameGraves, Rest', UNCHANGED wd,
         api'.at \notin {"retire", "tombstone", "free", "joins", "iojoin", "inline", "end"},
         api.at # "end"
  PROVE  IInv'
<1>1. Watched'
  BY DEF IInv, Watched, SameGraves
<1>2. Unloaded' /\ Stopped'
  BY DEF Unloaded, Stopped
<1>3. Buried'
  BY DEF IInv, Buried, SameGraves
<1> QED BY <1>1, <1>2, <1>3 DEF IInv

Quiet == {"idle", "spawn", "config", "wait", "grace", "terminate", "join", "tell",
          "halt", "lastcall", "endcall"}
Speaking == {"retire", "tombstone", "free", "joins", "iojoin", "inline", "end"}

\* The type of the API thread's record.
ApiRecords == [at : Quiet \cup Speaking, todo : SUBSET Plugins,
               p : Plugins \cup {NoPlugin}, gen : Nat]

\* An API record stays one when its place and its subject change.
LEMMA ApiType ==
  ASSUME NEW a \in ApiRecords, NEW at \in Quiet \cup Speaking, NEW T \in SUBSET Plugins,
         NEW p \in Plugins, NEW n \in Nat
  PROVE  /\ [a EXCEPT !.at = at] \in ApiRecords
         /\ [a EXCEPT !.at = at, !.todo = T] \in ApiRecords
         /\ [a EXCEPT !.at = at, !.p = p] \in ApiRecords
         /\ [a EXCEPT !.at = at, !.gen = n] \in ApiRecords
         /\ [a EXCEPT !.at = at, !.p = p, !.gen = n] \in ApiRecords
         /\ [a EXCEPT !.todo = @ \ {p}] \in ApiRecords
         /\ [a EXCEPT !.at = at, !.todo = @ \ {p}] \in ApiRecords
<1>1. [a EXCEPT !.at = at] \in ApiRecords
  BY DEF ApiRecords
<1>2. [a EXCEPT !.at = at, !.todo = T] \in ApiRecords
  BY DEF ApiRecords
<1>3. [a EXCEPT !.at = at, !.p = p] \in ApiRecords
  BY DEF ApiRecords
<1>4. [a EXCEPT !.at = at, !.gen = n] \in ApiRecords
  BY DEF ApiRecords
<1>5. [a EXCEPT !.at = at, !.p = p, !.gen = n] \in ApiRecords
  BY DEF ApiRecords
<1>6. a.todo \ {p} \in SUBSET Plugins
  BY DEF ApiRecords
<1>7. [a EXCEPT !.todo = @ \ {p}] \in ApiRecords
  BY <1>6 DEF ApiRecords
<1>8. [a EXCEPT !.at = at, !.todo = @ \ {p}] \in ApiRecords
  BY <1>6 DEF ApiRecords
<1> QED BY <1>1, <1>2, <1>3, <1>4, <1>5, <1>7, <1>8

\* The API thread's record has its type.
LEMMA ApiIsTyped == ASSUME IInv PROVE api \in ApiRecords
  BY DEF IInv, Rest, ApiRecords, Quiet, Speaking

\* The types a step of the API thread keeps when it moves only itself.
LEMMA RestStep ==
  ASSUME IInv, api' \in ApiRecords, started' \in BOOLEAN,
         UNCHANGED <<late, wd>>, queue' \in [Plugins -> Seq(Events)],
         values' \in [Plugins -> Settings],
         count' \in [faults : 0..MaxFaults, events : 0..MaxEvents]
  PROVE  Rest'
  BY DEF IInv, Rest, ApiRecords, Quiet, Speaking

\* The parts of Rest by name.
LEMMA RestOf ==
  ASSUME IInv
  PROVE  /\ started \in BOOLEAN /\ queue \in [Plugins -> Seq(Events)]
         /\ values \in [Plugins -> Settings]
         /\ count \in [faults : 0..MaxFaults, events : 0..MaxEvents]
         /\ api \in ApiRecords
         /\ \A p \in Plugins : e[p].gen \in Nat
  BY ApiIsTyped, EntryOf DEF IInv, Rest, Entry

\* The steps of the API thread that leave every entry alone keep IInv.
LEMMA QuietSteps ==
  ASSUME IInv,
         \/ Start \/ Started \/ Stop
         \/ NextLoop("tell", "halt") \/ NextLoop("halt", "lastcall")
         \/ \E p \in Plugins : UnloadGrace(p) \/ StopGrace(p)
  PROVE  IInv'
<1>1. UNCHANGED <<e, queue, values, late, wd, count>> /\ started' \in BOOLEAN
  BY RestOf DEF Start, Started, Stop, NextLoop, UnloadGrace, StopGrace
<1>2. api.at \in Quiet /\ api.at # "end"
  BY DEF Start, Started, Stop, NextLoop, UnloadGrace, StopGrace, Quiet
<1>3. api' \in ApiRecords /\ api'.at \in Quiet
  <2> USE RestOf, ApiType DEF Quiet
  <2>1. CASE Start
    <3>1. api' = [api EXCEPT !.at = "spawn", !.todo = Plugins]
      BY <2>1 DEF Start
    <3> QED BY <3>1 DEF ApiRecords
  <2>2. CASE Started
    <3>1. api' = [api EXCEPT !.at = "idle"]
      BY <2>2 DEF Started, GoApi
    <3> QED BY <3>1 DEF ApiRecords
  <2>3. CASE Stop
    <3>1. api' = [api EXCEPT !.at = "tell", !.todo = Plugins]
      BY <2>3 DEF Stop
    <3> QED BY <3>1 DEF ApiRecords
  <2>4. CASE NextLoop("tell", "halt")
    <3>1. api' = [api EXCEPT !.at = "halt", !.todo = Plugins]
      BY <2>4 DEF NextLoop
    <3> QED BY <3>1 DEF ApiRecords
  <2>5. CASE NextLoop("halt", "lastcall")
    <3>1. api' = [api EXCEPT !.at = "lastcall", !.todo = Plugins]
      BY <2>5 DEF NextLoop
    <3> QED BY <3>1 DEF ApiRecords
  <2>6. ASSUME NEW p \in Plugins, UnloadGrace(p)
        PROVE  api' \in ApiRecords /\ api'.at \in Quiet
    <3>1. PICK at \in {"terminate", "join"} : api' = [api EXCEPT !.at = at, !.gen = e[p].gen]
      BY <2>6 DEF UnloadGrace
    <3> QED BY <3>1 DEF ApiRecords
  <2>7. ASSUME NEW p \in Plugins, StopGrace(p)
        PROVE  api' \in ApiRecords /\ api'.at \in Quiet
    <3>1. CASE api' = [api EXCEPT !.todo = @ \ {p}]
      BY <1>2, <3>1 DEF ApiRecords
    <3>2. CASE api' = [api EXCEPT !.at = "endcall", !.p = p, !.gen = e[p].gen]
      BY <3>2 DEF ApiRecords
    <3> QED BY <2>7, <3>1, <3>2 DEF StopGrace, DoneWith
  <2> QED BY <2>1, <2>2, <2>3, <2>4, <2>5, <2>6, <2>7
<1>4. Rest'
  BY <1>1, <1>3, RestOf, RestStep
<1> QED BY <1>1, <1>2, <1>3, <1>4, Still, ApiStep DEF Quiet

\* SHUTDOWN on its way to p.
LEMMA TellType ==
  ASSUME IInv, NEW p \in Plugins, Tell(p)
  PROVE  queue' \in [Plugins -> Seq(Events)]
<1>1. Ev("shutdown", 0) \in Events
  BY EvType DEF Kinds
<1> QED BY <1>1, PutType, RestOf DEF Tell

\* configSet, refused or followed by its push, keeps IInv.
LEMMA ConfigSteps ==
  ASSUME IInv, NEW p \in Plugins,
         ConfigSet(p) \/ ConfigRefused(p) \/ ConfigPush(p) \/ StopTell(p)
  PROVE  IInv'
<1>1. /\ UNCHANGED <<e, late, wd, started, count>> /\ api.at # "end"
  BY DEF ConfigSet, ConfigRefused, ConfigPush, StopTell
<1>2. CASE ConfigSet(p)
  <2>1. api' \in ApiRecords /\ api'.at = "config"
    <3>1. api' = [api EXCEPT !.at = "config", !.p = p]
      BY <1>2 DEF ConfigSet
    <3> QED BY <3>1, RestOf, ApiType DEF ApiRecords, Quiet
  <2>2. [v |-> values[p].v + 1, said |-> values[p].v + 1] \in Settings
    BY <1>2, EntryOf DEF ConfigSet, Settings
  <2>3. values' \in [Plugins -> Settings] /\ UNCHANGED queue
    BY <1>2, <2>2, RestOf DEF ConfigSet
  <2>4. Rest'
    BY <1>1, <2>1, <2>3, RestOf, RestStep
  <2> QED BY <1>1, <2>1, <2>4, Still, ApiStep
<1>3. CASE ConfigPush(p)
  <2>1. api' \in ApiRecords /\ api'.at = "idle"
    <3>1. api' = [api EXCEPT !.at = "idle"]
      BY <1>3 DEF ConfigPush, GoApi
    <3> QED BY <3>1, RestOf, ApiType DEF ApiRecords, Quiet
  <2>2. Ev("config", values[p].v) \in Events
    BY EntryOf, EvType DEF Kinds
  <2>3. queue' \in [Plugins -> Seq(Events)] /\ UNCHANGED values
    BY <1>3, <2>2, PutType DEF ConfigPush
  <2>4. Rest'
    BY <1>1, <2>1, <2>3, RestOf, RestStep
  <2> QED BY <1>1, <2>1, <2>4, Still, ApiStep
<1>4. CASE StopTell(p)
  <2>1. api' \in ApiRecords /\ api'.at = "tell"
    <3>1. api' = [api EXCEPT !.todo = @ \ {p}] /\ api.at = "tell"
      BY <1>4 DEF StopTell, DoneWith
    <3> QED BY <3>1, RestOf, ApiType DEF ApiRecords, Quiet
  <2>2. queue' \in [Plugins -> Seq(Events)] /\ UNCHANGED values
    BY <1>4, TellType, RestOf DEF StopTell
  <2>3. Rest'
    BY <1>1, <2>1, <2>2, RestOf, RestStep
  <2> QED BY <1>1, <2>1, <2>3, Still, ApiStep
<1>5. CASE ConfigRefused(p)
  <2>1. api' = api /\ api.at = "idle" /\ UNCHANGED queue
    BY <1>5 DEF ConfigRefused
  <2>2. [values[p] EXCEPT !.v = @ + 1] \in Settings
    BY <1>5, EntryOf DEF ConfigRefused, Settings
  <2>3. values' \in [Plugins -> Settings]
    BY <1>5, <2>2, RestOf DEF ConfigRefused
  <2>4. Rest'
    BY <1>1, <2>1, <2>3, RestOf, RestStep
  <2> QED BY <1>1, <2>1, <2>4, RestOf, Still, ApiStep
<1> QED BY <1>2, <1>3, <1>4, <1>5

\* stopping, and the end of a call, on the way to the joins.
LEMMA FlagSteps ==
  ASSUME IInv, NEW p \in Plugins,
         UnloadHalt(p) \/ StopHalt(p) \/ UnloadTerminate(p) \/ StopTerminate(p)
  PROVE  IInv'
<1>1. UNCHANGED <<queue, values, late, wd, started, count>> /\ api.at # "end"
  BY DEF UnloadHalt, StopHalt, UnloadTerminate, StopTerminate
<1>2. api' \in ApiRecords /\ api'.at \in Quiet
  <2> USE RestOf, ApiType DEF Quiet
  <2>1. CASE UnloadHalt(p)
    <3>1. api' = [api EXCEPT !.at = "grace"]
      BY <2>1 DEF UnloadHalt, GoApi
    <3> QED BY <3>1 DEF ApiRecords
  <2>2. CASE StopHalt(p)
    <3>1. api' = [api EXCEPT !.todo = @ \ {p}] /\ api.at = "halt"
      BY <2>2 DEF StopHalt, DoneWith
    <3> QED BY <3>1 DEF ApiRecords
  <2>3. CASE UnloadTerminate(p)
    <3>1. api' = [api EXCEPT !.at = "join"]
      BY <2>3 DEF UnloadTerminate, GoApi
    <3> QED BY <3>1 DEF ApiRecords
  <2>4. CASE StopTerminate(p)
    <3>1. api' = [api EXCEPT !.at = "lastcall", !.todo = @ \ {p}]
      BY <2>4 DEF StopTerminate
    <3> QED BY <3>1 DEF ApiRecords
  <2> QED BY <2>1, <2>2, <2>3, <2>4
<1>3. Rest'
  BY <1>1, <1>2, RestOf, RestStep
<1>4. CASE UnloadHalt(p) \/ StopHalt(p)
  <2> DEFINE s == [e[p] EXCEPT !.stopping = TRUE]
  <2>1. s \in Entry
    BY EntryOf, Writes
  <2>2. Like(e[p], s) /\ s.pc = e[p].pc
    BY EntryOf DEF Entry, Like
  <2>3. e' = [e EXCEPT ![p] = s]
    BY <1>4 DEF UnloadHalt, StopHalt
  <2> HIDE DEF s
  <2>4. Entries' /\ SameGraves
    BY <2>1, <2>2, <2>3, Flagged
  <2> QED BY <1>1, <1>2, <1>3, <2>4, ApiStep DEF Quiet
<1>5. CASE UnloadTerminate(p) \/ StopTerminate(p)
  <2> DEFINE s == [e[p] EXCEPT !.terminated = TRUE]
  <2>1. s \in Entry
    BY EntryOf, Writes
  <2>2. Like(e[p], s) /\ s.pc = e[p].pc
    BY EntryOf DEF Entry, Like
  <2>3. e' = [e EXCEPT ![p] = s]
    BY <1>5 DEF UnloadTerminate, StopTerminate
  <2> HIDE DEF s
  <2>4. Entries' /\ SameGraves
    BY <2>1, <2>2, <2>3, Flagged
  <2> QED BY <1>1, <1>2, <1>3, <2>4, ApiStep DEF Quiet
<1> QED BY <1>4, <1>5

\* An entry erased by the API thread, which has found its thread gone.
LEMMA Erased ==
  ASSUME NEW r \in Entry
  PROVE  LET gone == [Dropped(r) EXCEPT !.told = TRUE]
             unborn == [Dropped(r) EXCEPT !.stopping = FALSE]
             off == [r EXCEPT !.live = FALSE]
         IN  /\ gone \in Entry /\ Like(r, gone) /\ gone.pc = r.pc
             /\ unborn \in Entry /\ Like(r, unborn) /\ unborn.pc = r.pc
             /\ off \in Entry /\ Like(r, off) /\ off.pc = r.pc
             /\ Dropped(r) \in Entry /\ Like(r, Dropped(r)) /\ Dropped(r).pc = r.pc
<1>1. Dropped(r) \in Entry /\ Like(r, Dropped(r)) /\ Dropped(r).pc = r.pc
  <2>1. Dropped(r) \in Entry
    BY Writes
  <2> QED BY <2>1 DEF Dropped, Entry, Like
<1>2. /\ [Dropped(r) EXCEPT !.told = TRUE] \in Entry
      /\ [Dropped(r) EXCEPT !.stopping = FALSE] \in Entry
      /\ [r EXCEPT !.live = FALSE] \in Entry
  BY <1>1, Writes
<1>3. ASSUME NEW a \in Entry
      PROVE  /\ Like(a, [a EXCEPT !.told = TRUE]) /\ [a EXCEPT !.told = TRUE].pc = a.pc
             /\ Like(a, [a EXCEPT !.stopping = FALSE]) /\ [a EXCEPT !.stopping = FALSE].pc = a.pc
             /\ Like(a, [a EXCEPT !.live = FALSE]) /\ [a EXCEPT !.live = FALSE].pc = a.pc
  BY DEF Entry, Like
<1>4. \A a, b : Like(r, a) /\ Like(a, b) => Like(r, b)
  BY DEF Like
<1> HIDE DEF Dropped
<1> QED BY <1>1, <1>2, <1>3, <1>4

\* A thread's handle is taken or given up.
LEMMA Handled ==
  ASSUME IInv, NEW p \in Plugins, NEW s \in Entry, Allowance(s), Threaded(s),
         s.removed = e[p].removed, s.freed = e[p].freed, e' = [e EXCEPT ![p] = s]
  PROVE  /\ Entries'
         /\ \A q \in Plugins : e'[q].removed = e[q].removed /\ e'[q].freed = e[q].freed
         /\ \A q \in Plugins \ {p} : e'[q].thread = e[q].thread
         /\ e'[p].thread = s.thread
  BY DEF IInv, Entries, Good

\* A spawned thread belongs to an entry without a tombstone.
LEMMA SpawnOkStep == ASSUME IInv, NEW p \in Plugins, SpawnOk(p) PROVE IInv'
<1>1. /\ UNCHANGED <<queue, values, late, wd, started, count>>
      /\ api.at = "spawn" /\ api' = [api EXCEPT !.todo = @ \ {p}]
  BY DEF SpawnOk, DoneWith
<1>2. api' \in ApiRecords /\ api'.at = "spawn"
  BY <1>1, RestOf, ApiType DEF ApiRecords
<1>3. Rest'
  BY <1>1, <1>2, RestOf, RestStep
<1>4. CASE Spawnable(p)
  <2> DEFINE r == [e[p] EXCEPT !.stopping = FALSE, !.thread = TRUE]
             s == [r EXCEPT !.pc = "env"]
  <2>1. r \in Entry /\ "env" \in Places
    BY EntryOf, Writes DEF Places
  <2>2. s \in Entry
    <3> HIDE DEF r
    <3> QED BY <2>1 DEF Entry
  <2>3. /\ s.tries = e[p].tries /\ s.restarts = e[p].restarts /\ s.clean = e[p].clean
        /\ s.restart_at = e[p].restart_at /\ s.pc = "env" /\ s.thread
        /\ s.removed = e[p].removed /\ s.freed = e[p].freed
    BY EntryOf DEF Entry
  <2>4. Good(e[p]) /\ ~e[p].removed
    BY <1>4 DEF IInv, Entries, Spawnable
  <2>5. Allowance(s) /\ Threaded(s)
    BY <2>3, <2>4 DEF Good, Allowance, Threaded
  <2>6. e' = [e EXCEPT ![p] = s]
    BY <1>4 DEF SpawnOk, Move
  <2> HIDE DEF s
  <2>7. /\ Entries'
        /\ \A q \in Plugins : e'[q].removed = e[q].removed /\ e'[q].freed = e[q].freed
    BY <2>2, <2>3, <2>5, <2>6, Handled
  <2>8. Watched' /\ Buried'
    BY <1>1, <1>2, <2>7 DEF IInv, Watched, Buried
  <2>9. Unloaded' /\ Stopped'
    BY <1>2 DEF Unloaded, Stopped
  <2> QED BY <1>3, <2>7, <2>8, <2>9 DEF IInv
<1>5. CASE ~Spawnable(p)
  <2>1. UNCHANGED e
    BY <1>5 DEF SpawnOk
  <2> QED BY <1>1, <1>2, <1>3, <2>1, Still, ApiStep
<1> QED BY <1>4, <1>5

\* A plugin without a thread is erased and stays without one.
LEMMA SpawnFailsStep == ASSUME IInv, NEW p \in Plugins, SpawnFails(p) PROVE IInv'
<1> DEFINE s == [Dropped(e[p]) EXCEPT !.stopping = FALSE]
<1>1. /\ UNCHANGED <<values, late, wd, started>> /\ e' = [e EXCEPT ![p] = s]
      /\ api.at = "spawn" /\ api' = [api EXCEPT !.todo = @ \ {p}]
  BY DEF SpawnFails, DoneWith
<1>2. api' \in ApiRecords /\ api'.at = "spawn"
  BY <1>1, RestOf, ApiType DEF ApiRecords
<1>3. queue' \in [Plugins -> Seq(Events)]
  BY RestOf DEF SpawnFails
<1>4. Rest'
  BY <1>1, <1>2, <1>3, RestOf, RestStep, FaultCounts DEF SpawnFails
<1>5. s \in Entry /\ Like(e[p], s) /\ s.pc = e[p].pc
  BY EntryOf, Erased
<1> HIDE DEF s
<1>6. Entries' /\ SameGraves
  BY <1>1, <1>5, Flagged
<1> QED BY <1>1, <1>2, <1>4, <1>6, ApiStep

\* A delivery on the API thread: the plugin is erased, or was dead already.
LEMMA Inlined ==
  ASSUME IInv, NEW p \in Plugins, Inline(p)
  PROVE  Entries' /\ SameGraves /\ queue' \in [Plugins -> Seq(Events)]
<1>1. queue' \in [Plugins -> Seq(Events)]
  BY RestOf DEF Inline
<1>2. CASE e[p].live
  <2> DEFINE s == [Dropped(e[p]) EXCEPT !.told = TRUE]
  <2>1. e' = [e EXCEPT ![p] = s]
    BY <1>2 DEF Inline
  <2>2. s \in Entry /\ Like(e[p], s) /\ s.pc = e[p].pc
    BY EntryOf, Erased
  <2> HIDE DEF s
  <2> QED BY <1>1, <2>1, <2>2, Flagged
<1>3. CASE ~e[p].live
  <2>1. UNCHANGED e
    BY <1>3 DEF Inline, IInv, Entries
  <2> QED BY <1>1, <2>1, Still
<1> QED BY <1>2, <1>3

\* unload waits for a thread, or has none to wait for.
LEMMA UnloadStep == ASSUME IInv, NEW p \in Plugins, Unload(p) PROVE IInv'
<1>1. UNCHANGED <<values, late, wd, started, count>> /\ api.at = "idle"
  BY DEF Unload
<1>2. CASE e[p].thread
  <2>1. api' = [api EXCEPT !.at = "wait", !.p = p] /\ UNCHANGED e /\ Tell(p)
    BY <1>2 DEF Unload
  <2>2. api' \in ApiRecords /\ api'.at = "wait"
    BY <2>1, RestOf, ApiType DEF ApiRecords, Quiet
  <2>3. Rest'
    BY <1>1, <2>1, <2>2, RestOf, RestStep, TellType
  <2> QED BY <1>1, <2>1, <2>2, <2>3, Still, ApiStep
<1>3. CASE ~e[p].thread
  <2>1. api' = [api EXCEPT !.at = "retire", !.p = p] /\ Inline(p)
    BY <1>3 DEF Unload
  <2>2. api' \in ApiRecords /\ api'.at = "retire" /\ api'.p = p
    BY <2>1, RestOf, ApiType DEF ApiRecords, Speaking
  <2>3. Entries' /\ SameGraves /\ queue' \in [Plugins -> Seq(Events)]
    BY <2>1, Inlined
  <2>4. Rest'
    BY <1>1, <2>2, <2>3, RestOf, RestStep
  <2>5. Watched' /\ Buried'
    BY <1>1, <2>2, <2>3 DEF IInv, Watched, Buried, SameGraves
  <2>6. Unloaded' /\ Stopped'
    BY <1>3, <2>2, <2>3 DEF Unloaded, Stopped, SameGraves
  <2> QED BY <2>3, <2>4, <2>5, <2>6 DEF IInv
<1> QED BY <1>2, <1>3

\* What joining writes: no handle, no thread.
LEMMA Joined ==
  ASSUME IInv, NEW p \in Plugins, e' = [e EXCEPT ![p] = [@ EXCEPT !.thread = FALSE, !.pc = "none"]]
  PROVE  /\ Entries'
         /\ \A q \in Plugins : e'[q].removed = e[q].removed /\ e'[q].freed = e[q].freed
         /\ \A q \in Plugins \ {p} : e'[q].thread = e[q].thread
         /\ ~e'[p].thread
<1> DEFINE s == [e[p] EXCEPT !.thread = FALSE, !.pc = "none"]
<1>1. s \in Entry
  BY EntryOf, Writes
<1>2. /\ s.tries = e[p].tries /\ s.restarts = e[p].restarts /\ s.clean = e[p].clean
      /\ s.restart_at = e[p].restart_at /\ s.pc = "none" /\ ~s.thread
      /\ s.removed = e[p].removed /\ s.freed = e[p].freed
  BY EntryOf DEF Entry
<1>3. Allowance(s) /\ Threaded(s)
  <2>1. Good(e[p])
    BY DEF IInv, Entries
  <2> QED BY <1>2, <2>1 DEF Good, Allowance, Threaded
<1>4. e' = [e EXCEPT ![p] = s]
  BY DEF IInv, Entries
<1> HIDE DEF s
<1> QED BY <1>1, <1>2, <1>3, <1>4, Handled

\* Behind the join of an unload there is no thread.
LEMMA UnloadJoinStep == ASSUME IInv, NEW p \in Plugins, UnloadJoin(p) PROVE IInv'
<1>1. /\ UNCHANGED <<queue, values, late, wd, started, count>>
      /\ api.at = "join" /\ api.p = p /\ api' = [api EXCEPT !.at = "retire"]
  BY DEF UnloadJoin, GoApi
<1>2. api' \in ApiRecords /\ api'.at = "retire" /\ api'.p = p
  BY <1>1, RestOf, ApiType DEF ApiRecords, Speaking
<1>3. Rest'
  BY <1>1, <1>2, RestOf, RestStep
<1>4. e' = [e EXCEPT ![p] = [@ EXCEPT !.thread = FALSE, !.pc = "none"]]
  BY DEF UnloadJoin, IInv, Entries
<1>5. /\ Entries' /\ ~e'[p].thread
      /\ \A q \in Plugins : e'[q].removed = e[q].removed /\ e'[q].freed = e[q].freed
  BY <1>4, Joined
<1>6. Watched' /\ Buried'
  BY <1>1, <1>2, <1>5 DEF IInv, Watched, Buried
<1>7. Unloaded' /\ Stopped'
  BY <1>2, <1>5 DEF Unloaded, Stopped
<1> QED BY <1>3, <1>5, <1>6, <1>7 DEF IInv

\* Retiring what SHUTDOWN could not changes no thread.
LEMMA UnloadRetireStep == ASSUME IInv, NEW p \in Plugins, UnloadRetire(p) PROVE IInv'
<1> DEFINE s == IF e[p].retired THEN [e[p] EXCEPT !.live = FALSE] ELSE Dropped(e[p])
<1>1. /\ UNCHANGED <<values, late, wd, started, count>> /\ e' = [e EXCEPT ![p] = s]
      /\ api.at = "retire" /\ api.p = p /\ api' = [api EXCEPT !.at = "tombstone"]
      /\ queue' \in [Plugins -> Seq(Events)]
  BY RestOf DEF UnloadRetire, GoApi, IInv, Entries
<1>2. api' \in ApiRecords /\ api'.at = "tombstone" /\ api'.p = p
  BY <1>1, RestOf, ApiType DEF ApiRecords, Speaking
<1>3. Rest'
  BY <1>1, <1>2, RestOf, RestStep
<1>4. s \in Entry /\ Like(e[p], s) /\ s.pc = e[p].pc
  BY EntryOf, Erased
<1> HIDE DEF s
<1>5. Entries' /\ SameGraves
  BY <1>1, <1>4, Flagged
<1>6. Watched' /\ Buried'
  BY <1>1, <1>2, <1>5 DEF IInv, Watched, Buried, SameGraves
<1>7. Unloaded' /\ Stopped'
  BY <1>1, <1>2, <1>5 DEF IInv, Unloaded, Stopped, SameGraves
<1> QED BY <1>3, <1>5, <1>6, <1>7 DEF IInv

\* An entry whose thread is gone is buried.
LEMMA Grave ==
  ASSUME IInv, NEW p \in Plugins, ~e[p].thread,
         NEW s \in {[e[p] EXCEPT !.removed = TRUE], [e[p] EXCEPT !.freed = TRUE]},
         e' = [e EXCEPT ![p] = s]
  PROVE  /\ Entries'
         /\ \A q \in Plugins : e'[q].thread = e[q].thread
         /\ \A q \in Plugins \ {p} : e'[q].removed = e[q].removed /\ e'[q].freed = e[q].freed
         /\ e'[p].removed = s.removed /\ e'[p].freed = s.freed
<1>1. s \in Entry
  BY EntryOf, Writes
<1>2. /\ s.tries = e[p].tries /\ s.restarts = e[p].restarts /\ s.clean = e[p].clean
      /\ s.restart_at = e[p].restart_at /\ s.pc = e[p].pc /\ s.thread = e[p].thread
  BY EntryOf DEF Entry
<1>3. Good(s)
  <2>1. Good(e[p])
    BY DEF IInv, Entries
  <2> QED BY <1>1, <1>2, <2>1 DEF Good, Allowance, Threaded
<1> QED BY <1>1, <1>2, <1>3 DEF IInv, Entries

\* The tombstone is set where the watchdog is not looking.
LEMMA TombstoneStep == ASSUME IInv, NEW p \in Plugins, Tombstone(p) PROVE IInv'
<1> DEFINE s == [e[p] EXCEPT !.removed = TRUE]
<1>1. /\ UNCHANGED <<queue, values, late, wd, started, count>> /\ e' = [e EXCEPT ![p] = s]
      /\ api.at = "tombstone" /\ api.p = p /\ api' = [api EXCEPT !.at = "free"]
      /\ wd.at = "idle"
  BY DEF Tombstone, GoApi, RegFree, IInv, Entries
<1>2. api' \in ApiRecords /\ api'.at = "free" /\ api'.p = p
  BY <1>1, RestOf, ApiType DEF ApiRecords, Speaking
<1>3. Rest'
  BY <1>1, <1>2, RestOf, RestStep
<1>4. s.removed /\ s.freed = e[p].freed /\ ~e[p].thread
  BY <1>1, EntryOf DEF Entry, IInv, Unloaded
<1>5. /\ Entries'
      /\ \A q \in Plugins : e'[q].thread = e[q].thread
      /\ \A q \in Plugins \ {p} : e'[q].removed = e[q].removed /\ e'[q].freed = e[q].freed
      /\ e'[p].removed
  BY <1>1, <1>4, Grave
<1>6. Watched' /\ Buried'
  BY <1>1, <1>2, <1>5 DEF IInv, Watched, Buried
<1>7. Unloaded' /\ Stopped'
  BY <1>2, <1>4, <1>5 DEF Unloaded, Stopped
<1> QED BY <1>3, <1>5, <1>6, <1>7 DEF IInv

\* An instance is freed behind its tombstone.
LEMMA UnloadFreeStep == ASSUME IInv, NEW p \in Plugins, UnloadFree(p) PROVE IInv'
<1> DEFINE s == [e[p] EXCEPT !.freed = TRUE]
<1>1. /\ UNCHANGED <<queue, values, late, wd, started, count>> /\ e' = [e EXCEPT ![p] = s]
      /\ api.at = "free" /\ api.p = p /\ api' = [api EXCEPT !.at = "idle"]
  BY DEF UnloadFree, GoApi, IInv, Entries
<1>2. api' \in ApiRecords /\ api'.at = "idle"
  BY <1>1, RestOf, ApiType DEF ApiRecords, Quiet
<1>3. Rest'
  BY <1>1, <1>2, RestOf, RestStep
<1>4. s.removed /\ ~e[p].thread
  BY <1>1, EntryOf DEF Entry, IInv, Unloaded
<1>5. /\ Entries'
      /\ \A q \in Plugins \ {p} : e'[q].removed = e[q].removed /\ e'[q].freed = e[q].freed
      /\ e'[p].removed /\ e[p].removed
  BY <1>1, <1>4, Grave DEF IInv, Unloaded
<1>6. Watched' /\ Buried'
  BY <1>1, <1>2, <1>5 DEF IInv, Watched, Buried
<1>7. Unloaded' /\ Stopped'
  BY <1>2 DEF Unloaded, Stopped
<1> QED BY <1>3, <1>5, <1>6, <1>7 DEF IInv

\* Each join of stop ends the thread it names.
LEMMA StopJoinStep == ASSUME IInv, NEW p \in Plugins, StopJoin(p) PROVE IInv'
<1>1. /\ UNCHANGED <<queue, values, late, wd, started, count>>
      /\ api.at = "joins" /\ api' = [api EXCEPT !.todo = @ \ {p}]
  BY DEF StopJoin, DoneWith
<1>2. api' \in ApiRecords /\ api'.at = "joins" /\ api'.todo = api.todo \ {p}
  BY <1>1, RestOf, ApiType DEF ApiRecords, Speaking
<1>3. Rest'
  BY <1>1, <1>2, RestOf, RestStep
<1>4. /\ Entries' /\ ~e'[p].thread
      /\ \A q \in Plugins : e'[q].removed = e[q].removed /\ e'[q].freed = e[q].freed
      /\ \A q \in Plugins \ {p} : e'[q].thread = e[q].thread
  <2>1. CASE e[p].thread
    <3>1. e' = [e EXCEPT ![p] = [@ EXCEPT !.thread = FALSE, !.pc = "none"]]
      BY <2>1 DEF StopJoin, IInv, Entries
    <3> QED BY <3>1, Joined
  <2>2. CASE ~e[p].thread
    BY <2>2 DEF StopJoin, IInv, Entries
  <2> QED BY <2>1, <2>2
<1>5. Watched' /\ Buried'
  BY <1>1, <1>2, <1>4 DEF IInv, Watched, Buried
<1>6. Unloaded' /\ Stopped'
  BY <1>1, <1>2, <1>4 DEF IInv, Unloaded, Stopped
<1> QED BY <1>3, <1>4, <1>5, <1>6 DEF IInv

\* The second stop delivers where no thread is left to.
LEMMA DeinitInlineStep == ASSUME IInv, NEW p \in Plugins, DeinitInline(p) PROVE IInv'
<1>1. /\ UNCHANGED <<values, late, wd, started, count>>
      /\ api.at = "inline" /\ api' = [api EXCEPT !.todo = @ \ {p}]
  BY DEF DeinitInline, DoneWith
<1>2. api' \in ApiRecords /\ api'.at = "inline"
  BY <1>1, RestOf, ApiType DEF ApiRecords, Speaking
<1>3. Entries' /\ SameGraves /\ queue' \in [Plugins -> Seq(Events)]
  BY Inlined, Still, RestOf DEF DeinitInline
<1>4. Rest'
  BY <1>1, <1>2, <1>3, RestOf, RestStep
<1>5. Watched' /\ Buried'
  BY <1>1, <1>2, <1>3 DEF IInv, Watched, Buried, SameGraves
<1>6. Unloaded' /\ Stopped'
  BY <1>1, <1>2, <1>3 DEF IInv, Unloaded, Stopped, SameGraves
<1> QED BY <1>3, <1>4, <1>5, <1>6 DEF IInv

\* deinit frees every instance when every thread is joined.
LEMMA DeinitStep == ASSUME IInv, Deinit PROVE IInv'
<1>1. /\ UNCHANGED <<queue, values, late, wd, started, count>>
      /\ api.at = "inline" /\ api' = [api EXCEPT !.at = "end"]
      /\ e' = [p \in Plugins |-> [e[p] EXCEPT !.freed = TRUE]]
  BY DEF Deinit, GoApi
<1>2. api' \in ApiRecords /\ api'.at = "end"
  BY <1>1, RestOf, ApiType DEF ApiRecords, Speaking
<1>3. Rest'
  BY <1>1, <1>2, RestOf, RestStep
<1>4. ASSUME NEW p \in Plugins
      PROVE  Good(e'[p]) /\ e'[p].thread = e[p].thread
  <2> DEFINE s == [e[p] EXCEPT !.freed = TRUE]
  <2>1. s \in Entry
    BY EntryOf, Writes
  <2>2. /\ s.tries = e[p].tries /\ s.restarts = e[p].restarts /\ s.clean = e[p].clean
        /\ s.restart_at = e[p].restart_at /\ s.pc = e[p].pc /\ s.thread = e[p].thread
        /\ s.removed = e[p].removed
    BY EntryOf DEF Entry
  <2>3. Good(e[p]) /\ e'[p] = s
    BY <1>1 DEF IInv, Entries
  <2> HIDE DEF s
  <2> QED BY <2>1, <2>2, <2>3 DEF Good, Allowance, Threaded
<1>5. Entries'
  BY <1>1, <1>4 DEF Entries, Good
<1>6. Watched' /\ Buried'
  BY <1>1, <1>2 DEF IInv, Watched, Buried, Stopped
<1>7. Unloaded' /\ Stopped'
  BY <1>1, <1>2, <1>4 DEF IInv, Unloaded, Stopped
<1> QED BY <1>3, <1>5, <1>6, <1>7 DEF IInv

\* The ends of stop's loops, and of the I/O thread.
LEMMA EndSteps ==
  ASSUME IInv, NextLoop("lastcall", "joins") \/ StopIo \/ JoinIo
  PROVE  IInv'
<1>1. UNCHANGED <<e, queue, values, late, wd, count>>
  BY DEF NextLoop, StopIo, JoinIo
<1>2. Entries' /\ SameGraves
  BY <1>1, Still
<1>3. Watched' /\ (api'.at # "end" /\ api.at # "end" => Buried')
  BY <1>1 DEF IInv, Watched, Buried
<1>4. CASE NextLoop("lastcall", "joins")
  <2>1. api' = [api EXCEPT !.at = "joins", !.todo = Plugins] /\ UNCHANGED started
        /\ api.at = "lastcall"
    BY <1>4 DEF NextLoop
  <2>2. api' \in ApiRecords /\ api'.at = "joins" /\ api'.todo = Plugins
    BY <2>1, RestOf, ApiType DEF ApiRecords, Speaking
  <2>3. Rest' /\ Unloaded' /\ Stopped'
    BY <1>1, <2>1, <2>2, RestOf, RestStep DEF Unloaded, Stopped
  <2> QED BY <1>2, <1>3, <2>1, <2>2, <2>3 DEF IInv
<1>5. CASE StopIo
  <2>1. api' = [api EXCEPT !.at = "iojoin"] /\ started' = FALSE
        /\ api.at = "joins" /\ api.todo = {}
    BY <1>5 DEF StopIo, GoApi
  <2>2. api' \in ApiRecords /\ api'.at = "iojoin"
    BY <2>1, RestOf, ApiType DEF ApiRecords, Speaking
  <2>3. Rest'
    BY <1>1, <2>1, <2>2, RestOf, RestStep
  <2>4. Unloaded' /\ Stopped'
    BY <1>1, <2>1, <2>2 DEF IInv, Unloaded, Stopped
  <2> QED BY <1>2, <1>3, <2>1, <2>2, <2>3, <2>4 DEF IInv
<1>6. CASE JoinIo
  <2>1. api' = [api EXCEPT !.at = "inline", !.todo = Plugins] /\ UNCHANGED started
        /\ api.at = "iojoin" /\ wd.at = "idle"
    BY <1>6 DEF JoinIo, RegFree
  <2>2. api' \in ApiRecords /\ api'.at = "inline"
    BY <2>1, RestOf, ApiType DEF ApiRecords, Speaking
  <2>3. Rest'
    BY <1>1, <2>1, <2>2, RestOf, RestStep
  <2>4. Unloaded' /\ Stopped'
    BY <1>1, <2>1, <2>2 DEF IInv, Unloaded, Stopped
  <2> QED BY <1>2, <1>3, <2>1, <2>2, <2>3, <2>4 DEF IInv
<1> QED BY <1>4, <1>5, <1>6

\* Every step of the API thread keeps IInv.
LEMMA ApiSteps == ASSUME IInv, Api \/ ApiGoesOn PROVE IInv'
<1>1. CASE Api
  BY <1>1, QuietSteps, ConfigSteps, UnloadStep DEF Api
<1>2. CASE ApiGoesOn
  <2>1. CASE Stopping
    BY <2>1, QuietSteps, EndSteps, DeinitStep, ConfigSteps, FlagSteps,
       StopJoinStep, DeinitInlineStep DEF Stopping
  <2>2. ASSUME NEW p \in Plugins, Unloading(p) PROVE IInv'
    BY <2>2, FlagSteps, QuietSteps, UnloadJoinStep, UnloadRetireStep, TombstoneStep,
       UnloadFreeStep DEF Unloading
  <2> QED BY <1>2, <2>1, <2>2, QuietSteps, SpawnOkStep, SpawnFailsStep, ConfigSteps
          DEF ApiGoesOn
<1> QED BY <1>1, <1>2

-------------------------------------------------------------------------------
(* The theorems                                                              *)

\* Freshly loaded plugins satisfy the inductive invariant.
LEMMA InitIInv == ASSUME Init PROVE IInv
<1>1. Loaded \in Entry
  BY DEF Loaded, Entry, Places, Events, Kinds
<1>2. Allowance(Loaded) /\ Threaded(Loaded)
  BY DEF Loaded, Allowance, Threaded
<1>3. Entries
  BY <1>1, <1>2 DEF Init, Entries, Good
<1>4. Rest
  <2>1. queue \in [Plugins -> Seq(Events)]
    BY DEF Init
  <2>2. values \in [Plugins -> Settings]
    BY DEF Init, Settings
  <2>3. /\ wd \in [at : {"idle", "walk", "judge", "claim", "kill"},
                   todo : SUBSET Plugins, p : Plugins \cup {NoPlugin}, gen : Nat]
        /\ late \subseteq Plugins /\ started \in BOOLEAN
    BY DEF Init
  <2>4. api \in [at : {"idle", "spawn", "config", "wait", "grace", "terminate", "join",
                     "retire", "tombstone", "free", "tell", "halt", "lastcall",
                     "endcall", "joins", "iojoin", "inline", "end"},
                todo : SUBSET Plugins, p : Plugins \cup {NoPlugin}, gen : Nat]
    BY DEF Init
  <2>5. count \in [faults : 0..MaxFaults, events : 0..MaxEvents]
    BY DEF Init
  <2> QED BY <2>1, <2>2, <2>3, <2>4, <2>5 DEF Rest
<1>5. Watched /\ Unloaded /\ Stopped
  BY DEF Init, Watched, Unloaded, Stopped
<1>6. Buried
  BY DEF Init, Buried, Loaded
<1> QED BY <1>3, <1>4, <1>5, <1>6 DEF IInv

\* Every step keeps the inductive invariant.
LEMMA NextIInv == ASSUME IInv, [Next]_vars PROVE IInv'
<1>1. CASE UNCHANGED vars
  BY <1>1 DEF vars, IInv, Rest, Entries, Good, Watched, Unloaded, Stopped, Buried
<1>2. CASE Ended
  BY <1>1, <1>2 DEF Ended
<1>3. CASE Next
  BY <1>2, <1>3, OwnSteps, WorldSteps, WatchdogSteps, ApiSteps DEF Next
<1> QED BY <1>1, <1>3

\* The inductive invariant holds in every reachable state of the host.
THEOREM IInvHolds == Spec => []IInv
  BY InitIInv, NextIInv, PTL DEF Spec

\* Every variable keeps its type; in particular the restart counter never runs
\* past the end of the schedule it indexes (scheduleRestart, host.zig).
THEOREM TypeHolds == Spec => []TypeOK
<1>1. IInv => TypeOK
  BY DEF IInv, Rest, Entries, Good, TypeOK
<1> QED BY <1>1, IInvHolds, PTL

\* The schedule bounds the restarts between two whole clean runs, however long
\* the schedule and however the attempts fail.
THEOREM AttemptsHold == Spec => []AttemptsBounded
<1>1. IInv => AttemptsBounded
  <2> SUFFICES ASSUME IInv, NEW p \in Plugins PROVE e[p].tries <= Attempts
    BY DEF AttemptsBounded
  <2>1. e[p].tries <= e[p].restarts /\ e[p].restarts \in 0..Attempts /\ e[p].tries \in Nat
    BY EntryOf DEF IInv, Entries, Good, Allowance, Entry
  <2> QED BY <2>1
<1> QED BY <1>1, IInvHolds, PTL

\* Behind unload and deinit nobody enters or terminates a freed instance: the
\* join comes before the tombstone, the tombstone under the registry lock, and
\* the free behind both.
THEOREM FreeHolds == Spec => []NothingAfterFree
<1>1. IInv => NothingAfterFree
  <2> SUFFICES ASSUME IInv, NEW p \in Plugins, e[p].freed
               PROVE  /\ e[p].pc = "none"
                      /\ ~(wd.at \in {"judge", "claim", "kill"} /\ wd.p = p)
    BY DEF NothingAfterFree
  <2>1. Threaded(e[p]) /\ (e[p].removed \/ api.at = "end")
    BY DEF IInv, Entries, Good, Buried
  <2>2. e[p].pc = "none"
    BY <2>1 DEF IInv, Stopped, Threaded
  <2>3. ~(wd.at \in {"judge", "claim", "kill"} /\ wd.p = p)
    BY <2>1 DEF IInv, Stopped, Watched
  <2> QED BY <2>2, <2>3
<1> QED BY <1>1, IInvHolds, PTL

-------------------------------------------------------------------------------
(* The second invariant: what dispatch, watchdog and API thread owe          *)

\* What an entry says of itself, wherever its thread is.
Sane(r) ==
    \* what is retired is erased, but for the step in between
    /\ r.retired /\ r.pc # "drop" => ~r.live /\ ~r.enabled /\ ~r.scene
    /\ r.pc = "golive" => ~r.retired
    \* what is out of service is retired, or on its way to retire
    /\ ~r.live /\ ~r.retired =>
         /\ r.pc \in {"stamp", "call", "hung", "trapped", "stuck", "retire", "golive"}
         /\ r.pc \in {"stamp", "call", "hung"} => r.cur.kind = "shutdown"
    /\ r.pc \in {"drop", "schedule", "restart", "instantiate", "config", "revive",
                 "golive"} => ~r.live
    /\ r.pc \in {"leave", "backoff", "due", "clear"} => r.stopping \/ ~r.live
    /\ r.removed => r.retired
    \* the stamp is up inside a call alone, and a kill has its reason
    /\ r.entered # "out" => r.pc \in {"call", "hung"}
    /\ r.entered = "over" => r.overran
    /\ r.terminated => r.overran \/ r.stopping
    \* behind SHUTDOWN the way to a restart is closed
    /\ r.told => /\ ~r.live
                 /\ r.pc \notin {"restart", "instantiate", "config", "revive", "golive"}
                 /\ r.pc = "due" => r.stopping

\* The watchdog's target: over its budget, and still the instance it judged.
Aimed == wd.at \in {"claim", "kill"} => e[wd.p].overran /\ e[wd.p].gen = wd.gen

\* A call entered behind the tick's clock is not late by it.
Dated == \A p \in late : e[p].entered # "in"

\* unload and stop terminate and join only what they have told to stop, and
\* such a plugin begins no restart.
Halted ==
    /\ api.at \in {"grace", "terminate", "join"} =>
         api.p \in Plugins /\ e[api.p].stopping
    /\ api.at = "halt" => \A p \in Plugins \ api.todo : e[p].stopping
    /\ api.at \in {"lastcall", "endcall", "joins"} => \A p \in Plugins : e[p].stopping
    /\ api.at \in {"terminate", "endcall"} =>
         /\ api.p \in Plugins /\ e[api.p].gen = api.gen
         /\ e[api.p].pc \notin {"restart", "instantiate"}

\* Until start has spawned it, a plugin has no thread, and nobody has told it
\* to stop or ended a call of it.
Young == {"idle", "config", "retire", "tombstone", "free"}
Unborn ==
    /\ ~started => api.at \in Young \cup {"iojoin", "inline", "end"}
    /\ ~started /\ api.at \in Young => \A p \in Plugins : ~e[p].thread
    /\ api.at = "spawn" \/ (~started /\ api.at \in Young) =>
         \A p \in Plugins : ~e[p].thread =>
            /\ ~e[p].terminated /\ ~e[p].stopping
            /\ ~(wd.at \in {"claim", "kill"} /\ wd.p = p)

\* Unload retires before its tombstone, and deinit erases one after the other.
Cleared ==
    /\ api.at \in {"tombstone", "free"} => e[api.p].retired
    /\ api.at = "inline" => \A p \in Plugins \ api.todo : ~e[p].scene
    /\ api.at = "end" => \A p \in Plugins : ~e[p].scene

\* configSet is between its change and its push.
Pending(p) == api.at = "config" /\ api.p = p

\* The last settings event that waits carries the last accepted settings.
IsConfig(q, i) == q[i].kind = "config"
LastIsTrue(q, said) ==
    \A i \in 1..Len(q) : IsConfig(q, i) /\ (\A j \in 1..Len(q) : j > i => ~IsConfig(q, j))
                            => q[i].v >= said

\* With none waiting the plugin knows them, or has them in hand.
Answered(r, said) ==
    /\ r.live /\ ~r.stopping /\ r.pc \in {"none", "env", "serve", "pop", "up"} =>
         r.seen >= said
    /\ r.live /\ ~r.stopping /\ r.pc \in {"deliver", "stamp", "call", "hung"} =>
         IF r.cur.kind \in {"config", "start"} THEN r.cur.v >= said ELSE r.seen >= said
    /\ r.pc \in {"revive", "golive"} => r.cur.kind = "start" /\ r.cur.v >= said

Informed(p) ==
    LET said == values[p].said
    IN  /\ said <= values[p].v
        /\ \A i \in 1..Len(queue[p]) : queue[p][i].kind \in {"ev", "config", "grants", "shutdown"}
        /\ ~Pending(p) =>
             /\ LastIsTrue(queue[p], said)
             /\ (\A i \in 1..Len(queue[p]) : ~IsConfig(queue[p], i)) => Answered(e[p], said)

DInv ==
    /\ \A p \in Plugins : Sane(e[p])
    /\ Aimed /\ Dated /\ Halted /\ Unborn /\ Cleared
    /\ \A p \in Plugins : Informed(p)

-------------------------------------------------------------------------------
(* What a step of p's own thread does to its entry                           *)

\* The thread's own steps leave what the others go by.
Keeps(r, s) ==
    /\ s.stopping = r.stopping /\ s.thread = r.thread
    /\ s.gen = r.gen /\ s.terminated = r.terminated /\ (r.overran => s.overran)
    /\ r.pc = "none" => s.retired = r.retired /\ s.scene = r.scene
    /\ s.pc \in {"restart", "instantiate"} =>
         r.pc \in {"restart", "instantiate"} \/ ~r.stopping
    /\ s.entered = "in" /\ r.entered # "in" => r.pc = "stamp" /\ s.pc = "call"

Informs(r, s) == \A said \in Nat : Answered(r, said) => Answered(s, said)

Owns(r, s) == Sane(s) /\ Keeps(r, s) /\ Informs(r, s)

\* A new instance takes the old one's place, and no more changes.
Renews(r, s) ==
    /\ Sane(s) /\ Informs(r, s)
    /\ s.stopping = r.stopping /\ s.thread = r.thread /\ s.retired = r.retired
    /\ s.scene = r.scene /\ s.entered = r.entered /\ ~s.terminated

\* The steps that move the thread alone.
LEMMA OwnsMove ==
  ASSUME NEW r \in Entry, Sane(r), NEW place \in Places, NEW s, s = [r EXCEPT !.pc = place],
         \/ r.pc = "env" /\ place \in {"serve", "gone"}
         \/ r.pc = "serve" /\ place = IF r.stopping \/ ~r.live THEN "leave"
                                      ELSE IF r.killed THEN "stuck" ELSE "pop"
         \/ r.pc = "pop" /\ place = "serve"
         \/ r.pc = "call" /\ place = "hung"
         \/ r.pc = "trapped" /\ place \in {"stuck", "retire"}
         \/ r.pc = "backoff" /\ (r.told => r.stopping) /\ place = "due"
         \/ r.pc = "due" /\ place = IF r.stopping THEN "clear" ELSE "restart"
         \/ r.pc = "clear" /\ place = "gone"
  PROVE  Owns(r, s)
<1>1. Sane(s)
  BY DEF Entry, Sane
<1>2. Keeps(r, s)
  BY DEF Entry, Keeps
<1>3. Informs(r, s)
  BY DEF Entry, Sane, Informs, Answered
<1> QED BY <1>1, <1>2, <1>3 DEF Owns

\* SHUTDOWN in hand: out of service before the call.
LEMMA OwnsShutdown ==
  ASSUME NEW r \in Entry, Sane(r), r.pc = "deliver", r.cur.kind = "shutdown",
         NEW s, s = [[r EXCEPT !.live = FALSE, !.told = TRUE]
                    EXCEPT !.pc = "stamp"]
  PROVE  Owns(r, s)
<1>1. Sane(s)
  BY DEF Entry, Sane
<1>2. Keeps(r, s)
  BY DEF Entry, Keeps, Sane
<1>3. Informs(r, s)
  BY DEF Entry, Sane, Informs, Answered
<1> QED BY <1>1, <1>2, <1>3 DEF Owns

\* Any other event in hand.
LEMMA OwnsDeliver ==
  ASSUME NEW r \in Entry, Sane(r), r.pc = "deliver", r.cur.kind # "shutdown",
         NEW s, s = [r EXCEPT !.pc = "stamp"]
  PROVE  Owns(r, s)
<1>1. Sane(s)
  BY DEF Entry, Sane
<1>2. Keeps(r, s)
  BY DEF Entry, Keeps, Sane
<1>3. Informs(r, s)
  BY DEF Entry, Sane, Informs, Answered
<1> QED BY <1>1, <1>2, <1>3 DEF Owns

\* The stamp goes up with the call.
LEMMA OwnsStamp ==
  ASSUME NEW r \in Entry, Sane(r), r.pc = "stamp",
         NEW s, s = [[r EXCEPT !.entered = "in"]
                    EXCEPT !.pc = "call"]
  PROVE  Owns(r, s)
<1>1. Sane(s)
  BY DEF Entry, Sane
<1>2. Keeps(r, s)
  BY DEF Entry, Keeps, Sane
<1>3. Informs(r, s)
  BY DEF Entry, Sane, Informs, Answered
<1> QED BY <1>1, <1>2, <1>3 DEF Owns

\* Only a plugin with its record in service draws.
LEMMA OwnsContribute ==
  ASSUME NEW r \in Entry, Sane(r), r.pc = "call", r.enabled,
         NEW s, s = [r EXCEPT !.scene = TRUE]
  PROVE  Owns(r, s)
<1>1. Sane(s)
  BY DEF Entry, Sane
<1>2. Keeps(r, s)
  BY DEF Entry, Keeps, Sane
<1>3. Informs(r, s)
  BY DEF Entry, Sane, Informs, Answered
<1> QED BY <1>1, <1>2, <1>3 DEF Owns

\* A call that returns knows the settings it was given.
LEMMA OwnsReturn ==
  ASSUME NEW r \in Entry, Sane(r), r.pc = "call", NEW place,
         place = IF r.cur.kind = "shutdown" THEN "retire"
                 ELSE IF r.cur.kind = "start" THEN "up" ELSE "serve",
         NEW seen, seen = IF r.cur.kind \in {"config", "start"} THEN r.cur.v ELSE r.seen,
         NEW s, s = [[r EXCEPT !.entered = "out", !.seen = seen]
                    EXCEPT !.pc = place]
  PROVE  Owns(r, s)
<1>1. Sane(s)
  BY DEF Entry, Sane
<1>2. Keeps(r, s)
  BY DEF Entry, Keeps, Sane
<1>3. Informs(r, s)
  BY DEF Entry, Sane, Informs, Answered
<1> QED BY <1>1, <1>2, <1>3 DEF Owns

\* A refused start, and a trap.
LEMMA OwnsRefuse ==
  ASSUME NEW r \in Entry, Sane(r), r.pc \in {"call", "hung"}, NEW place \in {"retire", "trapped"},
         NEW s, s = [[r EXCEPT !.entered = "out"]
                    EXCEPT !.pc = place]
  PROVE  Owns(r, s)
<1>1. Sane(s)
  BY DEF Entry, Sane
<1>2. Keeps(r, s)
  BY DEF Entry, Keeps, Sane
<1>3. Informs(r, s)
  BY DEF Entry, Sane, Informs, Answered
<1> QED BY <1>1, <1>2, <1>3 DEF Owns

\* A call over its budget.
LEMMA OwnsOverrun ==
  ASSUME NEW r \in Entry, Sane(r), r.pc \in {"call", "hung"},
         NEW s, s = [r EXCEPT !.entered = "over", !.overran = TRUE]
  PROVE  Owns(r, s)
<1>1. Sane(s)
  BY DEF Entry, Sane
<1>2. Keeps(r, s)
  BY DEF Entry, Keeps, Sane
<1>3. Informs(r, s)
  BY DEF Entry, Sane, Informs, Answered
<1> QED BY <1>1, <1>2, <1>3 DEF Owns

\* A killed plugin on its way to retire.
LEMMA OwnsStuck ==
  ASSUME NEW r \in Entry, Sane(r), r.pc = "stuck", NEW ev \in Events,
         NEW s, s = [[r EXCEPT !.cur = ev]
                    EXCEPT !.pc = "retire"]
  PROVE  Owns(r, s)
<1>1. Sane(s)
  BY DEF Entry, Sane
<1>2. Keeps(r, s)
  BY DEF Entry, Keeps, Sane
<1>3. Informs(r, s)
  BY DEF Entry, Sane, Informs, Answered
<1> QED BY <1>1, <1>2, <1>3 DEF Owns

\* retire: out of service, erased or about to be.
LEMMA OwnsRetire ==
  ASSUME NEW r \in Entry, Sane(r), r.pc = "retire", NEW place,
         place \in IF r.retired THEN {"serve", "schedule"} ELSE {"drop"},
         NEW s, s = [[r EXCEPT !.live = FALSE, !.retired = TRUE]
                    EXCEPT !.pc = place]
  PROVE  Owns(r, s)
<1>1. Sane(s)
  BY DEF Entry, Sane
<1>2. Keeps(r, s)
  BY DEF Entry, Keeps, Sane
<1>3. Informs(r, s)
  BY DEF Entry, Sane, Informs, Answered
<1> QED BY <1>1, <1>2, <1>3 DEF Owns

\* dropPlugin erases.
LEMMA OwnsDrop ==
  ASSUME NEW r \in Entry, Sane(r), r.pc = "drop", NEW place \in {"serve", "schedule"},
         NEW s, s = [[r EXCEPT !.live = FALSE, !.retired = TRUE, !.enabled = FALSE, !.scene = FALSE]
                    EXCEPT !.pc = place]
  PROVE  Owns(r, s)
<1>1. Sane(s)
  BY DEF Entry, Sane
<1>2. Keeps(r, s)
  BY DEF Entry, Keeps, Sane
<1>3. Informs(r, s)
  BY DEF Entry, Sane, Informs, Answered
<1> QED BY <1>1, <1>2, <1>3 DEF Owns

\* scheduleRestart, with a promise or without.
LEMMA OwnsSchedule ==
  ASSUME NEW r \in Entry, Sane(r), r.pc = "schedule", NEW n, NEW b,
         NEW s, s = [[r EXCEPT !.restarts = n, !.restart_at = b]
                    EXCEPT !.pc = "serve"]
  PROVE  Owns(r, s)
<1>1. Sane(s)
  BY DEF Entry, Sane
<1>2. Keeps(r, s)
  BY DEF Entry, Keeps, Sane
<1>3. Informs(r, s)
  BY DEF Entry, Sane, Informs, Answered
<1> QED BY <1>1, <1>2, <1>3 DEF Owns

\* The thread leaves to wait, or for good.
LEMMA OwnsLeave ==
  ASSUME NEW r \in Entry, Sane(r), r.pc = "leave", NEW place \in {"backoff", "clear"},
         NEW s, s = [[r EXCEPT !.restart_at = FALSE]
                    EXCEPT !.pc = place]
  PROVE  Owns(r, s)
<1>1. Sane(s)
  BY DEF Entry, Sane
<1>2. Keeps(r, s)
  BY DEF Entry, Keeps, Sane
<1>3. Informs(r, s)
  BY DEF Entry, Sane, Informs, Answered
<1> QED BY <1>1, <1>2, <1>3 DEF Owns

\* An attempt begins.
LEMMA OwnsBegin ==
  ASSUME NEW r \in Entry, Sane(r), r.pc = "restart", NEW n, NEW m,
         NEW s, s = [[r EXCEPT !.restarts = n, !.tries = m, !.clean = "none"]
                    EXCEPT !.pc = "instantiate"]
  PROVE  Owns(r, s)
<1>1. Sane(s)
  BY DEF Entry, Sane
<1>2. Keeps(r, s)
  BY DEF Entry, Keeps, Sane
<1>3. Informs(r, s)
  BY DEF Entry, Sane, Informs, Answered
<1> QED BY <1>1, <1>2, <1>3 DEF Owns

\* A restart is given up.
LEMMA OwnsGiveUp ==
  ASSUME NEW r \in Entry, Sane(r), r.pc \in {"instantiate", "config"},
         NEW s, s = [[r EXCEPT !.restart_at = FALSE]
                    EXCEPT !.pc = "serve"]
  PROVE  Owns(r, s)
<1>1. Sane(s)
  BY DEF Entry, Sane
<1>2. Keeps(r, s)
  BY DEF Entry, Keeps, Sane
<1>3. Informs(r, s)
  BY DEF Entry, Sane, Informs, Answered
<1> QED BY <1>1, <1>2, <1>3 DEF Owns

\* Back in service, but for the flag.
LEMMA OwnsRevive ==
  ASSUME NEW r \in Entry, Sane(r), r.pc = "revive", ~r.removed,
         NEW s, s = [[r EXCEPT !.killed = FALSE, !.retired = FALSE, !.enabled = TRUE]
                    EXCEPT !.pc = "golive"]
  PROVE  Owns(r, s)
<1>1. Sane(s)
  BY DEF Entry, Sane
<1>2. Keeps(r, s)
  BY DEF Entry, Keeps, Sane
<1>3. Informs(r, s)
  BY DEF Entry, Sane, Informs, Answered
<1> QED BY <1>1, <1>2, <1>3 DEF Owns

\* The flag.
LEMMA OwnsGoLive ==
  ASSUME NEW r \in Entry, Sane(r), r.pc = "golive",
         NEW s, s = [[r EXCEPT !.live = TRUE]
                    EXCEPT !.pc = "stamp"]
  PROVE  Owns(r, s)
<1>1. Sane(s)
  BY DEF Entry, Sane
<1>2. Keeps(r, s)
  BY DEF Entry, Keeps, Sane
<1>3. Informs(r, s)
  BY DEF Entry, Sane, Informs, Answered
<1> QED BY <1>1, <1>2, <1>3 DEF Owns

\* Up again.
LEMMA OwnsUp ==
  ASSUME NEW r \in Entry, Sane(r), r.pc = "up",
         NEW s, s = [[r EXCEPT !.clean = "fresh"]
                    EXCEPT !.pc = "serve"]
  PROVE  Owns(r, s)
<1>1. Sane(s)
  BY DEF Entry, Sane
<1>2. Keeps(r, s)
  BY DEF Entry, Keeps, Sane
<1>3. Informs(r, s)
  BY DEF Entry, Sane, Informs, Answered
<1> QED BY <1>1, <1>2, <1>3 DEF Owns

\* A clean run is whole.
LEMMA OwnsCleanRun ==
  ASSUME NEW r \in Entry, Sane(r), r.live,
         NEW s, s = [r EXCEPT !.clean = "whole", !.tries = 0]
  PROVE  Owns(r, s)
<1>1. Sane(s)
  BY DEF Entry, Sane
<1>2. Keeps(r, s)
  BY DEF Entry, Keeps, Sane
<1>3. Informs(r, s)
  BY DEF Entry, Sane, Informs, Answered
<1> QED BY <1>1, <1>2, <1>3 DEF Owns

\* An event in hand, from the queue or for a restart, and a new instance.
LEMMA OwnsHand ==
  ASSUME NEW r \in Entry, Sane(r), NEW ev \in Events, NEW place,
         \/ r.pc = "pop" /\ place = "deliver"
         \/ r.pc = "config" /\ place = "revive",
         NEW s, s = [[r EXCEPT !.cur = ev] EXCEPT !.pc = place]
  PROVE  Sane(s) /\ Keeps(r, s)
<1>1. Sane(s)
  BY DEF Entry, Sane
<1>2. Keeps(r, s)
  BY DEF Entry, Keeps, Sane
<1> QED BY <1>1, <1>2

\* A new instance takes over from the old one.
LEMMA OwnsFresh ==
  ASSUME NEW r \in Entry, Sane(r), r.pc = "instantiate", NEW n \in Nat,
         NEW s, s = [[r EXCEPT !.gen = n, !.terminated = FALSE, !.overran = FALSE]
                    EXCEPT !.pc = "config"]
  PROVE  Renews(r, s)
<1>1. Sane(s)
  BY DEF Entry, Sane
<1>2. Informs(r, s)
  BY DEF Entry, Sane, Informs, Answered
<1>3. /\ s.stopping = r.stopping /\ s.thread = r.thread /\ s.retired = r.retired
      /\ s.scene = r.scene /\ s.entered = r.entered /\ ~s.terminated
  BY DEF Entry
<1> QED BY <1>1, <1>2, <1>3 DEF Renews

\* Every step of p's own thread, of its module and of the clock over it.
LEMMA OwnsIt ==
  ASSUME IInv, DInv, NEW p \in Plugins,
         \/ Dispatch(p) /\ ~Config(p) /\ ~Pop(p)
         \/ Module(p) \/ EnvFails(p) \/ GiveUp(p) \/ Overrun(p) \/ CleanRun(p)
  PROVE  Owns(e[p], e'[p])
<1>0. e[p] \in Entry /\ Sane(e[p]) /\ (e[p].pc # "none" => ~e[p].removed)
  BY EntryOf DEF DInv, IInv, Entries, Good, Threaded
<1> USE DEF Move, Run, RunTo, Goto, At
<1>1. CASE EnvOk(p) \/ EnvFails(p) \/ Hang(p) \/ Clear(p)
  <2>1. \E place \in {"serve", "gone", "hung"} :
          /\ e'[p] = [e[p] EXCEPT !.pc = place]
          /\ \/ e[p].pc = "env" /\ place \in {"serve", "gone"}
             \/ e[p].pc = "call" /\ place = "hung"
             \/ e[p].pc = "clear" /\ place = "gone"
    BY <1>1 DEF EnvOk, EnvFails, Hang, Clear, IInv, Entries
  <2> QED BY <1>0, <2>1, OwnsMove DEF Places
<1>2. CASE Serve(p) \/ Trapped(p) \/ Backoff(p) \/ Due(p)
  <2>1. \E place \in Places :
          /\ e'[p] = [e[p] EXCEPT !.pc = place]
          /\ \/ e[p].pc = "serve" /\ place = IF e[p].stopping \/ ~e[p].live THEN "leave"
                                      ELSE IF e[p].killed THEN "stuck" ELSE "pop"
             \/ e[p].pc = "trapped" /\ place \in {"stuck", "retire"}
             \/ e[p].pc = "backoff" /\ (e[p].told => e[p].stopping) /\ place = "due"
             \/ e[p].pc = "due" /\ place = IF e[p].stopping THEN "clear" ELSE "restart"
    BY <1>2 DEF Serve, Trapped, Backoff, Due, Places, IInv, Entries
  <2> QED BY <1>0, <2>1, OwnsMove
<1>3. CASE Deliver(p)
  <2>1. CASE e[p].cur.kind = "shutdown"
    <3>1. /\ e[p].pc = "deliver"
          /\ e'[p] = [[e[p] EXCEPT !.live = FALSE, !.told = TRUE] EXCEPT !.pc = "stamp"]
      BY <1>3, <2>1 DEF Deliver, IInv, Entries
    <3> QED BY <1>0, <2>1, <3>1, OwnsShutdown
  <2>2. CASE e[p].cur.kind # "shutdown"
    <3>1. e[p].pc = "deliver" /\ e'[p] = [e[p] EXCEPT !.pc = "stamp"]
      BY <1>3, <2>2 DEF Deliver, IInv, Entries
    <3> QED BY <1>0, <2>2, <3>1, OwnsDeliver
  <2> QED BY <2>1, <2>2
<1>4. CASE Stamp(p)
  <2>1. e[p].pc = "stamp" /\ e'[p] = [[e[p] EXCEPT !.entered = "in"] EXCEPT !.pc = "call"]
    BY <1>4 DEF Stamp, IInv, Entries
  <2> QED BY <1>0, <2>1, OwnsStamp
<1>5. CASE Contribute(p)
  <2>1. e[p].pc = "call" /\ e[p].enabled /\ e'[p] = [e[p] EXCEPT !.scene = TRUE]
    BY <1>5 DEF Contribute, IInv, Entries
  <2> QED BY <1>0, <2>1, OwnsContribute
<1>6. CASE Return(p)
  <2> DEFINE place == IF e[p].cur.kind = "shutdown" THEN "retire"
                      ELSE IF e[p].cur.kind = "start" THEN "up" ELSE "serve"
             seen == IF e[p].cur.kind \in {"config", "start"} THEN e[p].cur.v ELSE e[p].seen
  <2>1. /\ e[p].pc = "call"
        /\ e'[p] = [[e[p] EXCEPT !.entered = "out", !.seen = seen] EXCEPT !.pc = place]
    BY <1>6 DEF Return, IInv, Entries
  <2> QED BY <1>0, <2>1, OwnsReturn
<1>7. CASE Refuse(p) \/ Trap(p)
  <2>1. PICK place \in {"retire", "trapped"} :
          /\ e[p].pc \in {"call", "hung"}
          /\ e'[p] = [[e[p] EXCEPT !.entered = "out"] EXCEPT !.pc = place]
    BY <1>7 DEF Refuse, Trap, IInv, Entries
  <2> QED BY <1>0, <2>1, OwnsRefuse
<1>8. CASE Overrun(p)
  <2>1. /\ e'[p] = [e[p] EXCEPT !.entered = "over", !.overran = TRUE]
        /\ e[p].pc \in {"call", "hung"}
    BY <1>8 DEF Overrun, IInv, Entries
  <2> QED BY <1>0, <2>1, OwnsOverrun
<1>9. CASE Stuck(p)
  <2>1. Ev("stuck", 0) \in Events
    BY EvType DEF Kinds
  <2>2. PICK ev \in Events :
          e[p].pc = "stuck" /\ e'[p] = [[e[p] EXCEPT !.cur = ev] EXCEPT !.pc = "retire"]
    BY <1>9, <2>1 DEF Stuck, IInv, Entries
  <2> QED BY <1>0, <2>2, OwnsStuck
<1>10. CASE Retire(p)
  <2>1. PICK place \in IF e[p].retired THEN {"serve", "schedule"} ELSE {"drop"} :
          /\ e[p].pc = "retire"
          /\ e'[p] = [[e[p] EXCEPT !.live = FALSE, !.retired = TRUE] EXCEPT !.pc = place]
    BY <1>10 DEF Retire, Afterwards, IInv, Entries
  <2> QED BY <1>0, <2>1, OwnsRetire
<1>11. CASE Drop(p)
  <2>1. PICK place \in {"serve", "schedule"} :
          /\ e[p].pc = "drop"
          /\ e'[p] = [[e[p] EXCEPT !.live = FALSE, !.retired = TRUE, !.enabled = FALSE,
                                   !.scene = FALSE] EXCEPT !.pc = place]
    BY <1>11 DEF Drop, Dropped, Afterwards, IInv, Entries
  <2> QED BY <1>0, <2>1, OwnsDrop
<1>12. CASE Schedule(p)
  <2>1. e[p].pc = "schedule"
    BY <1>12 DEF Schedule
  <2>2. CASE e[p].stopping \/ Attempts = 0
    <3>1. e'[p] = [e[p] EXCEPT !.pc = "serve"]
      BY <1>12, <2>2 DEF Schedule, IInv, Entries
    <3>2. e'[p] = [[e[p] EXCEPT !.restarts = e[p].restarts, !.restart_at = e[p].restart_at]
                     EXCEPT !.pc = "serve"]
      BY <1>0, <3>1 DEF Entry
    <3> QED BY <1>0, <2>1, <3>2, OwnsSchedule
  <2>3. CASE ~(e[p].stopping \/ Attempts = 0)
    <3>1. \E n, b : e'[p] = [[e[p] EXCEPT !.restarts = n, !.restart_at = b]
                               EXCEPT !.pc = "serve"]
      BY <1>12, <2>3 DEF Schedule, IInv, Entries
    <3> QED BY <1>0, <2>1, <3>1, OwnsSchedule
  <2> QED BY <2>2, <2>3
<1>13. CASE Leave(p)
  <2>1. PICK place \in {"backoff", "clear"} :
          e[p].pc = "leave" /\ e'[p] = [[e[p] EXCEPT !.restart_at = FALSE] EXCEPT !.pc = place]
    BY <1>13 DEF Leave, IInv, Entries
  <2> QED BY <1>0, <2>1, OwnsLeave
<1>14. CASE Begin(p)
  <2>1. \E n, m : /\ e[p].pc = "restart"
                  /\ e'[p] = [[e[p] EXCEPT !.restarts = n, !.tries = m, !.clean = "none"]
                                EXCEPT !.pc = "instantiate"]
    BY <1>14 DEF Begin, IInv, Entries
  <2> QED BY <1>0, <2>1, OwnsBegin
<1>15. CASE GiveUp(p)
  <2>1. /\ e[p].pc \in {"instantiate", "config"}
        /\ e'[p] = [[e[p] EXCEPT !.restart_at = FALSE] EXCEPT !.pc = "serve"]
    BY <1>15 DEF GiveUp, IInv, Entries
  <2> QED BY <1>0, <2>1, OwnsGiveUp
<1>16. CASE Revive(p)
  <2>1. /\ e[p].pc = "revive"
        /\ e'[p] = [[e[p] EXCEPT !.killed = FALSE, !.retired = FALSE, !.enabled = TRUE]
                      EXCEPT !.pc = "golive"]
    BY <1>16 DEF Revive, IInv, Entries
  <2> QED BY <1>0, <2>1, OwnsRevive
<1>17. CASE GoLive(p)
  <2>1. e[p].pc = "golive" /\ e'[p] = [[e[p] EXCEPT !.live = TRUE] EXCEPT !.pc = "stamp"]
    BY <1>17 DEF GoLive, IInv, Entries
  <2> QED BY <1>0, <2>1, OwnsGoLive
<1>18. CASE Up(p)
  <2>1. e[p].pc = "up" /\ e'[p] = [[e[p] EXCEPT !.clean = "fresh"] EXCEPT !.pc = "serve"]
    BY <1>18 DEF Up, IInv, Entries
  <2> QED BY <1>0, <2>1, OwnsUp
<1>19. CASE CleanRun(p)
  <2>1. e'[p] = [e[p] EXCEPT !.clean = "whole", !.tries = 0] /\ e[p].live
    BY <1>19 DEF CleanRun, IInv, Entries
  <2> QED BY <1>0, <2>1, OwnsCleanRun
<1> QED
  BY <1>1, <1>2, <1>3, <1>4, <1>5, <1>6, <1>7, <1>8, <1>9, <1>10, <1>11, <1>12, <1>13,
     <1>14, <1>15, <1>16, <1>17, <1>18, <1>19 DEF Dispatch, Module

\* Of the other plugins, the watchdog and the API thread it touches nothing.
LEMMA OwnFrame ==
  ASSUME IInv, NEW p \in Plugins, Dispatch(p) \/ Module(p) \/ Swap(p) \/ World(p)
  PROVE  /\ \A q \in Plugins \ {p} : e'[q] = e[q]
         /\ UNCHANGED <<wd, api, started, values>>
         /\ \A q \in Plugins \ {p} : queue'[q] = queue[q]
<1>1. e \in [Plugins -> Entry] /\ queue \in [Plugins -> Seq(Events)]
  BY DEF IInv, Entries, Rest
<1> USE <1>1 DEF Move, Run, RunTo, Goto, Put
<1>2. CASE Dispatch(p)
  BY <1>2 DEF Dispatch, EnvOk, Serve, Pop, Deliver, Stamp, Trapped, Stuck, Retire, Drop,
     Schedule, Leave, Backoff, Due, Begin, Config, Revive, GoLive, Up, Clear
<1>3. CASE Module(p)
  BY <1>3 DEF Module, Contribute, Return, Refuse, Trap, Hang
<1>4. CASE Swap(p)
  BY <1>4 DEF Swap
<1>5. CASE World(p)
  BY <1>5 DEF World, EnvFails, GiveUp, Overrun, CleanRun, IoPush
<1> QED BY <1>2, <1>3, <1>4, <1>5

\* An entry that keeps what the others go by keeps what is said of them.
LEMMA KeepsOthers ==
  ASSUME IInv, DInv, NEW p \in Plugins, Keeps(e[p], e'[p]), Sane(e'[p]),
         \A q \in Plugins \ {p} : e'[q] = e[q], UNCHANGED <<wd, api, started>>
  PROVE  Aimed' /\ Halted' /\ Unborn' /\ Cleared' /\ \A q \in Plugins : Sane(e'[q])
<1>0. \A q \in Plugins : Keeps(e[q], e'[q])
  BY DEF Keeps, DInv
<1>1. Aimed'
  BY <1>0 DEF DInv, Aimed, Keeps, IInv, Watched
<1>2. Halted'
  BY <1>0 DEF DInv, Halted, Keeps
<1>3. Unborn'
  BY <1>0 DEF DInv, Unborn, Keeps
<1>4. Cleared'
  <2>1. api.at \in {"tombstone", "free"} => api.p \in Plugins /\ e[api.p].pc = "none"
    BY DEF IInv, Unloaded, Entries, Good, Threaded
  <2>2. api.at \in {"inline", "end"} => \A q \in Plugins : e[q].pc = "none"
    BY DEF IInv, Stopped, Entries, Good, Threaded
  <2> QED BY <1>0, <2>1, <2>2 DEF DInv, Cleared, Keeps
<1>5. \A q \in Plugins : Sane(e'[q])
  BY DEF DInv
<1> QED BY <1>1, <1>2, <1>3, <1>4, <1>5

\* No step puts a call entered behind the tick's clock among the late.
LEMMA OwnDated ==
  ASSUME IInv, DInv, NEW p \in Plugins,
         Dispatch(p) \/ Module(p) \/ EnvFails(p) \/ GiveUp(p) \/ Overrun(p) \/ CleanRun(p),
         Keeps(e[p], e'[p]), \A q \in Plugins \ {p} : e'[q] = e[q]
  PROVE  Dated'
<1>1. CASE Stamp(p)
  BY <1>1 DEF Stamp, DInv, Dated, IInv, Rest
<1>2. CASE ~Stamp(p)
  <2>1. UNCHANGED late
    BY <1>2 DEF Dispatch, EnvOk, Serve, Pop, Deliver, Trapped, Stuck, Retire, Drop,
       Schedule, Leave, Backoff, Due, Begin, Config, Revive, GoLive, Up, Clear, Module,
       Contribute, Return, Refuse, Trap, Hang, EnvFails, GiveUp, Overrun, CleanRun, Run, RunTo
  <2>2. e[p].pc = "stamp" => CleanRun(p)
    BY <1>2 DEF Dispatch, EnvOk, Serve, Pop, Deliver, Trapped, Stuck, Retire, Drop,
       Schedule, Leave, Backoff, Due, Begin, Config, Revive, GoLive, Up, Clear, Module,
       Contribute, Return, Refuse, Trap, Hang, EnvFails, GiveUp, Overrun, At
  <2>3. CleanRun(p) => e'[p].pc = e[p].pc
    BY EntryOf DEF CleanRun, IInv, Entries, Entry
  <2>4. e'[p].entered = "in" => e[p].entered = "in"
    BY <2>2, <2>3 DEF Keeps
  <2> QED BY <2>1, <2>4 DEF DInv, Dated, IInv, Rest
<1> QED BY <1>1, <1>2

-------------------------------------------------------------------------------
(* The settings in the queue                                                 *)

Told == {"ev", "config", "grants", "shutdown"}

\* No settings event waits.
NoneWaits(q) == \A i \in 1..Len(q) : ~IsConfig(q, i)
AllTold(q) == \A i \in 1..Len(q) : q[i].kind \in Told

\* What is queued stays one of the four kinds.
LEMMA ToldTail ==
  ASSUME NEW q \in Seq(Events), q # <<>>, AllTold(q)
  PROVE  AllTold(Tail(q)) /\ Head(q).kind \in Told
<1>1. /\ Len(Tail(q)) = Len(q) - 1 /\ Len(q) \in Nat /\ Len(q) >= 1 /\ Head(q) = q[1]
      /\ \A i \in 1..Len(q) - 1 : Tail(q)[i] = q[i + 1]
  OBVIOUS
<1> QED BY <1>1 DEF AllTold

\* What is put behind such events is one of them.
LEMMA ToldAppend ==
  ASSUME NEW q \in Seq(Events), NEW ev \in Events, ev.kind \in Told, AllTold(q)
  PROVE  AllTold(Append(q, ev))
<1> DEFINE n == Append(q, ev)
<1>1. /\ Len(n) = Len(q) + 1 /\ Len(q) \in Nat /\ n[Len(q) + 1] = ev
      /\ \A i \in 1..Len(q) : n[i] = q[i]
  OBVIOUS
<1> HIDE DEF n
<1>2. AllTold(n)
  BY <1>1 DEF AllTold
<1> QED BY <1>2 DEF n

\* Behind the head the last is still the last.
LEMMA LastOfTail ==
  ASSUME NEW q \in Seq(Events), q # <<>>, NEW said \in Nat, LastIsTrue(q, said)
  PROVE  /\ LastIsTrue(Tail(q), said)
         /\ NoneWaits(Tail(q)) /\ Head(q).kind = "config" => Head(q).v >= said
         /\ NoneWaits(Tail(q)) /\ Head(q).kind # "config" => NoneWaits(q)
<1>1. /\ Len(Tail(q)) = Len(q) - 1 /\ Len(q) \in Nat /\ Len(q) >= 1
      /\ \A i \in 1..Len(q) - 1 : Tail(q)[i] = q[i + 1]
      /\ Head(q) = q[1] /\ Head(q) \in Events
  OBVIOUS
<1>2. \A i \in 1..Len(q) : i = 1 \/ (i - 1 \in 1..Len(q) - 1 /\ q[i] = Tail(q)[i - 1])
  BY <1>1
<1>3. LastIsTrue(Tail(q), said)
  <2> SUFFICES ASSUME NEW i \in 1..Len(q) - 1, IsConfig(Tail(q), i),
                      \A j \in 1..Len(q) - 1 : j > i => ~IsConfig(Tail(q), j)
               PROVE  Tail(q)[i].v >= said
    BY <1>1 DEF LastIsTrue
  <2>1. i + 1 \in 1..Len(q) /\ IsConfig(q, i + 1) /\ q[i + 1] = Tail(q)[i]
    BY <1>1 DEF IsConfig
  <2>2. ASSUME NEW j \in 1..Len(q), j > i + 1 PROVE ~IsConfig(q, j)
    <3>1. j - 1 \in 1..Len(q) - 1 /\ j - 1 > i /\ q[j] = Tail(q)[j - 1]
      BY <1>1, <1>2, <2>2
    <3> QED BY <3>1 DEF IsConfig
  <2> QED BY <2>1, <2>2 DEF LastIsTrue
<1>4. ASSUME NoneWaits(Tail(q)), NEW j \in 1..Len(q), j > 1 PROVE ~IsConfig(q, j)
  <2>1. j - 1 \in 1..Len(Tail(q)) /\ q[j] = Tail(q)[j - 1]
    BY <1>1, <1>2, <1>4
  <2> QED BY <1>4, <2>1 DEF IsConfig, NoneWaits
<1>5. NoneWaits(Tail(q)) /\ Head(q).kind = "config" => Head(q).v >= said
  BY <1>1, <1>4 DEF LastIsTrue, IsConfig
<1>6. NoneWaits(Tail(q)) /\ Head(q).kind # "config" => NoneWaits(q)
  BY <1>1, <1>4 DEF NoneWaits, IsConfig
<1> QED BY <1>3, <1>5, <1>6

\* Behind an event that is none of settings the last is still the last.
LEMMA LastOfAppend ==
  ASSUME NEW q \in Seq(Events), NEW ev \in Events, ev.kind # "config",
         NEW said \in Nat, LastIsTrue(q, said)
  PROVE  /\ LastIsTrue(Append(q, ev), said)
         /\ NoneWaits(Append(q, ev)) => NoneWaits(q)
<1> DEFINE n == Append(q, ev)
<1>1. /\ Len(n) = Len(q) + 1 /\ Len(q) \in Nat /\ n[Len(q) + 1] = ev
      /\ \A i \in 1..Len(q) : n[i] = q[i]
  OBVIOUS
<1> HIDE DEF n
<1>2. \A i \in 1..Len(n) : IsConfig(n, i) => i \in 1..Len(q) /\ IsConfig(q, i)
  BY <1>1 DEF IsConfig
<1>3. \A i \in 1..Len(q) : i \in 1..Len(n) /\ (IsConfig(q, i) => IsConfig(n, i))
  BY <1>1 DEF IsConfig
<1>4. LastIsTrue(n, said)
  BY <1>1, <1>2, <1>3 DEF LastIsTrue
<1>5. NoneWaits(n) => NoneWaits(q)
  BY <1>3 DEF NoneWaits
<1> QED BY <1>4, <1>5 DEF n

\* A settings event that is pushed is the last.
LEMMA LastOfPush ==
  ASSUME NEW q \in Seq(Events), NEW ev \in Events, ev.kind = "config",
         NEW said \in Nat, ev.v >= said
  PROVE  LastIsTrue(Append(q, ev), said) /\ ~NoneWaits(Append(q, ev))
<1> DEFINE n == Append(q, ev)
<1>1. /\ Len(n) = Len(q) + 1 /\ Len(q) \in Nat /\ n[Len(q) + 1] = ev
  OBVIOUS
<1> HIDE DEF n
<1>2. IsConfig(n, Len(q) + 1) /\ Len(q) + 1 \in 1..Len(n)
  BY <1>1 DEF IsConfig
<1>3. LastIsTrue(n, said)
  BY <1>1, <1>2 DEF LastIsTrue
<1> QED BY <1>2, <1>3 DEF n, NoneWaits

\* The settings of a plugin as its queue and its entry tell them.
InformedBy(q, r, s) ==
    LastIsTrue(q, s) /\ (NoneWaits(q) => Answered(r, s))

\* The parts of Informed, before a step and behind it.
LEMMA InformedIs ==
  ASSUME NEW p \in Plugins
  PROVE  /\ Informed(p) <=> /\ values[p].said <= values[p].v /\ AllTold(queue[p])
                            /\ ~Pending(p) => InformedBy(queue[p], e[p], values[p].said)
         /\ Informed(p)' <=> /\ values'[p].said <= values'[p].v /\ AllTold(queue'[p])
                             /\ ~Pending(p)' => InformedBy(queue'[p], e'[p], values'[p].said)
  BY DEF Informed, InformedBy, NoneWaits, AllTold, Told

\* The settings and the queue of p have their types.
LEMMA QueueOf ==
  ASSUME IInv, NEW p \in Plugins
  PROVE  /\ queue[p] \in Seq(Events) /\ values[p].said \in Nat /\ values[p].v \in Nat
         /\ values[p].v \in 0..MaxConfigs /\ e[p] \in Entry
  BY EntryOf DEF IInv, Rest, Settings

\* Whose entry, queue and settings stand still is informed as before.
LEMMA InformedStill ==
  ASSUME DInv, NEW q \in Plugins, e'[q] = e[q], queue'[q] = queue[q],
         values'[q] = values[q], Pending(q) => Pending(q)'
  PROVE  Informed(q)'
  BY InformedIs DEF DInv

\* A step of p's own thread that leaves its queue alone.
LEMMA InformedOn ==
  ASSUME IInv, DInv, NEW p \in Plugins, queue'[p] = queue[p],
         values'[p] = values[p], Pending(p) => Pending(p)',
         Informs(e[p], e'[p]) \/ Answered(e'[p], values[p].said)
  PROVE  Informed(p)'
<1>1. Informed(p) /\ values[p].said \in Nat
  BY QueueOf DEF DInv
<1>2. InformedBy(queue[p], e[p], values[p].said) => InformedBy(queue[p], e'[p], values[p].said)
  BY <1>1 DEF InformedBy, Informs
<1> QED BY <1>1, <1>2, InformedIs

\* Another event behind the rest.
LEMMA InformedPut ==
  ASSUME IInv, DInv, NEW p \in Plugins, Informs(e[p], e'[p]), NEW ev \in Events,
         ev.kind \in Told, ev.kind # "config", queue'[p] = Append(queue[p], ev),
         values'[p] = values[p], Pending(p) => Pending(p)'
  PROVE  Informed(p)'
<1>1. Informed(p) /\ values[p].said \in Nat /\ queue[p] \in Seq(Events)
  BY QueueOf DEF DInv
<1>2. AllTold(queue[p]) /\ AllTold(queue'[p])
  BY <1>1, InformedIs, ToldAppend
<1>3. InformedBy(queue[p], e[p], values[p].said)
        => InformedBy(queue'[p], e'[p], values[p].said)
  BY <1>1, LastOfAppend DEF InformedBy, Informs
<1> QED BY <1>1, <1>2, <1>3, InformedIs

\* The queue emptied of a plugin out of service or on its way out.
LEMMA InformedEmptied ==
  ASSUME IInv, DInv, NEW p \in Plugins, queue'[p] = <<>>, values'[p] = values[p],
         (~e'[p].live /\ e'[p].pc \notin {"revive", "golive"}) \/ e'[p].pc = "gone"
  PROVE  Informed(p)'
<1>1. Informed(p) /\ values[p].said \in Nat
  BY QueueOf DEF DInv
<1>2. Answered(e'[p], values[p].said)
  BY DEF Answered
<1>3. InformedBy(<<>>, e'[p], values[p].said) /\ AllTold(<<>>)
  BY <1>2 DEF InformedBy, LastIsTrue, AllTold
<1> QED BY <1>1, <1>3, InformedIs

\* popFor takes the settings in hand that were the last to wait.
LEMMA PopInforms ==
  ASSUME IInv, DInv, NEW p \in Plugins, Pop(p), queue[p] # <<>>
  PROVE  Informed(p)' /\ Sane(e'[p]) /\ Keeps(e[p], e'[p])
<1> DEFINE ev == Head(queue[p])
<1>1. Informed(p) /\ values[p].said \in Nat /\ queue[p] \in Seq(Events) /\ e[p] \in Entry
  BY QueueOf DEF DInv
<1>2. /\ e'[p] = [[e[p] EXCEPT !.cur = Head(queue[p])] EXCEPT !.pc = "deliver"]
      /\ e[p].pc = "pop" /\ queue'[p] = Tail(queue[p]) /\ UNCHANGED <<values, api>>
  BY DEF Pop, Move, At, IInv, Entries, Rest
<1>3. Head(queue[p]) \in Events
  BY <1>1
<1>4. Sane(e'[p]) /\ Keeps(e[p], e'[p])
  BY <1>1, <1>2, <1>3, OwnsHand DEF DInv
<1>5. /\ e'[p].pc = "deliver" /\ e'[p].cur = Head(queue[p])
      /\ e'[p].live = e[p].live /\ e'[p].stopping = e[p].stopping /\ e'[p].seen = e[p].seen
  BY <1>1, <1>2 DEF Entry
<1>6. AllTold(queue[p]) /\ AllTold(Tail(queue[p])) /\ (Pending(p)' <=> Pending(p))
      /\ Head(queue[p]).kind \in Told
  BY <1>1, <1>2, InformedIs, ToldTail DEF Pending
<1>7. ASSUME InformedBy(queue[p], e[p], values[p].said)
      PROVE  InformedBy(Tail(queue[p]), e'[p], values[p].said)
  <2>1. /\ LastIsTrue(Tail(queue[p]), values[p].said)
        /\ NoneWaits(Tail(queue[p])) /\ Head(queue[p]).kind = "config" =>
             Head(queue[p]).v >= values[p].said
        /\ NoneWaits(Tail(queue[p])) /\ Head(queue[p]).kind # "config" => NoneWaits(queue[p])
    BY <1>1, <1>7, LastOfTail DEF InformedBy
  <2>2. NoneWaits(Tail(queue[p])) => Answered(e'[p], values[p].said)
    BY <1>2, <1>5, <1>6, <1>7, <2>1 DEF InformedBy, Answered, Told
  <2> QED BY <2>1, <2>2 DEF InformedBy
<1> QED BY <1>1, <1>2, <1>4, <1>6, <1>7, InformedIs

\* A restart reads the settings in force.
LEMMA ConfigInforms ==
  ASSUME IInv, DInv, NEW p \in Plugins, Config(p)
  PROVE  Informed(p)' /\ Sane(e'[p]) /\ Keeps(e[p], e'[p])
<1>1. Informed(p) /\ values[p].said \in Nat /\ values[p].v \in 0..MaxConfigs /\ e[p] \in Entry
  BY QueueOf DEF DInv
<1>2. /\ e'[p] = [[e[p] EXCEPT !.cur = Ev("start", values[p].v)] EXCEPT !.pc = "revive"]
      /\ e[p].pc = "config" /\ UNCHANGED <<queue, values, api>>
  BY DEF Config, Run, Move, At, IInv, Entries
<1>3. Ev("start", values[p].v) \in Events
  BY <1>1, EvType DEF Kinds
<1>4. Sane(e'[p]) /\ Keeps(e[p], e'[p])
  BY <1>1, <1>2, <1>3, OwnsHand DEF DInv
<1>5. /\ e'[p].pc = "revive" /\ e'[p].cur.kind = "start" /\ e'[p].cur.v = values[p].v
  BY <1>1, <1>2 DEF Entry, Ev
<1>6. values[p].said <= values[p].v
  BY <1>1, InformedIs
<1>7. Answered(e'[p], values[p].said)
  BY <1>1, <1>5, <1>6 DEF Answered
<1> QED BY <1>2, <1>4, <1>7, InformedOn DEF Pending

-------------------------------------------------------------------------------
(* Every step keeps the second invariant                                     *)

\* The queue and the settings behind a step of p's own thread.
LEMMA OwnInforms ==
  ASSUME IInv, DInv, NEW p \in Plugins, Owns(e[p], e'[p]),
         \/ Dispatch(p) /\ ~Config(p) /\ ~Pop(p)
         \/ Module(p) \/ EnvFails(p) \/ GiveUp(p) \/ Overrun(p) \/ CleanRun(p)
  PROVE  Informed(p)'
<1>1. UNCHANGED <<values, api>> /\ (Pending(p) => Pending(p)')
  BY OwnFrame DEF World, Pending
<1>2. CASE Drop(p) \/ Clear(p)
  <2>1. queue'[p] = <<>>
    BY <1>2 DEF Drop, Clear, IInv, Rest
  <2>2. Clear(p) => e'[p].pc = "gone"
    BY EntryOf DEF Clear, Goto, Move, IInv, Entries, Entry
  <2>3. Drop(p) => ~e'[p].live /\ e'[p].pc \notin {"revive", "golive"}
    BY EntryOf DEF Drop, Move, Dropped, Afterwards, IInv, Entries, Entry
  <2> QED BY <1>1, <1>2, <2>1, <2>2, <2>3, InformedEmptied
<1>3. CASE Up(p)
  <2>1. queue'[p] = Append(queue[p], Ev("grants", 0))
    BY <1>3 DEF Up, Put, IInv, Rest
  <2>2. Ev("grants", 0) \in Events /\ Ev("grants", 0).kind = "grants"
    BY EvType DEF Kinds, Ev
  <2> QED BY <1>1, <2>1, <2>2, InformedPut DEF Owns, Told
<1>4. CASE ~Drop(p) /\ ~Clear(p) /\ ~Up(p)
  <2>1. UNCHANGED queue
    BY <1>4 DEF Dispatch, EnvOk, Serve, Deliver, Stamp, Trapped, Stuck, Retire,
       Schedule, Leave, Backoff, Due, Begin, Revive, GoLive, Module,
       Contribute, Return, Refuse, Trap, Hang, EnvFails, GiveUp, Overrun, CleanRun, Run, RunTo
  <2> QED BY <1>1, <2>1, InformedOn DEF Owns
<1> QED BY <1>2, <1>3, <1>4

\* A step of p's own thread keeps the second invariant.
LEMMA OwnKeepsDInv ==
  ASSUME IInv, DInv, NEW p \in Plugins,
         \/ Dispatch(p) \/ Module(p)
         \/ EnvFails(p) \/ GiveUp(p) \/ Overrun(p) \/ CleanRun(p)
  PROVE  DInv'
<1>1. /\ \A q \in Plugins \ {p} : e'[q] = e[q] /\ queue'[q] = queue[q]
      /\ UNCHANGED <<wd, api, started, values>>
  BY OwnFrame DEF World
<1>2. Sane(e'[p]) /\ Keeps(e[p], e'[p]) /\ Informed(p)'
  <2>1. CASE Pop(p) /\ queue[p] = <<>>
    <3>1. e[p] \in Entry /\ Sane(e[p]) /\ e[p].pc = "pop" /\ UNCHANGED queue
          /\ e'[p] = [e[p] EXCEPT !.pc = "serve"]
      BY <2>1, EntryOf DEF DInv, Pop, Goto, Move, At, IInv, Entries
    <3>2. Owns(e[p], e'[p])
      BY <3>1, OwnsMove DEF Places
    <3> QED BY <1>1, <3>1, <3>2, InformedOn DEF Owns, Pending
  <2>2. CASE ~Pop(p) /\ ~Config(p)
    BY <2>2, OwnsIt, OwnInforms DEF Owns
  <2> QED BY <2>1, <2>2, PopInforms, ConfigInforms
<1>3. Aimed' /\ Halted' /\ Unborn' /\ Cleared' /\ \A q \in Plugins : Sane(e'[q])
  BY <1>1, <1>2, KeepsOthers
<1>4. Dated'
  BY <1>1, <1>2, OwnDated
<1>5. \A q \in Plugins : Informed(q)'
  BY <1>1, <1>2, InformedStill DEF Pending
<1> QED BY <1>3, <1>4, <1>5 DEF DInv

\* The swap waits for the registry lock: no kill is on its way to the old
\* instance, and unload and stop aim at none that restarts.
LEMMA SwapKeepsDInv == ASSUME IInv, DInv, NEW p \in Plugins, Swap(p) PROVE DInv'
<1>1. /\ \A q \in Plugins \ {p} : e'[q] = e[q] /\ queue'[q] = queue[q]
      /\ UNCHANGED <<wd, api, started, values, queue, late>>
      /\ wd.at = "idle" /\ e[p].pc = "instantiate" /\ e[p] \in Entry /\ Sane(e[p])
  BY OwnFrame, EntryOf DEF Swap, Run, RegFree, At, DInv
<1>2. PICK n \in Nat :
        e'[p] = [[e[p] EXCEPT !.gen = n, !.terminated = FALSE, !.overran = FALSE]
                   EXCEPT !.pc = "config"]
  <2>1. e[p].gen + 1 \in Nat
    BY <1>1 DEF Entry
  <2> QED BY <2>1 DEF Swap, Run, Move, Fresh, IInv, Entries
<1>3. Renews(e[p], e'[p])
  BY <1>1, <1>2, OwnsFresh
<1>4. \A q \in Plugins : /\ Sane(e'[q]) /\ e'[q].stopping = e[q].stopping
                         /\ e'[q].thread = e[q].thread /\ e'[q].retired = e[q].retired
                         /\ e'[q].scene = e[q].scene /\ e'[q].entered = e[q].entered
                         /\ (e'[q].terminated => e[q].terminated)
  BY <1>1, <1>3 DEF DInv, Renews
<1>5. Aimed'
  BY <1>1 DEF Aimed
<1>6. Dated'
  <2>1. late \subseteq Plugins /\ \A q \in late : e[q].entered # "in"
    BY DEF DInv, Dated, IInv, Rest
  <2>2. late' = late
    BY <1>1
  <2> QED BY <1>4, <2>1, <2>2 DEF Dated
<1>7. Halted'
  BY <1>1, <1>4 DEF DInv, Halted
<1>8. Unborn' /\ Cleared'
  <2>1. api.at \in {"tombstone", "free"} => api.p \in Plugins
    BY DEF IInv, Unloaded
  <2> QED BY <1>1, <1>4, <2>1 DEF DInv, Unborn, Cleared
<1>9. \A q \in Plugins : Informed(q)'
  BY <1>1, <1>3, InformedOn, InformedStill DEF Pending, Renews
<1> QED BY <1>4, <1>5, <1>6, <1>7, <1>8, <1>9 DEF DInv

\* An event of the I/O thread goes behind the settings that wait.
LEMMA IoPushKeepsDInv == ASSUME IInv, DInv, NEW p \in Plugins, IoPush(p) PROVE DInv'
<1>1. UNCHANGED <<e, wd, api, started, values, late>>
  BY DEF IoPush
<1>2. /\ queue'[p] = Append(queue[p], Ev("ev", 0))
      /\ \A q \in Plugins \ {p} : queue'[q] = queue[q]
  BY DEF IoPush, Put, IInv, Rest
<1>3. Ev("ev", 0) \in Events /\ Ev("ev", 0).kind = "ev"
  BY EvType DEF Kinds, Ev
<1>4. \A q \in Plugins : Informed(q)'
  BY <1>1, <1>2, <1>3, InformedPut, InformedStill DEF Informs, Told, Pending
<1> QED BY <1>1, <1>4 DEF DInv, Aimed, Dated, Halted, Unborn, Cleared

\* What the watchdog and the API thread write into an entry in its place:
\* nothing that is aimed at, waited for or counted on changes.
Bears(r, s) ==
    /\ Sane(s)
    /\ s.gen = r.gen /\ s.overran = r.overran /\ s.entered = r.entered
    /\ s.pc = r.pc /\ s.thread = r.thread
    /\ (r.stopping => s.stopping) /\ (r.retired => s.retired) /\ (s.scene => r.scene)

Unmarked(r, s) == s.terminated = r.terminated /\ s.stopping = r.stopping

\* Flags alone.
LEMMA BearsFlags ==
  ASSUME NEW r \in Entry, Sane(r), NEW s,
         \/ s = [r EXCEPT !.stopping = TRUE]
         \/ s = [r EXCEPT !.terminated = TRUE] /\ (r.overran \/ r.stopping)
  PROVE  Bears(r, s) /\ Informs(r, s)
<1>1. CASE s = [r EXCEPT !.stopping = TRUE]
  <2>1. Sane(s)
    BY <1>1 DEF Entry, Sane
  <2>2. Informs(r, s)
    BY <1>1 DEF Entry, Informs, Answered
  <2> QED BY <1>1, <2>1, <2>2 DEF Entry, Bears
<1>2. CASE s = [r EXCEPT !.terminated = TRUE] /\ (r.overran \/ r.stopping)
  <2>1. Sane(s)
    BY <1>2 DEF Entry, Sane
  <2>2. Informs(r, s)
    BY <1>2 DEF Entry, Informs, Answered
  <2> QED BY <1>2, <2>1, <2>2 DEF Entry, Bears
<1> QED BY <1>1, <1>2

\* A claim, a free and a tombstone.
LEMMA BearsMarks ==
  ASSUME NEW r \in Entry, Sane(r), NEW s,
         \/ s = [r EXCEPT !.killed = TRUE]
         \/ s = [r EXCEPT !.freed = TRUE]
         \/ s = [r EXCEPT !.removed = TRUE] /\ r.retired
  PROVE  Bears(r, s) /\ Informs(r, s) /\ Unmarked(r, s)
<1>1. CASE s = [r EXCEPT !.killed = TRUE]
  <2>1. Sane(s) /\ Unmarked(r, s)
    BY <1>1 DEF Entry, Sane, Unmarked
  <2>2. Informs(r, s)
    BY <1>1 DEF Entry, Informs, Answered
  <2> QED BY <1>1, <2>1, <2>2 DEF Entry, Bears
<1>2. CASE s = [r EXCEPT !.freed = TRUE]
  <2>1. Sane(s) /\ Unmarked(r, s)
    BY <1>2 DEF Entry, Sane, Unmarked
  <2>2. Informs(r, s)
    BY <1>2 DEF Entry, Informs, Answered
  <2> QED BY <1>2, <2>1, <2>2 DEF Entry, Bears
<1>3. CASE s = [r EXCEPT !.removed = TRUE] /\ r.retired
  <2>1. Sane(s) /\ Unmarked(r, s)
    BY <1>3 DEF Entry, Sane, Unmarked
  <2>2. Informs(r, s)
    BY <1>3 DEF Entry, Informs, Answered
  <2> QED BY <1>3, <2>1, <2>2 DEF Entry, Bears
<1> QED BY <1>1, <1>2, <1>3

\* A record erased by the API thread, which has found its thread gone.
LEMMA BearsErased ==
  ASSUME NEW r \in Entry, Sane(r), r.pc = "none", NEW s,
         \/ s = [Dropped(r) EXCEPT !.told = TRUE]
         \/ s = Dropped(r)
         \/ s = [r EXCEPT !.live = FALSE] /\ r.retired
  PROVE  Bears(r, s) /\ Unmarked(r, s) /\ ~s.live /\ s.retired /\ ~s.scene
<1>1. CASE s = [Dropped(r) EXCEPT !.told = TRUE]
  <2>1. Sane(s) /\ Unmarked(r, s) /\ ~s.live /\ s.retired /\ ~s.scene
    BY <1>1 DEF Entry, Sane, Unmarked, Dropped
  <2> QED BY <1>1, <2>1 DEF Entry, Bears, Dropped
<1>2. CASE s = Dropped(r)
  <2>1. Sane(s) /\ Unmarked(r, s) /\ ~s.live /\ s.retired /\ ~s.scene
    BY <1>2 DEF Entry, Sane, Unmarked, Dropped
  <2> QED BY <1>2, <2>1 DEF Entry, Bears, Dropped
<1>3. CASE s = [r EXCEPT !.live = FALSE] /\ r.retired
  <2>1. Sane(s) /\ Unmarked(r, s) /\ ~s.live /\ s.retired /\ ~s.scene
    BY <1>3 DEF Entry, Sane, Unmarked
  <2> QED BY <1>3, <2>1 DEF Entry, Bears
<1> QED BY <1>1, <1>2, <1>3

\* A thread that begins, one that could not, and one that is joined.
LEMMA SaneThread ==
  ASSUME NEW r \in Entry, Sane(r), NEW s,
         \/ /\ r.pc = "none" /\ r.live /\ ~r.terminated /\ ~r.stopping
            /\ s = [[r EXCEPT !.stopping = FALSE, !.thread = TRUE] EXCEPT !.pc = "env"]
         \/ r.pc = "none" /\ ~r.terminated /\ s = [Dropped(r) EXCEPT !.stopping = FALSE]
         \/ r.pc = "gone" /\ r.stopping /\ s = [r EXCEPT !.thread = FALSE, !.pc = "none"]
  PROVE  /\ Sane(s) /\ Informs(r, s)
         /\ s.gen = r.gen /\ s.overran = r.overran /\ s.entered = r.entered
         /\ (s.scene => r.scene) /\ (s.terminated => r.terminated)
         /\ (s.stopping => r.stopping)
<1>1. CASE /\ r.pc = "none" /\ r.live /\ ~r.terminated /\ ~r.stopping
           /\ s = [[r EXCEPT !.stopping = FALSE, !.thread = TRUE] EXCEPT !.pc = "env"]
  <2>1. Sane(s)
    BY <1>1 DEF Entry, Sane
  <2>2. Informs(r, s)
    BY <1>1 DEF Entry, Informs, Answered
  <2> QED BY <1>1, <2>1, <2>2 DEF Entry
<1>2. CASE r.pc = "none" /\ ~r.terminated /\ s = [Dropped(r) EXCEPT !.stopping = FALSE]
  <2>1. Sane(s)
    BY <1>2 DEF Entry, Sane, Dropped
  <2>2. Informs(r, s)
    BY <1>2 DEF Entry, Informs, Answered, Dropped
  <2> QED BY <1>2, <2>1, <2>2 DEF Entry, Dropped
<1>3. CASE r.pc = "gone" /\ r.stopping /\ s = [r EXCEPT !.thread = FALSE, !.pc = "none"]
  <2>1. Sane(s)
    BY <1>3 DEF Entry, Sane
  <2>2. Informs(r, s)
    BY <1>3 DEF Entry, Informs, Answered
  <2> QED BY <1>3, <2>1, <2>2 DEF Entry
<1> QED BY <1>1, <1>2, <1>3

\* A thread inside a call has its handle.
LEMMA InsideHasThread ==
  ASSUME IInv, DInv, NEW p \in Plugins
  PROVE  /\ e[p] \in Entry /\ Sane(e[p])
         /\ (e[p].entered # "out" => e[p].pc \in {"call", "hung"})
         /\ (e[p].pc # "none" => e[p].thread)
  BY EntryOf DEF DInv, Sane, IInv, Entries, Good, Threaded

\* The tick's clock, the walk and its end.
LEMMA WalkKeepsDInv ==
  ASSUME IInv, DInv, Tick \/ EndWalk \/ \E p \in Plugins : Look(p)
  PROVE  DInv'
<1>1. UNCHANGED <<e, queue, values, api, started>>
  BY DEF Tick, EndWalk, Look
<1>2. wd'.at \notin {"claim", "kill"}
  BY DEF Tick, EndWalk, Look, IInv, Rest
<1>3. Dated'
  <2>1. CASE Tick
    BY <2>1 DEF Tick, Dated
  <2>2. CASE UNCHANGED late
    BY <1>1, <2>2 DEF DInv, Dated
  <2> QED BY <2>1, <2>2 DEF EndWalk, Look
<1>4. Aimed' /\ Halted' /\ Unborn' /\ Cleared'
  BY <1>1, <1>2 DEF DInv, Aimed, Halted, Unborn, Cleared
<1>5. \A q \in Plugins : Sane(e'[q]) /\ Informed(q)'
  BY <1>1, InformedStill DEF DInv, Pending
<1> QED BY <1>3, <1>4, <1>5 DEF DInv

\* The watchdog goes on to claim only a call that is over its budget, since one
\* entered later is not late by its clock.
LEMMA JudgeKeepsDInv == ASSUME IInv, DInv, NEW p \in Plugins, Judge(p) PROVE DInv'
<1>1. UNCHANGED <<e, queue, values, late, api, started>>
  BY DEF Judge
<1>2. /\ wd'.p = p /\ wd'.gen = e[p].gen /\ e[p] \in Entry
      /\ wd'.at \in {"claim", "kill"} => e[p].entered # "out" /\ p \in late
  BY EntryOf DEF Judge, IInv, Rest
<1>3. wd'.at \in {"claim", "kill"} => e[p].overran /\ e[p].thread
  <2>1. p \in late /\ e[p].entered # "out" => e[p].entered = "over"
    BY <1>2 DEF DInv, Dated, Entry
  <2> QED BY <1>2, <2>1, InsideHasThread DEF Sane
<1>4. Aimed' /\ Dated' /\ Halted' /\ Unborn' /\ Cleared'
  BY <1>1, <1>2, <1>3 DEF DInv, Aimed, Dated, Halted, Unborn, Cleared
<1>5. \A q \in Plugins : Sane(e'[q]) /\ Informed(q)'
  BY <1>1, InformedStill DEF DInv, Pending
<1> QED BY <1>4, <1>5 DEF DInv

\* The claim marks the entry, and the blow falls on the instance that was late.
LEMMA ClaimKeepsDInv ==
  ASSUME IInv, DInv, NEW p \in Plugins, Claim(p) \/ Kill(p)
  PROVE  DInv'
<1>1. /\ UNCHANGED <<queue, values, late, api, started>>
      /\ wd.at \in {"claim", "kill"} /\ wd.p = p /\ wd'.p = p /\ wd'.gen = wd.gen
      /\ Kill(p) => wd'.at = "walk"
      /\ \A q \in Plugins \ {p} : e'[q] = e[q]
  BY DEF Claim, Kill, IInv, Entries, Rest
<1>2. e[p] \in Entry /\ Sane(e[p]) /\ e[p].overran /\ e[p].gen = wd.gen
  BY <1>1, InsideHasThread DEF DInv, Aimed
<1>3. /\ Bears(e[p], e'[p]) /\ Informs(e[p], e'[p]) /\ e'[p].stopping = e[p].stopping
      /\ Claim(p) => Unmarked(e[p], e'[p])
  <2>1. CASE Claim(p)
    <3>1. e'[p] = [e[p] EXCEPT !.killed = TRUE]
      BY <2>1 DEF Claim, IInv, Entries
    <3> QED BY <1>2, <3>1, BearsMarks DEF Unmarked
  <2>2. CASE Kill(p)
    <3>1. e'[p] = [e[p] EXCEPT !.terminated = TRUE] /\ wd.at = "kill"
      BY <2>2 DEF Kill, IInv, Entries
    <3>2. e'[p].stopping = e[p].stopping
      BY <1>2, <3>1 DEF Entry
    <3>3. ~Claim(p)
      BY <3>1 DEF Claim
    <3> QED BY <1>2, <3>1, <3>2, <3>3, BearsFlags
  <2> QED BY <2>1, <2>2
<1>4. \A q \in Plugins : /\ e'[q].gen = e[q].gen /\ e'[q].overran = e[q].overran
                         /\ e'[q].entered = e[q].entered /\ e'[q].pc = e[q].pc
                         /\ e'[q].thread = e[q].thread /\ e'[q].stopping = e[q].stopping
                         /\ (e[q].retired => e'[q].retired) /\ (e'[q].scene => e[q].scene)
                         /\ Sane(e'[q])
  BY <1>1, <1>3 DEF Bears, DInv
<1>5. Aimed'
  BY <1>1, <1>2, <1>4 DEF Aimed
<1>6. Dated' /\ Halted'
  <2>1. late \subseteq Plugins /\ \A q \in late : e[q].entered # "in"
    BY DEF DInv, Dated, IInv, Rest
  <2>2. late' = late /\ api' = api
    BY <1>1
  <2>3. Dated'
    BY <1>4, <2>1, <2>2 DEF Dated
  <2>4. Halted'
    BY <1>4, <2>2 DEF DInv, Halted
  <2> QED BY <2>3, <2>4
<1>7. Unborn'
  <2>1. \A q \in Plugins \ {p} : UNCHANGED e[q]
    BY <1>1
  <2>2. wd'.at \in {"claim", "kill"} => wd'.p = wd.p
    BY <1>1
  <2> QED BY <1>1, <1>3, <1>4, <2>1, <2>2 DEF DInv, Unborn, Unmarked
<1>8. Cleared'
  <2>1. api.at \in {"tombstone", "free"} => api.p \in Plugins
    BY DEF IInv, Unloaded
  <2> QED BY <1>1, <1>4, <2>1 DEF DInv, Cleared
<1>9. \A q \in Plugins : Informed(q)'
  BY <1>1, <1>3, InformedOn, InformedStill DEF Pending
<1> QED BY <1>4, <1>5, <1>6, <1>7, <1>8, <1>9 DEF DInv

\* A step of the API thread that leaves the entries what they are to the
\* watchdog.
LEMMA ApiAims ==
  ASSUME IInv, DInv, UNCHANGED <<late, wd>>,
         \A q \in Plugins : /\ e'[q].gen = e[q].gen /\ e'[q].overran = e[q].overran
                            /\ e'[q].entered = e[q].entered
  PROVE  Aimed' /\ Dated'
<1>1. late \subseteq Plugins /\ (wd.at \in {"claim", "kill"} => wd.p \in Plugins)
  BY DEF IInv, Rest, Watched
<1>2. late' = late /\ wd' = wd
  OBVIOUS
<1> QED BY <1>1, <1>2 DEF DInv, Aimed, Dated

\* The places of the API thread that go on from each other while the host runs.
LEMMA ApiGoesAlong ==
  ASSUME IInv, DInv, UNCHANGED <<e, wd, late>>, started' \in {started, TRUE},
         \/ api.at = "spawn" /\ api'.at = "idle" /\ UNCHANGED started
         \/ api.at = "idle" /\ ~started /\ started' /\ api'.at = "spawn"
         \/ api.at \in {"idle", "config"} /\ api'.at \in {"idle", "config"} /\ UNCHANGED started
         \/ started' /\ api'.at \in {"tell", "wait", "join"}
            /\ (api'.at = "join" => api.at = "grace" /\ api'.p = api.p)
         \/ started' /\ api'.at = "halt" /\ api'.todo = Plugins
         \/ started' /\ api.at = "halt" /\ api.todo = {} /\ api'.at = "lastcall"
         \/ started' /\ api.at = "lastcall" /\ api'.at \in {"lastcall", "joins"}
  PROVE  Aimed' /\ Dated' /\ Halted' /\ Unborn' /\ Cleared' /\ \A q \in Plugins : Sane(e'[q])
<1>1. Aimed' /\ Dated'
  BY ApiAims
<1>2. Halted'
  BY DEF DInv, Halted
<1>3. Unborn'
  BY DEF DInv, Unborn, Young
<1>4. Cleared'
  BY DEF Cleared
<1> QED BY <1>1, <1>2, <1>3, <1>4 DEF DInv

\* While start has not run, no thread is waited for or told to stop.
LEMMA RunsWhen ==
  ASSUME DInv, api.at \in {"spawn", "wait", "grace", "terminate", "join", "tell", "halt",
                           "lastcall", "endcall", "joins"}
  PROVE  started
  BY DEF DInv, Unborn, Young

\* Who has nothing pending before the step has its settings as before.
LEMMA InformedAll ==
  ASSUME DInv, UNCHANGED <<e, queue, values>>, api.at # "config"
  PROVE  \A q \in Plugins : Informed(q)'
  BY InformedStill DEF Pending

\* start, its end, stop and the ends of its loops.
LEMMA LoopsKeepDInv ==
  ASSUME IInv, DInv,
         \/ Start \/ Started \/ Stop \/ NextLoop("tell", "halt")
         \/ NextLoop("halt", "lastcall") \/ NextLoop("lastcall", "joins")
  PROVE  DInv'
<1>1. UNCHANGED <<e, queue, values, late, wd>> /\ api.at # "config" /\ api \in ApiRecords
  BY RestOf DEF Start, Started, Stop, NextLoop
<1>2. Aimed' /\ Dated' /\ Halted' /\ Unborn' /\ Cleared' /\ \A q \in Plugins : Sane(e'[q])
  <2>1. CASE Start
    BY <1>1, <2>1, ApiGoesAlong DEF Start, ApiRecords
  <2>2. CASE Started
    BY <1>1, <2>2, ApiGoesAlong DEF Started, GoApi, ApiRecords
  <2>3. CASE Stop
    BY <1>1, <2>3, ApiGoesAlong DEF Stop, ApiRecords
  <2>4. CASE NextLoop("tell", "halt")
    BY <1>1, <2>4, ApiGoesAlong, RunsWhen DEF NextLoop, ApiRecords
  <2>5. CASE NextLoop("halt", "lastcall")
    BY <1>1, <2>5, ApiGoesAlong, RunsWhen DEF NextLoop, ApiRecords
  <2>6. CASE NextLoop("lastcall", "joins")
    BY <1>1, <2>6, ApiGoesAlong, RunsWhen DEF NextLoop, ApiRecords
  <2> QED BY <2>1, <2>2, <2>3, <2>4, <2>5, <2>6
<1>3. \A q \in Plugins : Informed(q)'
  BY <1>1, InformedAll
<1> QED BY <1>2, <1>3 DEF DInv

\* unload and stop aim at a call they have seen, of a plugin told to stop.
LEMMA GraceKeepsDInv ==
  ASSUME IInv, DInv, NEW p \in Plugins, UnloadGrace(p) \/ StopGrace(p)
  PROVE  DInv'
<1>1. UNCHANGED <<e, queue, values, late, wd, started>> /\ api.at # "config"
      /\ api \in ApiRecords /\ started
  BY RestOf, RunsWhen DEF UnloadGrace, StopGrace
<1>2. CASE api'.at \in {"terminate", "endcall"}
  <2>1. /\ api'.p = p /\ api'.gen = e[p].gen /\ e[p].entered # "out"
        /\ api'.at = "terminate" => e[p].stopping
        /\ api'.at = "endcall" => \A q \in Plugins : e[q].stopping
    <3>1. CASE UnloadGrace(p)
      BY <1>1, <1>2, <3>1 DEF UnloadGrace, ApiRecords, DInv, Halted
    <3>2. CASE StopGrace(p)
      <4>1. api.at = "lastcall" /\ \A q \in Plugins : e[q].stopping
        BY <3>2 DEF StopGrace, DInv, Halted
      <4>2. e[p].entered # "out" /\ api' = [api EXCEPT !.at = "endcall", !.p = p, !.gen = e[p].gen]
        BY <1>1, <1>2, <3>2, <4>1 DEF StopGrace, DoneWith, ApiRecords
      <4> QED BY <1>1, <4>1, <4>2 DEF ApiRecords
    <3> QED BY <3>1, <3>2
  <2>2. e[p].pc \in {"call", "hung"}
    BY <2>1, InsideHasThread
  <2>3. Halted'
    BY <1>1, <1>2, <2>1, <2>2 DEF Halted
  <2>4. Aimed' /\ Dated' /\ Unborn' /\ Cleared'
    BY <1>1, <1>2, ApiAims DEF Unborn, Young, Cleared
  <2>5. \A q \in Plugins : Informed(q)' /\ Sane(e'[q])
    BY <1>1, InformedAll DEF DInv
  <2> QED BY <2>3, <2>4, <2>5 DEF DInv
<1>3. CASE api'.at \notin {"terminate", "endcall"}
  <2>1. \/ api'.at = "join" /\ api.at = "grace" /\ api'.p = api.p
        \/ api.at = "lastcall" /\ api'.at = "lastcall"
    BY <1>1, <1>3 DEF UnloadGrace, StopGrace, DoneWith, ApiRecords
  <2>2. Aimed' /\ Dated' /\ Halted' /\ Unborn' /\ Cleared' /\ \A q \in Plugins : Sane(e'[q])
    BY <1>1, <2>1, ApiGoesAlong
  <2> QED BY <1>1, <2>2, InformedAll DEF DInv
<1> QED BY <1>2, <1>3

\* configSet keeps its promise with the push.
LEMMA ConfigKeepsDInv ==
  ASSUME IInv, DInv, NEW p \in Plugins, ConfigSet(p) \/ ConfigRefused(p) \/ ConfigPush(p)
  PROVE  DInv'
<1>1. UNCHANGED <<e, late, wd, started>> /\ api \in ApiRecords
      /\ \A q \in Plugins \ {p} : queue'[q] = queue[q] /\ values'[q] = values[q]
  BY RestOf DEF ConfigSet, ConfigRefused, ConfigPush, Put, IInv, Rest
<1>2. api.at \in {"idle", "config"} /\ api'.at \in {"idle", "config"}
  BY <1>1 DEF ConfigSet, ConfigRefused, ConfigPush, GoApi, ApiRecords
<1>3. Aimed' /\ Dated' /\ Halted' /\ Unborn' /\ Cleared' /\ \A q \in Plugins : Sane(e'[q])
  BY <1>1, <1>2, ApiGoesAlong
<1>4. \A q \in Plugins \ {p} : Informed(q)'
  <2>1. \A q \in Plugins \ {p} : ~Pending(q)
    BY DEF ConfigSet, ConfigRefused, ConfigPush, Pending
  <2> QED BY <1>1, <2>1, InformedStill
<1>5. /\ Informed(p) /\ values[p].said \in Nat /\ values[p].v \in Nat
      /\ queue[p] \in Seq(Events) /\ values[p].said <= values[p].v /\ AllTold(queue[p])
      /\ values[p].v \in 0..MaxConfigs /\ values[p] \in Settings
  BY QueueOf, InformedIs, EntryOf DEF DInv
<1>6. Informed(p)'
  <2>1. CASE ConfigSet(p)
    <3>1. /\ values'[p] = [v |-> values[p].v + 1, said |-> values[p].v + 1]
          /\ queue'[p] = queue[p] /\ Pending(p)'
      BY <1>1, <2>1 DEF ConfigSet, Pending, IInv, Rest, ApiRecords
    <3>2. values'[p].said <= values'[p].v
      BY <1>5, <3>1
    <3> QED BY <1>5, <3>1, <3>2, InformedIs
  <2>2. CASE ConfigRefused(p)
    <3>1. /\ values'[p] = [values[p] EXCEPT !.v = @ + 1] /\ UNCHANGED <<queue, api>>
      BY <2>2 DEF ConfigRefused, IInv, Rest
    <3>2. values'[p].said = values[p].said /\ values'[p].v = values[p].v + 1
      BY <1>5, <3>1 DEF Settings
    <3>3. values'[p].said <= values'[p].v
      BY <1>5, <3>2
    <3> QED BY <1>1, <1>5, <3>1, <3>2, <3>3, InformedIs DEF Pending
  <2>3. CASE ConfigPush(p)
    <3>1. /\ queue'[p] = Append(queue[p], Ev("config", values[p].v)) /\ values' = values
      BY <2>3 DEF ConfigPush, Put, IInv, Rest
    <3>2. /\ Ev("config", values[p].v) \in Events /\ Ev("config", values[p].v).kind = "config"
          /\ Ev("config", values[p].v).v = values[p].v
      BY <1>5, EvType DEF Kinds, Ev
    <3>3. LastIsTrue(queue'[p], values[p].said) /\ ~NoneWaits(queue'[p])
      BY <1>5, <3>1, <3>2, LastOfPush
    <3>4. AllTold(queue'[p])
      BY <1>5, <3>1, <3>2, ToldAppend DEF Told
    <3> QED BY <1>5, <3>1, <3>3, <3>4, InformedIs DEF InformedBy
  <2> QED BY <2>1, <2>2, <2>3
<1> QED BY <1>3, <1>4, <1>6 DEF DInv

\* SHUTDOWN goes behind the settings that wait.
LEMMA TellKeepsDInv ==
  ASSUME IInv, DInv, NEW p \in Plugins, StopTell(p) \/ (Unload(p) /\ e[p].thread)
  PROVE  DInv'
<1>1. UNCHANGED <<e, values, late, wd, started>> /\ api \in ApiRecords
      /\ (Tell(p) \/ UNCHANGED queue)
  BY RestOf DEF StopTell, Unload
<1>2. started /\ api'.at \in {"tell", "wait"} /\ api.at # "config"
  BY <1>1, RunsWhen DEF StopTell, Unload, DoneWith, ApiRecords, DInv, Unborn, Young
<1>3. Aimed' /\ Dated' /\ Halted' /\ Unborn' /\ Cleared' /\ \A q \in Plugins : Sane(e'[q])
  BY <1>1, <1>2, ApiGoesAlong
<1>4. \A q \in Plugins : Informed(q)'
  <2>1. CASE UNCHANGED queue
    BY <1>1, <1>2, <2>1, InformedAll
  <2>2. CASE Put(p, Ev("shutdown", 0))
    <3>1. /\ queue'[p] = Append(queue[p], Ev("shutdown", 0))
          /\ \A q \in Plugins \ {p} : queue'[q] = queue[q]
      BY <2>2 DEF Put, IInv, Rest
    <3>2. Ev("shutdown", 0) \in Events /\ Ev("shutdown", 0).kind = "shutdown"
      BY EvType DEF Kinds, Ev
    <3>3. \A q \in Plugins : ~Pending(q)
      BY <1>2 DEF Pending
    <3>4. Informed(p)'
      BY <1>1, <3>1, <3>2, <3>3, InformedPut DEF Informs, Told
    <3> QED BY <1>1, <3>1, <3>3, <3>4, InformedStill
  <2> QED BY <1>1, <2>1, <2>2 DEF Tell
<1> QED BY <1>3, <1>4 DEF DInv

\* The end of the joins, and of the I/O thread.
LEMMA EndsKeepDInv == ASSUME IInv, DInv, StopIo \/ JoinIo PROVE DInv'
<1>1. UNCHANGED <<e, queue, values, late, wd>> /\ api.at # "config" /\ api \in ApiRecords
  BY RestOf DEF StopIo, JoinIo
<1>2. Aimed' /\ Dated'
  BY <1>1, ApiAims
<1>3. \/ api'.at = "iojoin" /\ api.at = "joins"
      \/ api'.at = "inline" /\ api'.todo = Plugins /\ api.at = "iojoin"
  BY <1>1 DEF StopIo, JoinIo, GoApi, ApiRecords
<1>4. Halted' /\ Unborn' /\ Cleared'
  BY <1>1, <1>3 DEF Halted, Unborn, Young, Cleared
<1> QED BY <1>1, <1>2, <1>4, InformedAll DEF DInv

\* A step of the API thread that writes p's entry and no mark of its call.
LEMMA ApiWrites ==
  ASSUME IInv, DInv, NEW p \in Plugins, UNCHANGED <<values, late, wd>>, api.at # "config",
         \A q \in Plugins \ {p} : e'[q] = e[q] /\ queue'[q] = queue[q],
         Sane(e'[p]), e'[p].gen = e[p].gen, e'[p].overran = e[p].overran,
         e'[p].entered = e[p].entered,
         \/ queue'[p] = queue[p] /\ Informs(e[p], e'[p])
         \/ queue'[p] = <<>> /\ ~e'[p].live /\ e'[p].pc = "none",
         Halted', Unborn', Cleared'
  PROVE  DInv'
<1>1. \A q \in Plugins : /\ e'[q].gen = e[q].gen /\ e'[q].overran = e[q].overran
                         /\ e'[q].entered = e[q].entered /\ Sane(e'[q])
  BY DEF DInv
<1>2. Aimed' /\ Dated'
  BY <1>1, ApiAims
<1>3. \A q \in Plugins : ~Pending(q)
  BY DEF Pending
<1>4. Informed(p)'
  BY <1>3, InformedOn, InformedEmptied
<1>5. \A q \in Plugins \ {p} : Informed(q)'
  BY <1>3, InformedStill
<1> QED BY <1>1, <1>2, <1>4, <1>5 DEF DInv

\* While the host runs, only a spawn is left to say of the plugins it has not
\* reached.
LEMMA BornWhen ==
  ASSUME started', api'.at # "spawn"
  PROVE  Unborn'
  BY DEF Unborn

\* A plugin whose handle is gone has no thread.
LEMMA NoThread ==
  ASSUME IInv, DInv, NEW p \in Plugins, ~e[p].thread
  PROVE  e[p] \in Entry /\ Sane(e[p]) /\ e[p].pc = "none"
  BY EntryOf DEF DInv, IInv, Entries, Good, Threaded

\* A thread begins in a plugin nobody has told to stop.
LEMMA SpawnOkKeepsDInv == ASSUME IInv, DInv, NEW p \in Plugins, SpawnOk(p) PROVE DInv'
<1>1. /\ UNCHANGED <<queue, values, late, wd, started>> /\ api \in ApiRecords
      /\ api.at = "spawn" /\ api'.at = "spawn" /\ started
  BY RestOf, RunsWhen DEF SpawnOk, DoneWith, ApiRecords
<1>2. CASE Spawnable(p)
  <2>1. /\ e'[p] = [[e[p] EXCEPT !.stopping = FALSE, !.thread = TRUE] EXCEPT !.pc = "env"]
        /\ \A q \in Plugins \ {p} : e'[q] = e[q]
    BY <1>2 DEF SpawnOk, Move, IInv, Entries
  <2>2. /\ e[p] \in Entry /\ Sane(e[p]) /\ e[p].pc = "none" /\ e[p].live
        /\ ~e[p].terminated /\ ~e[p].stopping
    BY <1>1, <1>2, NoThread DEF Spawnable, DInv, Unborn
  <2>3. /\ Sane(e'[p]) /\ Informs(e[p], e'[p]) /\ e'[p].gen = e[p].gen
        /\ e'[p].overran = e[p].overran /\ e'[p].entered = e[p].entered
    BY <2>1, <2>2, SaneThread
  <2>4. e'[p].thread
    BY <2>1, <2>2 DEF Entry
  <2>5. Unborn'
    BY <1>1, <2>1, <2>4 DEF DInv, Unborn
  <2>6. Halted' /\ Cleared'
    BY <1>1 DEF Halted, Cleared
  <2> QED BY <1>1, <2>1, <2>3, <2>5, <2>6, ApiWrites
<1>3. CASE ~Spawnable(p)
  <2>1. UNCHANGED e
    BY <1>3 DEF SpawnOk
  <2>2. Aimed' /\ Dated'
    BY <1>1, <2>1, ApiAims
  <2>3. Halted' /\ Unborn' /\ Cleared'
    BY <1>1, <2>1 DEF Halted, Cleared, DInv, Unborn
  <2> QED BY <1>1, <2>1, <2>2, <2>3, InformedAll DEF DInv
<1> QED BY <1>2, <1>3

\* A plugin that gets no thread is erased.
LEMMA SpawnFailsKeepsDInv == ASSUME IInv, DInv, NEW p \in Plugins, SpawnFails(p) PROVE DInv'
<1>1. /\ UNCHANGED <<values, late, wd, started>> /\ api \in ApiRecords
      /\ api.at = "spawn" /\ api'.at = "spawn" /\ started
  BY RestOf, RunsWhen DEF SpawnFails, DoneWith, ApiRecords
<1>2. /\ e'[p] = [Dropped(e[p]) EXCEPT !.stopping = FALSE] /\ queue'[p] = <<>>
      /\ \A q \in Plugins \ {p} : e'[q] = e[q] /\ queue'[q] = queue[q]
  BY DEF SpawnFails, IInv, Entries, Rest
<1>3. e[p] \in Entry /\ Sane(e[p]) /\ e[p].pc = "none" /\ ~e[p].terminated /\ ~e[p].stopping
  BY <1>1, NoThread DEF SpawnFails, Spawnable, DInv, Unborn
<1>4. /\ Sane(e'[p]) /\ Informs(e[p], e'[p]) /\ e'[p].gen = e[p].gen
      /\ e'[p].overran = e[p].overran /\ e'[p].entered = e[p].entered
      /\ (e'[p].terminated => e[p].terminated) /\ (e'[p].stopping => e[p].stopping)
  BY <1>2, <1>3, SaneThread
<1>5. ~e'[p].live /\ e'[p].pc = "none" /\ e'[p].thread = e[p].thread
  BY <1>2, <1>3 DEF Entry, Dropped
<1>6. Unborn'
  BY <1>1, <1>2, <1>3, <1>4, <1>5 DEF DInv, Unborn
<1>7. Halted' /\ Cleared'
  BY <1>1 DEF Halted, Cleared
<1> QED BY <1>1, <1>2, <1>4, <1>5, <1>6, <1>7, ApiWrites

\* What an inline delivery leaves: a plugin out of service and erased.
LEMMA InlineErases ==
  ASSUME IInv, DInv, NEW p \in Plugins, ~e[p].thread, Inline(p)
  PROVE  /\ \A q \in Plugins \ {p} : e'[q] = e[q] /\ queue'[q] = queue[q]
         /\ Bears(e[p], e'[p]) /\ Unmarked(e[p], e'[p]) /\ ~e'[p].scene
         /\ \/ queue'[p] = queue[p] /\ Informs(e[p], e'[p])
            \/ queue'[p] = <<>> /\ ~e'[p].live /\ e'[p].pc = "none"
<1>1. e[p] \in Entry /\ Sane(e[p]) /\ e[p].pc = "none"
  BY NoThread
<1>2. \A q \in Plugins \ {p} : e'[q] = e[q] /\ queue'[q] = queue[q]
  BY DEF Inline, IInv, Entries, Rest
<1>3. CASE e[p].live
  <2>1. e'[p] = [Dropped(e[p]) EXCEPT !.told = TRUE] /\ ~e[p].retired
    BY <1>1, <1>3 DEF Inline, IInv, Entries, Sane
  <2>2. queue'[p] = <<>>
    BY <1>3, <2>1 DEF Inline, IInv, Rest
  <2>3. Bears(e[p], e'[p]) /\ Unmarked(e[p], e'[p]) /\ ~e'[p].live /\ ~e'[p].scene
    BY <1>1, <2>1, BearsErased
  <2> QED BY <1>1, <1>2, <2>2, <2>3 DEF Bears
<1>4. CASE ~e[p].live
  <2>1. e'[p] = e[p] /\ queue' = queue
    BY <1>4 DEF Inline, IInv, Entries
  <2>2. ~e[p].scene
    BY <1>1, <1>4 DEF Sane
  <2> QED BY <1>1, <1>2, <2>1, <2>2 DEF Bears, Unmarked, Informs
<1> QED BY <1>3, <1>4

\* A plugin unloaded before start, or by a host that has stopped.
LEMMA UnloadInlineKeepsDInv ==
  ASSUME IInv, DInv, NEW p \in Plugins, Unload(p), ~e[p].thread
  PROVE  DInv'
<1>1. /\ UNCHANGED <<values, late, wd, started>> /\ api \in ApiRecords /\ Inline(p)
      /\ api.at = "idle" /\ api'.at = "retire"
  BY RestOf DEF Unload, ApiRecords
<1>2. /\ \A q \in Plugins \ {p} : e'[q] = e[q] /\ queue'[q] = queue[q]
      /\ Bears(e[p], e'[p]) /\ Unmarked(e[p], e'[p])
      /\ \/ queue'[p] = queue[p] /\ Informs(e[p], e'[p])
         \/ queue'[p] = <<>> /\ ~e'[p].live /\ e'[p].pc = "none"
  BY <1>1, InlineErases
<1>3. Halted' /\ Cleared'
  BY <1>1 DEF Halted, Cleared
<1>4. Unborn'
  BY <1>1, <1>2 DEF DInv, Unborn, Young, Bears, Unmarked
<1> QED BY <1>1, <1>2, <1>3, <1>4, ApiWrites DEF Bears

\* unload tells the thread to stop, ends its call, joins it.
LEMMA UnloadEndsKeepDInv ==
  ASSUME IInv, DInv, NEW p \in Plugins, UnloadHalt(p) \/ UnloadTerminate(p) \/ UnloadJoin(p)
  PROVE  DInv'
<1>1. /\ UNCHANGED <<queue, values, late, wd, started>> /\ api \in ApiRecords /\ started
      /\ api.at \in {"wait", "terminate", "join"} /\ api.p = p /\ api'.p = p
      /\ \A q \in Plugins \ {p} : e'[q] = e[q]
      /\ e[p] \in Entry /\ Sane(e[p])
  BY RestOf, RunsWhen, InsideHasThread
     DEF UnloadHalt, UnloadTerminate, UnloadJoin, GoApi, ApiRecords, IInv, Entries
<1>2. CASE UnloadHalt(p)
  <2>1. e'[p] = [e[p] EXCEPT !.stopping = TRUE] /\ api'.at = "grace"
    BY <1>1, <1>2 DEF UnloadHalt, GoApi, IInv, Entries, ApiRecords
  <2>2. Bears(e[p], e'[p]) /\ Informs(e[p], e'[p])
    BY <1>1, <2>1, BearsFlags
  <2>3. e'[p].stopping
    BY <1>1, <2>1 DEF Entry
  <2>4. Halted' /\ Unborn' /\ Cleared'
    BY <1>1, <2>1, <2>3, BornWhen DEF Halted, Cleared
  <2> QED BY <1>1, <2>2, <2>4, ApiWrites DEF Bears
<1>3. CASE UnloadTerminate(p)
  <2>1. e'[p] = [e[p] EXCEPT !.terminated = TRUE] /\ api'.at = "join" /\ e[p].stopping
    BY <1>1, <1>3 DEF UnloadTerminate, GoApi, IInv, Entries, ApiRecords, DInv, Halted
  <2>2. Bears(e[p], e'[p]) /\ Informs(e[p], e'[p])
    BY <1>1, <2>1, BearsFlags
  <2>3. Halted' /\ Unborn' /\ Cleared'
    BY <1>1, <2>1, <2>2, BornWhen DEF Halted, Cleared, Bears
  <2> QED BY <1>1, <2>2, <2>3, ApiWrites DEF Bears
<1>4. CASE UnloadJoin(p)
  <2>1. /\ e'[p] = [e[p] EXCEPT !.thread = FALSE, !.pc = "none"] /\ api'.at = "retire"
        /\ e[p].stopping /\ e[p].pc = "gone"
    BY <1>1, <1>4 DEF UnloadJoin, At, GoApi, IInv, Entries, ApiRecords, DInv, Halted
  <2>2. /\ Sane(e'[p]) /\ Informs(e[p], e'[p]) /\ e'[p].gen = e[p].gen
        /\ e'[p].overran = e[p].overran /\ e'[p].entered = e[p].entered
    BY <1>1, <2>1, SaneThread
  <2>3. Halted' /\ Unborn' /\ Cleared'
    BY <1>1, <2>1, BornWhen DEF Halted, Cleared
  <2> QED BY <1>1, <2>2, <2>3, ApiWrites
<1> QED BY <1>2, <1>3, <1>4

\* Behind its join unload retires, marks the grave and frees.
LEMMA UnloadClearsKeepDInv ==
  ASSUME IInv, DInv, NEW p \in Plugins, UnloadRetire(p) \/ Tombstone(p) \/ UnloadFree(p)
  PROVE  DInv'
<1>1. /\ UNCHANGED <<values, late, wd, started>> /\ api \in ApiRecords
      /\ api.at \in {"retire", "tombstone", "free"} /\ api.p = p /\ api'.p = p
      /\ \A q \in Plugins \ {p} : e'[q] = e[q] /\ queue'[q] = queue[q]
      /\ e[p] \in Entry /\ Sane(e[p]) /\ e[p].pc = "none"
  <2>1. api.at \in {"retire", "tombstone", "free"} /\ api.p = p
    BY DEF UnloadRetire, Tombstone, UnloadFree
  <2>2. ~e[p].thread
    BY <2>1 DEF IInv, Unloaded
  <2>3. e[p] \in Entry /\ Sane(e[p]) /\ e[p].pc = "none"
    BY <2>2, NoThread
  <2> QED BY <2>1, <2>3, RestOf
          DEF UnloadRetire, Tombstone, UnloadFree, GoApi, ApiRecords, IInv, Entries
<1>2. /\ Bears(e[p], e'[p]) /\ Unmarked(e[p], e'[p])
      /\ \/ api'.at = "tombstone" /\ e'[p].retired
         \/ api.at = "tombstone" /\ api'.at = "free"
         \/ api'.at = "idle"
      /\ \/ queue'[p] = queue[p] /\ Informs(e[p], e'[p])
         \/ queue'[p] = <<>> /\ ~e'[p].live /\ e'[p].pc = "none"
  <2>1. CASE UnloadRetire(p)
    <3>1. api'.at = "tombstone" /\ queue'[p] = <<>>
      BY <1>1, <2>1, RestOf DEF UnloadRetire, GoApi, ApiRecords
    <3>2. \/ e'[p] = Dropped(e[p])
          \/ e'[p] = [e[p] EXCEPT !.live = FALSE] /\ e[p].retired
      BY <1>1, <2>1 DEF UnloadRetire, IInv, Entries
    <3>3. Bears(e[p], e'[p]) /\ Unmarked(e[p], e'[p]) /\ ~e'[p].live /\ e'[p].retired
      BY <1>1, <3>2, BearsErased
    <3> QED BY <1>1, <3>1, <3>3 DEF Bears
  <2>2. CASE Tombstone(p)
    <3>1. /\ api'.at = "free" /\ api.at = "tombstone" /\ queue' = queue
          /\ e'[p] = [e[p] EXCEPT !.removed = TRUE] /\ e[p].retired
      BY <1>1, <2>2 DEF Tombstone, GoApi, ApiRecords, IInv, Entries, DInv, Cleared
    <3> QED BY <1>1, <3>1, BearsMarks
  <2>3. CASE UnloadFree(p)
    <3>1. api'.at = "idle" /\ queue' = queue /\ e'[p] = [e[p] EXCEPT !.freed = TRUE]
      BY <1>1, <2>3 DEF UnloadFree, GoApi, ApiRecords, IInv, Entries
    <3> QED BY <1>1, <3>1, BearsMarks
  <2> QED BY <2>1, <2>2, <2>3
<1>3. Halted'
  BY <1>2 DEF Halted
<1>4. Cleared'
  BY <1>1, <1>2 DEF DInv, Cleared, Bears
<1>5. Unborn'
  <2>1. ~started => \A q \in Plugins : ~e'[q].thread
    BY <1>1, <1>2 DEF DInv, Unborn, Young, Bears
  <2>2. ~started => \A q \in Plugins : /\ ~e'[q].terminated /\ ~e'[q].stopping
                                       /\ ~(wd.at \in {"claim", "kill"} /\ wd.p = q)
    BY <1>1, <1>2 DEF DInv, Unborn, Young, Unmarked
  <2>3. api'.at \in Young /\ api'.at # "spawn"
    BY <1>2 DEF Young
  <2> QED BY <1>1, <2>1, <2>2, <2>3 DEF Unborn
<1> QED BY <1>1, <1>2, <1>3, <1>4, <1>5, ApiWrites DEF Bears

\* stop tells every thread to stop, ends the calls, joins.
LEMMA StopEndsKeepDInv ==
  ASSUME IInv, DInv, NEW p \in Plugins, StopHalt(p) \/ StopTerminate(p) \/ StopJoin(p)
  PROVE  DInv'
<1>1. /\ UNCHANGED <<queue, values, late, wd, started>> /\ api \in ApiRecords /\ started
      /\ api.at \in {"halt", "endcall", "joins"}
      /\ \A q \in Plugins \ {p} : e'[q] = e[q]
      /\ e[p] \in Entry /\ Sane(e[p])
  BY RestOf, RunsWhen, InsideHasThread
     DEF StopHalt, StopTerminate, StopJoin, IInv, Entries
<1>2. CASE StopHalt(p)
  <2>1. /\ e'[p] = [e[p] EXCEPT !.stopping = TRUE] /\ api.at = "halt" /\ api'.at = "halt"
        /\ api'.todo = api.todo \ {p}
    BY <1>1, <1>2 DEF StopHalt, DoneWith, IInv, Entries, ApiRecords
  <2>2. Bears(e[p], e'[p]) /\ Informs(e[p], e'[p])
    BY <1>1, <2>1, BearsFlags
  <2>3. e'[p].stopping
    BY <1>1, <2>1 DEF Entry
  <2>4. Halted'
    BY <1>1, <2>1, <2>3 DEF DInv, Halted
  <2>5. Unborn' /\ Cleared'
    BY <1>1, <2>1, BornWhen DEF Cleared
  <2> QED BY <1>1, <2>2, <2>4, <2>5, ApiWrites DEF Bears
<1>3. CASE StopTerminate(p)
  <2>1. /\ e'[p] = [e[p] EXCEPT !.terminated = TRUE] /\ api'.at = "lastcall"
        /\ \A q \in Plugins : e[q].stopping
    BY <1>1, <1>3 DEF StopTerminate, IInv, Entries, ApiRecords, DInv, Halted
  <2>2. Bears(e[p], e'[p]) /\ Informs(e[p], e'[p])
    BY <1>1, <2>1, BearsFlags
  <2>3. Halted'
    BY <1>1, <2>1, <2>2 DEF Halted, Bears
  <2>4. Unborn' /\ Cleared'
    BY <1>1, <2>1, BornWhen DEF Cleared
  <2> QED BY <1>1, <2>2, <2>3, <2>4, ApiWrites DEF Bears
<1>4. CASE StopJoin(p)
  <2>1. api.at = "joins" /\ api'.at = "joins" /\ \A q \in Plugins : e[q].stopping
    BY <1>1, <1>4 DEF StopJoin, DoneWith, ApiRecords, DInv, Halted
  <2>2. /\ Sane(e'[p]) /\ Informs(e[p], e'[p]) /\ e'[p].gen = e[p].gen
        /\ e'[p].overran = e[p].overran /\ e'[p].entered = e[p].entered
        /\ e'[p].stopping
    <3>1. CASE e[p].thread
      <4>1. e'[p] = [e[p] EXCEPT !.thread = FALSE, !.pc = "none"] /\ e[p].pc = "gone"
        BY <1>4, <3>1 DEF StopJoin, At, IInv, Entries
      <4>2. e'[p].stopping
        BY <1>1, <2>1, <4>1 DEF Entry
      <4> QED BY <1>1, <2>1, <4>1, <4>2, SaneThread
    <3>2. CASE ~e[p].thread
      <4>1. e'[p] = e[p]
        BY <1>4, <3>2 DEF StopJoin
      <4> QED BY <1>1, <2>1, <4>1 DEF Informs
    <3> QED BY <3>1, <3>2
  <2>3. Halted'
    BY <1>1, <2>1, <2>2 DEF Halted
  <2>4. Unborn' /\ Cleared'
    BY <1>1, <2>1, BornWhen DEF Cleared
  <2> QED BY <1>1, <2>1, <2>2, <2>3, <2>4, ApiWrites
<1> QED BY <1>2, <1>3, <1>4

\* deinit's second stop erases whoever was not told in the first.
LEMMA DeinitInlineKeepsDInv ==
  ASSUME IInv, DInv, NEW p \in Plugins, DeinitInline(p)
  PROVE  DInv'
<1>1. /\ UNCHANGED <<values, late, wd, started>> /\ api \in ApiRecords
      /\ api.at = "inline" /\ api'.at = "inline" /\ api'.todo = api.todo \ {p}
  BY RestOf DEF DeinitInline, DoneWith, ApiRecords
<1>2. ~e[p].thread /\ ~started
  BY <1>1 DEF IInv, Stopped
<1>3. /\ \A q \in Plugins \ {p} : e'[q] = e[q] /\ queue'[q] = queue[q]
      /\ Bears(e[p], e'[p]) /\ ~e'[p].scene
      /\ \/ queue'[p] = queue[p] /\ Informs(e[p], e'[p])
         \/ queue'[p] = <<>> /\ ~e'[p].live /\ e'[p].pc = "none"
  <2>1. CASE e[p].removed
    <3>1. UNCHANGED <<e, queue>>
      BY <2>1 DEF DeinitInline
    <3>2. Sane(e[p]) /\ ~e[p].scene
      BY <1>2, <2>1, NoThread DEF Sane
    <3> QED BY <3>1, <3>2 DEF Bears, Informs
  <2>2. CASE ~e[p].removed
    BY <1>2, <2>2, InlineErases DEF DeinitInline
  <2> QED BY <2>1, <2>2
<1>4. Halted' /\ Unborn'
  BY <1>1, <1>2 DEF Halted, Unborn, Young
<1>5. Cleared'
  BY <1>1, <1>3 DEF DInv, Cleared
<1> QED BY <1>1, <1>3, <1>4, <1>5, ApiWrites DEF Bears

\* The host is gone, and every instance with it.
LEMMA DeinitKeepsDInv == ASSUME IInv, DInv, Deinit PROVE DInv'
<1>1. /\ UNCHANGED <<queue, values, late, wd, started>> /\ api \in ApiRecords
      /\ api.at = "inline" /\ api'.at = "end" /\ api.todo = {} /\ ~started
      /\ \A q \in Plugins : e'[q] = [e[q] EXCEPT !.freed = TRUE]
  BY RestOf DEF Deinit, GoApi, ApiRecords, IInv, Stopped
<1>2. \A q \in Plugins : Bears(e[q], e'[q]) /\ Informs(e[q], e'[q])
  <2> SUFFICES ASSUME NEW q \in Plugins PROVE Bears(e[q], e'[q]) /\ Informs(e[q], e'[q])
    OBVIOUS
  <2>1. e[q] \in Entry /\ Sane(e[q])
    BY InsideHasThread
  <2> QED BY <1>1, <2>1, BearsMarks
<1>3. Aimed' /\ Dated'
  BY <1>1, <1>2, ApiAims DEF Bears
<1>4. Halted' /\ Unborn'
  BY <1>1 DEF Halted, Unborn, Young
<1>5. Cleared'
  BY <1>1, <1>2 DEF DInv, Cleared, Bears
<1>6. \A q \in Plugins : Informed(q)'
  BY <1>1, <1>2, InformedOn DEF Pending
<1> QED BY <1>2, <1>3, <1>4, <1>5, <1>6 DEF DInv, Bears

-------------------------------------------------------------------------------
\* A host that has just loaded its plugins.
LEMMA InitDInv == ASSUME Init PROVE DInv
<1>1. \A p \in Plugins : e[p] = Loaded
  BY DEF Init
<1>2. \A p \in Plugins : Sane(e[p])
  BY <1>1 DEF Sane, Loaded
<1>3. \A p \in Plugins : /\ ~e[p].thread /\ ~e[p].terminated /\ ~e[p].stopping
                         /\ e[p].pc = "none" /\ e[p].seen = 0
  BY <1>1 DEF Loaded
<1>4. Aimed /\ Dated /\ Halted /\ Cleared
  BY DEF Init, Aimed, Dated, Halted, Cleared
<1>5. Unborn
  BY <1>3 DEF Init, Unborn, Young
<1>6. \A p \in Plugins : Informed(p)
  <2> SUFFICES ASSUME NEW p \in Plugins PROVE Informed(p)
    OBVIOUS
  <2>1. queue[p] = <<>> /\ values[p].v = 0 /\ values[p].said = 0
    BY DEF Init
  <2>2. Len(queue[p]) = 0 /\ 1..0 = {}
    BY <2>1
  <2>3. Answered(e[p], 0)
    BY <1>3 DEF Answered
  <2> QED BY <2>1, <2>2, <2>3 DEF Informed, LastIsTrue
<1> QED BY <1>2, <1>4, <1>5, <1>6 DEF DInv

\* Every step keeps the second invariant.
LEMMA NextDInv == ASSUME IInv, DInv, [Next]_vars PROVE DInv'
<1>1. CASE \E p \in Plugins : Dispatch(p) \/ Module(p) \/ World(p) \/ Swap(p)
  BY <1>1, OwnKeepsDInv, SwapKeepsDInv, IoPushKeepsDInv DEF World
<1>2. CASE Watchdog
  BY <1>2, WalkKeepsDInv, JudgeKeepsDInv, ClaimKeepsDInv DEF Watchdog
<1>3. CASE Api
  BY <1>3, LoopsKeepDInv, ConfigKeepsDInv, TellKeepsDInv, UnloadInlineKeepsDInv DEF Api
<1>4. CASE ApiGoesOn
  <2>1. CASE Stopping
    BY <2>1, LoopsKeepDInv, EndsKeepDInv, DeinitKeepsDInv, TellKeepsDInv, StopEndsKeepDInv,
       GraceKeepsDInv, DeinitInlineKeepsDInv DEF Stopping
  <2>2. CASE Started \/ \E p \in Plugins : SpawnOk(p) \/ SpawnFails(p) \/ ConfigPush(p)
    BY <2>2, LoopsKeepDInv, SpawnOkKeepsDInv, SpawnFailsKeepsDInv, ConfigKeepsDInv
  <2>3. CASE \E p \in Plugins : Unloading(p)
    BY <2>3, UnloadEndsKeepDInv, GraceKeepsDInv, UnloadClearsKeepDInv DEF Unloading
  <2> QED BY <1>4, <2>1, <2>2, <2>3 DEF ApiGoesOn
<1>5. CASE Ended \/ UNCHANGED vars
  <2>1. UNCHANGED vars
    BY <1>5 DEF Ended
  <2> QED BY <2>1 DEF vars, DInv, Aimed, Dated, Halted, Unborn, Cleared, Informed, Pending,
             LastIsTrue, IsConfig
<1> QED BY <1>1, <1>2, <1>3, <1>4, <1>5 DEF Next

\* The second invariant holds throughout.
THEOREM DInvHolds == Spec => []DInv
  BY InitDInv, NextDInv, IInvHolds, PTL DEF Spec

\* Dispatch thread, watchdog and API thread meet soundly (deliverTo,
\* watchdogTick, restart, unload, stop and deinit, host.zig): for every set of
\* plugins and every interleaving a kill is earned and hits the instance that
\* was judged, SHUTDOWN is the last event, a plugin that serves has the settings
\* last accepted, and what is retired or gone leaves nothing behind.
THEOREM DispatchHolds == Spec => []DispatchIsSound
<1>1. IInv /\ DInv => DispatchIsSound
  <2> SUFFICES ASSUME IInv, DInv PROVE DispatchIsSound
    OBVIOUS
  <2>1. RetiredIsErased /\ KillIsEarned /\ ShutdownIsLast
    BY DEF DInv, Sane, RetiredIsErased, KillIsEarned, ShutdownIsLast
  <2>2. TerminateHitsItsTarget
    BY DEF DInv, Aimed, Halted, TerminateHitsItsTarget
  <2>3. NothingLeftBehind
    BY DEF DInv, Cleared, NothingLeftBehind
  <2>4. SettingsInForce
    <3> SUFFICES ASSUME NEW p \in Plugins, Settled(p) PROVE e[p].seen >= values[p].said
      BY DEF SettingsInForce
    <3>1. ~Pending(p) /\ queue[p] \in Seq(Events)
      BY QueueOf DEF Settled, Pending
    <3>2. \A i \in 1..Len(queue[p]) : ~IsConfig(queue[p], i)
      BY <3>1 DEF Settled, IsConfig
    <3>3. Answered(e[p], values[p].said)
      BY <3>1, <3>2 DEF DInv, Informed
    <3> QED BY <3>3 DEF Answered, Settled
  <2> QED BY <2>1, <2>2, <2>3, <2>4 DEF DispatchIsSound
<1> QED BY <1>1, IInvHolds, DInvHolds, PTL
==============================================================================
