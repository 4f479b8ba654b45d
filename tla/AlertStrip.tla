------------------------------- MODULE AlertStrip -------------------------------
(***************************************************************************)
(* The alerts a plugin raises, from the broker's list                      *)
(* (src/src/plugin/broker.zig, broker/alerts.zig) to the strip over the    *)
(* chart and its siren: alerts.c of the Linux shell, Alerts.cpp of the     *)
(* Windows shell.  The shell keeps a copy it takes once a second, when the *)
(* list's number has moved, and forgets with the handle the list is of.    *)
(*                                                                         *)
(* A condition is one alert under the plugin's own key; what the words say *)
(* is left out.  A notice is treated as a warning is.                      *)
(***************************************************************************)
EXTENDS Naturals, Integers, FiniteSets

CONSTANTS
    Conds,       \* what a plugin can warn of
    MaxAlerts,   \* max_alerts_per_plugin
    MaxVisible,  \* LK_ALERT_MAX_VISIBLE, kMaxVisible
    MaxIds, MaxSeq, MaxOpens   \* bounds: alerts of a handle, its number, handles

VARIABLES
    shell,   \* "linux" or "windows"
    handle,  \* a chart is open
    layer,   \* its plugin layer is up
    book, seq, next,   \* the broker's alerts, alerts_seq and next_alert_id
    watch,   \* the one-second timer runs
    known,   \* the number the copy was taken at; -1 forces the next one
    list,    \* the copy
    siren,   \* the siren repeats
    opens    \* bound: handles there have been

core == <<handle, layer, book, seq, next, opens>>
strip == <<watch, known, list, siren>>
vars == <<shell, core, strip>>

Severities == {"warning", "alarm"}
Alerts == [id : 1 .. MaxIds, cond : Conds, severity : Severities, ack : BOOLEAN]

Louder(s, t) == s = "alarm" /\ t = "warning"

\* Order.less: the unanswered first, then the loudest, then the oldest.
Before(a, b) ==
    IF a.ack # b.ack THEN b.ack
    ELSE IF a.severity # b.severity THEN Louder(a.severity, b.severity)
    ELSE a.id < b.id

\* The rows on the chart.
Shown(as) ==
    {a \in as : ~a.ack /\ Cardinality({b \in as : Before(b, a)}) < MaxVisible}

Audible(as) == \E a \in as : a.severity = "alarm" /\ ~a.ack

Init ==
    /\ shell \in {"linux", "windows"}
    /\ handle = FALSE /\ layer = FALSE
    /\ book = {} /\ seq = 0 /\ next = 1
    /\ watch = FALSE /\ known = -1 /\ list = {} /\ siren = FALSE
    /\ opens = 0

-------------------------------------------------------------------------------
(* the broker                                                                *)

\* clearAlertsLocked, at the head of every raise and every read: any of the answered
\* ones may have been idle for alert_clear_ms.
Cleared(as) == {as \ gone : gone \in SUBSET {a \in as : a.ack}}

\* setAlertWordsLocked and the louder restatement, of an alert that is up.
Restate(a, severity, kept) ==
    LET louder == Louder(severity, a.severity)
        now == IF louder THEN [a EXCEPT !.severity = severity, !.ack = FALSE] ELSE a
    IN  /\ book' = (kept \ {a}) \cup {now}
        /\ \E words \in BOOLEAN :
             seq' = seq + Cardinality(book \ kept) + (IF words \/ louder THEN 1 ELSE 0)
        /\ UNCHANGED next

\* makeAlertRoomLocked: the oldest answered one gives way, or the raise is refused.
Room(kept) ==
    IF Cardinality(kept) < MaxAlerts THEN kept
    ELSE kept \ {a \in kept : a.ack /\ \A b \in kept : b.ack => a.id <= b.id}

\* raiseAlert
Raise(c, severity) ==
    /\ layer /\ next <= MaxIds /\ seq < MaxSeq
    /\ \E kept \in Cleared(book) :
         \/ \E a \in kept : a.cond = c /\ Restate(a, severity, kept)
         \/ /\ \A a \in kept : a.cond # c
            /\ IF Cardinality(Room(kept)) < MaxAlerts
               THEN /\ book' = Room(kept) \cup
                         {[id |-> next, cond |-> c, severity |-> severity, ack |-> FALSE]}
                    /\ seq' = seq + Cardinality(book \ Room(kept)) + 1
                    /\ next' = next + 1
               ELSE /\ book' = kept /\ seq' = seq + Cardinality(book \ kept)
                    /\ UNCHANGED next
    /\ UNCHANGED <<shell, handle, layer, opens, strip>>

\* Variant of Drop, for a mutant: the number stays.
DropQuietly ==
    /\ book # {}
    /\ book' = {}
    /\ UNCHANGED <<shell, handle, layer, seq, next, opens, strip>>

\* dropAlertsLocked: the plugin died, was uninstalled or lost its grant.
Drop ==
    /\ book # {}
    /\ book' = {} /\ seq' = seq + Cardinality(book)
    /\ UNCHANGED <<shell, handle, layer, next, opens, strip>>

\* ackAlert
Acked(id) ==
    {IF a.id = id THEN [a EXCEPT !.ack = TRUE] ELSE a : a \in book}

\* alertsRead over the alerts `as`, and the number the caller is told.
Read(as) ==
    /\ book' \in Cleared(as)
    /\ seq' = seq + Cardinality(as \ book') + Cardinality(as \ book)

-------------------------------------------------------------------------------
(* what both shells do with a reading                                        *)

\* Nothing readable is nothing showable.
Blank ==
    /\ list' = {}
    /\ known' = IF list = {} THEN known ELSE -1
    /\ siren' = FALSE

\* The copy is taken when the number has moved from `at`; the siren follows it.
Take(at) ==
    /\ known' = seq'
    /\ list' = IF at = seq' THEN list ELSE book'
    /\ siren' = Audible(list')

\* A watch that stops forgets everything.
Stopped == watch' = FALSE /\ list' = {} /\ known' = -1 /\ siren' = FALSE

\* A watch that starts over the list of a handle that has raised nothing.
Started == watch' = TRUE /\ list' = {} /\ known' = (IF layer' THEN 0 ELSE -1) /\ siren' = FALSE

\* A handle is made, with a broker of its own.
Fresh ==
    /\ opens < MaxOpens /\ opens' = opens + 1
    /\ handle' = TRUE /\ layer' \in BOOLEAN
    /\ book' = {} /\ seq' = 0 /\ next' = 1

Gone ==
    /\ handle' = FALSE /\ layer' = FALSE
    /\ book' = {} /\ seq' = 0 /\ next' = 1
    /\ UNCHANGED opens

-------------------------------------------------------------------------------
(* Linux                                                                     *)

\* lk_alerts_rebuild: each row with a button of its own alert.
LinuxStrip == Shown(list)

\* lk_alerts_poll with an answer, and without one.
LinuxPoll ==
    /\ shell = "linux" /\ watch /\ layer
    /\ Read(book)
    /\ Take(known)
    /\ UNCHANGED <<shell, handle, layer, next, opens, watch>>

LinuxUnread ==
    /\ shell = "linux" /\ watch
    /\ Blank
    /\ UNCHANGED <<shell, core, watch>>

\* lk_alerts_acknowledge: the next copy is forced, and taken at once.
LinuxAcknowledge(a) ==
    /\ shell = "linux" /\ a \in LinuxStrip
    /\ Read(Acked(a.id))
    /\ Take(-1)
    /\ UNCHANGED <<shell, handle, layer, next, opens, watch>>

\* lk_chart_controller_open: the close drops has-chart, the load of the plugins
\* tells of a change, and lk_alerts_sync_watch stops and starts.
LinuxOpen ==
    /\ shell = "linux"
    /\ Fresh
    /\ IF layer' THEN Started ELSE Stopped
    /\ UNCHANGED shell

\* lk_chart_controller_close, or an open that fails.
LinuxClose ==
    /\ shell = "linux" /\ handle
    /\ Gone /\ Stopped
    /\ UNCHANGED shell

\* lk_alerts_plugins_changed, after an install that brought the layer up.
LinuxInstall ==
    /\ shell = "linux" /\ handle
    /\ layer' = TRUE
    /\ IF watch THEN UNCHANGED strip ELSE Started
    /\ UNCHANGED <<shell, handle, book, seq, next, opens>>

-------------------------------------------------------------------------------
(* Windows                                                                   *)

\* RebuildAlertStrip
WindowsStrip == Shown(list)

\* RefreshAlerts with an answer, and without one.
WindowsPoll ==
    /\ shell = "windows" /\ watch /\ layer
    /\ Read(book)
    /\ Take(known)
    /\ UNCHANGED <<shell, handle, layer, next, opens, watch>>

WindowsUnread ==
    /\ shell = "windows" /\ watch
    /\ Blank
    /\ UNCHANGED <<shell, core, watch>>

\* AcknowledgeAlert
WindowsAcknowledge(a) ==
    /\ shell = "windows" /\ a \in WindowsStrip
    /\ Read(Acked(a.id))
    /\ Take(-1)
    /\ UNCHANGED <<shell, handle, layer, next, opens, watch>>

\* CloseChartHandle, then DoOpenPaths or ReopenChartSets, which start the watch
\* whatever plugins the handle has.
WindowsOpen ==
    /\ shell = "windows"
    /\ Fresh /\ Started
    /\ UNCHANGED shell

\* CloseChartHandle, and OpenBasemapForSetup over an open that failed: the handle
\* has plugins, and no watch.
WindowsOpenForSetup ==
    /\ shell = "windows"
    /\ Fresh /\ Stopped
    /\ UNCHANGED shell

\* CloseChartHandle, and no basemap either.
WindowsClose ==
    /\ shell = "windows" /\ handle
    /\ Gone /\ Stopped
    /\ UNCHANGED shell

\* lk_controller_plugin_install
WindowsInstall ==
    /\ shell = "windows" /\ handle
    /\ layer' = TRUE
    /\ UNCHANGED <<shell, handle, book, seq, next, opens, strip>>

-------------------------------------------------------------------------------

Poll == LinuxPoll \/ WindowsPoll

Next ==
    \/ \E c \in Conds, s \in Severities : Raise(c, s)
    \/ Drop
    \/ Poll \/ LinuxUnread \/ WindowsUnread
    \/ \E a \in list : LinuxAcknowledge(a) \/ WindowsAcknowledge(a)
    \/ LinuxOpen \/ LinuxClose \/ LinuxInstall
    \/ WindowsOpen \/ WindowsOpenForSetup \/ WindowsClose \/ WindowsInstall

Spec == Init /\ [][Next]_vars

\* The timer fires again, and is answered.
Fairness == WF_vars(Poll)

FairSpec == Spec /\ Fairness

-------------------------------------------------------------------------------

TypeOK ==
    /\ shell \in {"linux", "windows"}
    /\ book \subseteq Alerts /\ list \subseteq Alerts
    /\ seq \in Nat /\ next \in 1 .. MaxIds + 1 /\ known \in Nat \cup {-1}
    /\ {handle, layer, watch, siren} \subseteq BOOLEAN
    /\ layer => handle

\* The number is honest: a copy whose number is the list's own is the list, so nothing
\* raised, silenced or dropped is missed, over any number of handles.
CopyIsTheBook == layer /\ known = seq => list = book

\* The siren repeats while the copy has an alarm nobody answered, and then the strip
\* has an alarm on it to answer, however many alerts stand before it.
SirenCanBeAnswered ==
    /\ siren = Audible(list)
    /\ siren => \E a \in Shown(list) : a.severity = "alarm"

\* A row names the alert it was drawn for: what Acknowledge silences is the danger the
\* mariner read, although numbers start again with every handle.
RowNamesItsAlert == \A a \in list, b \in book : a.id = b.id => a.cond = b.cond

\* The Linux watch runs just while a layer is up.
WatchIsOfTheLayer == shell = "linux" => (watch <=> layer)

\* The strip and its siren say what the plugins raised.
StripIsTrue == CopyIsTheBook /\ SirenCanBeAnswered /\ RowNamesItsAlert /\ WatchIsOfTheLayer

\* An alarm is heard while there is a watch, unless it is over before.
Alarm == Audible(book) /\ watch
AlarmIsHeard == Alarm ~> siren \/ ~Alarm

\* What is silenced had been heard: the row that was clicked said alarm.  The code
\* does otherwise when the alert grew louder since the row was drawn.
SilencedWasHeard ==
    [][\A a \in book, b \in book' :
         a.id = b.id /\ a.severity = "alarm" /\ ~a.ack /\ b.ack /\ opens' = opens =>
             \E c \in list : c.id = a.id /\ c.severity = "alarm"]_vars
===============================================================================
