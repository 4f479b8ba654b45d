---------------------------- MODULE WindowsPlugins ----------------------------
(***************************************************************************)
(* The settings pane of the Windows shell as far as plugins are in it      *)
(* (src/windows/src/plugins, settings/ui).  The shell keeps one copy of    *)
(* the registry, read when the pane is loaded; a timer hands all of it to  *)
(* the core and to the store.  A page is built again whole, at once,       *)
(* whatever changes it.  The browse answers on threads of the system's     *)
(* own; a poll of the UI thread looks for what it found.                   *)
(***************************************************************************)
EXTENDS PluginConfig

VARIABLES
    pane,   \* the UI thread's
    near    \* the browse, under its lock

vars == <<core, store, mine, minted, pane, near>>

-------------------------------------------------------------------------------
\* up: "no", "rising" (loaded, its polls not started yet) or "up"; has, cfg, grant,
\* said: the registry's copy; apply: the timer; poll: the status timer; tab: the
\* section; rows, offers, switch, line: the page as drawn; reads: it draws what the
\* browse finds; typed: the text box the mariner is in; task: a dialog; parked: a
\* package dropped where no chart is open.
PaneType ==
    [up : {"no", "rising", "up"}, has : SUBSET Plugins, cfg : Cfg, grant : BOOLEAN,
     said : {0, 1}, apply : BOOLEAN, poll : BOOLEAN, tab : {"connections", "plugins"},
     rows : SUBSET Ids, offers : SUBSET Hosts, switch : BOOLEAN, line : {0, 1},
     reads : BOOLEAN, typed : [row : Ids, text : Texts] \cup {None},
     task : {"no", "ask", "pick", "sheet"}, parked : BOOLEAN]

\* on: a browse runs; calls: resolves on their way; news: the finds moved since the
\* pane last looked.
NearType == [on : BOOLEAN, calls : SUBSET Hosts, found : SUBSET Hosts, news : BOOLEAN]

Init ==
    /\ ConfigInit
    /\ pane = [up |-> "no", has |-> {}, cfg |-> Default, grant |-> TRUE, said |-> 0,
               apply |-> FALSE, poll |-> FALSE, tab |-> "connections", rows |-> {},
               offers |-> {}, switch |-> TRUE, line |-> 0, reads |-> FALSE,
               typed |-> None, task |-> "no", parked |-> FALSE]
    /\ near = [on |-> FALSE, calls |-> {}, found |-> {}, news |-> FALSE]

\* What answers on the network, less the hosts the list has.
NearbyFor(p, found) == IF Full(p.cfg) THEN {} ELSE found \ Held(p.cfg)

\* The page of the section, built again.  What was being typed is lost with its box.
HasList(p) == p.tab = "connections" /\ "nmea" \in p.has
RowsOf(p) == IF HasList(p) THEN DOMAIN p.cfg.nmea ELSE {}
Built(p, found) ==
    [p EXCEPT !.rows = RowsOf(p), !.offers = IF HasList(p) THEN NearbyFor(p, found) ELSE {},
              !.reads = HasList(p), !.switch = p.grant, !.line = p.said, !.typed = None]

\* The whole registry is read again, if there is a plugin layer to read.
ReadCfg(p, c) ==
    [nmea |-> IF "nmea" \in c.loaded THEN c.cfg.nmea ELSE p.cfg.nmea,
     added |-> IF "added" \in c.loaded THEN c.cfg.added ELSE p.cfg.added]
Reloaded(p, c) ==
    IF c.open THEN [p EXCEPT !.has = c.loaded, !.cfg = ReadCfg(p, c), !.grant = c.grant,
                             !.said = c.said]
    ELSE p

\* The sections: one nothing is filed under goes away, and the first takes over.
Tabbed(p) ==
    IF p.tab = "connections" /\ "nmea" \notin p.has THEN [p EXCEPT !.tab = "plugins"] ELSE p

\* LoadSettings.
Loaded(p, c, found) == Built(Tabbed(Reloaded(p, c)), found)

\* Of what the mariner made: a read over an edit whose timer is still to come ends it.
Survives(m, p) ==
    [q \in Plugins |-> IF p.apply /\ (q \notin p.has \/ p.cfg[q] # m[q]) THEN None ELSE m[q]]

Up == pane.up = "up" /\ pane.task = "no"
Kept == UNCHANGED <<core, store, minted>>

-------------------------------------------------------------------------------
(* Edits.                                                                   *)

Edited(p, cfg) == [p EXCEPT !.cfg = cfg, !.apply = TRUE]

SetNumber ==
    /\ Up /\ "added" \in pane.has
    /\ LET cfg == [pane.cfg EXCEPT !.added = 1 - @]
       IN pane' = Edited(pane, cfg) /\ Make("added", cfg, {store.added})
    /\ UNCHANGED near /\ Kept

\* Reset is offered while something is off its default.
ResetGroup ==
    /\ Up /\ "added" \in pane.has /\ pane.cfg.added # Default.added
    /\ LET cfg == [pane.cfg EXCEPT !.added = Default.added]
       IN pane' = Built(Edited(pane, cfg), near.found) /\ Make("added", cfg, {store.added})
    /\ UNCHANGED near /\ Kept

WithRow(cfg, i, text) ==
    [cfg EXCEPT !.nmea = [j \in DOMAIN @ \cup {i} |-> IF j = i THEN text ELSE @[j]]]

AddRow(text) ==
    /\ Up /\ pane.reads /\ (text = "" \/ text \in pane.offers) /\ ~Full(pane.cfg)
    /\ \E i \in Ids \ minted :
         /\ \A j \in Ids \ minted : i <= j
         /\ minted' = minted \cup {i}
         /\ LET cfg == WithRow(pane.cfg, i, text)
            IN pane' = Built(Edited(pane, cfg), near.found) /\ Make("nmea", cfg, {store.nmea})
    /\ UNCHANGED <<core, store, near>>

RemoveRow(i) ==
    /\ Up /\ i \in pane.rows
    /\ LET cfg == [pane.cfg EXCEPT !.nmea = [j \in DOMAIN @ \ {i} |-> @[j]]]
       IN pane' = Built(Edited(pane, cfg), near.found) /\ Make("nmea", cfg, {store.nmea})
    /\ UNCHANGED near /\ Kept

Type(i, text) ==
    /\ Up /\ i \in pane.rows
    /\ pane' = [pane EXCEPT !.typed = [row |-> i, text |-> text]]
    /\ UNCHANGED <<mine, near>> /\ Kept

\* Enter, or the box loses the focus, also to a page built meanwhile: the row is
\* found by its id, or is gone.
Commit ==
    /\ pane.up # "no" /\ pane.typed # None
    /\ LET t == pane.typed
           q == [pane EXCEPT !.typed = None]
           cfg == [pane.cfg EXCEPT !.nmea[t.row] = t.text]
       IN IF t.row \in DOMAIN pane.cfg.nmea /\ pane.cfg.nmea[t.row] # t.text
          THEN pane' = Edited(q, cfg) /\ Make("nmea", cfg, {store.nmea})
          ELSE pane' = q /\ UNCHANGED mine
    /\ UNCHANGED near /\ Kept

\* The timer 60 ms behind the last edit hands over every plugin of the copy.
Apply ==
    /\ pane.apply
    /\ core' = Pushed(core, pane.has, pane.cfg)
    /\ Save(pane.has, pane.cfg)
    /\ pane' = [pane EXCEPT !.apply = FALSE]
    /\ UNCHANGED <<minted, near>>

\* A grant's switch moves; the core's answer is not looked at, and the copy keeps
\* what it read.
ToggleGrant ==
    /\ Up /\ pane.tab = "plugins" /\ "added" \in pane.has
    /\ pane' = [pane EXCEPT !.switch = ~@]
    /\ core' = [core EXCEPT !.grant = IF core.open /\ "added" \in core.loaded
                                      THEN ~pane.switch ELSE @]
    /\ UNCHANGED <<store, mine, minted, near>>

Select(tab) ==
    /\ Up /\ pane.tab # tab /\ (tab = "connections" => "nmea" \in pane.has)
    /\ pane' = Built([pane EXCEPT !.tab = tab], near.found)
    /\ UNCHANGED <<mine, near>> /\ Kept

-------------------------------------------------------------------------------
(* The pane.                                                                *)

\* The pane is loaded and its window shown; its polls start behind that, and the
\* browse with them, if the copy has a list that wants one.
Show ==
    /\ pane.up = "no"
    /\ pane' = [Loaded(pane, core, near.found) EXCEPT !.up = "rising"]
    /\ near' = [near EXCEPT !.on = "nmea" \in pane'.has]
    /\ mine' = Survives(mine, pane')
    /\ Kept

\* What the browse found by now counts as drawn.
Shown ==
    /\ pane.up = "rising"
    /\ pane' = [pane EXCEPT !.up = "up", !.poll = TRUE]
    /\ near' = [near EXCEPT !.news = FALSE]
    /\ UNCHANGED mine /\ Kept

\* Once a second: the lines that moved are put in place, and a page that draws what
\* the browse finds is built again, unless the mariner is in a text box.
PollStatus ==
    /\ pane.poll /\ core.open /\ pane.said # core.said
    /\ pane' = [pane EXCEPT !.said = core.said, !.line = core.said]
    /\ UNCHANGED <<mine, near>> /\ Kept
PollFound ==
    /\ pane.poll /\ near.news /\ pane.reads /\ pane.typed = None
    /\ pane' = Built(pane, near.found) /\ near' = [near EXCEPT !.news = FALSE]
    /\ UNCHANGED mine /\ Kept

\* The window closes: the browse stops and forgets its finds.
Close ==
    /\ pane.up = "up"
    /\ pane' = [pane EXCEPT !.up = "no", !.poll = FALSE, !.rows = {}, !.offers = {},
                            !.reads = FALSE, !.typed = None, !.switch = TRUE, !.line = 0]
    /\ near' = [near EXCEPT !.on = FALSE, !.found = {}, !.news = TRUE]
    /\ UNCHANGED mine /\ Kept

\* Something else on the window builds the page again: a bake, a scan, a picture.
Rebuild ==
    /\ Up /\ pane' = Built(pane, near.found)
    /\ UNCHANGED <<mine, near>> /\ Kept

-------------------------------------------------------------------------------
(* The browse's threads.                                                    *)

BrowseFound(h) ==
    /\ near.on /\ h \notin near.calls \cup near.found
    /\ near' = [near EXCEPT !.calls = @ \cup {h}]
    /\ UNCHANGED <<mine, pane>> /\ Kept

\* No answer, or one behind the end of the browse, is dropped.
ResolveDone(h) ==
    /\ h \in near.calls
    /\ \/ near' = [near EXCEPT !.calls = @ \ {h}]
       \/ /\ near.on
          /\ near' = [near EXCEPT !.calls = @ \ {h}, !.found = @ \cup {h}, !.news = TRUE]
    /\ UNCHANGED <<mine, pane>> /\ Kept

-------------------------------------------------------------------------------
(* Installing and removing.                                                 *)

InstallClicked ==
    /\ Up /\ pane.tab = "plugins" /\ pane' = [pane EXCEPT !.task = "pick"]
    /\ UNCHANGED <<mine, near>> /\ Kept
AskUninstall ==
    /\ Up /\ pane.tab = "plugins" /\ "added" \in pane.has
    /\ pane' = [pane EXCEPT !.task = "ask"]
    /\ UNCHANGED <<mine, near>> /\ Kept

\* A package picked, or dropped on the chart.  With no chart open it is parked, in
\* the place of the one before it.
InstallFromPath ==
    /\ pane.task = "pick" \/ (pane.task = "no" /\ pane.up # "rising")
    /\ pane' = IF core.open THEN [pane EXCEPT !.task = "sheet"]
               ELSE [pane EXCEPT !.task = "no", !.parked = TRUE]
    /\ UNCHANGED <<mine, near>> /\ Kept

Dismissed ==
    /\ pane.task # "no" /\ pane' = [pane EXCEPT !.task = "no"]
    /\ UNCHANGED <<mine, near>> /\ Kept

Confirm ==
    /\ pane.task = "sheet" /\ core.open
    /\ core' = Installed(core)
    /\ pane' = LET p == [pane EXCEPT !.task = "no"]
               IN IF pane.up = "no" THEN p ELSE Loaded(p, core', near.found)
    /\ mine' = LET m == [mine EXCEPT !.added = None]
               IN IF pane.up = "no" THEN m ELSE Survives(m, pane')
    /\ UNCHANGED <<store, minted, near>>

\* The core's refusal is not looked at; the pane is loaded again, open or not.
Uninstall ==
    /\ pane.task = "ask"
    /\ core' = IF core.open THEN Uninstalled(core) ELSE core
    /\ pane' = Loaded([pane EXCEPT !.task = "no"], core', near.found)
    /\ mine' = Survives([mine EXCEPT !.added = IF core.open THEN None ELSE @], pane')
    /\ UNCHANGED <<store, minted, near>>

\* A chart opens, and a parked package is shown.
OpenChart ==
    /\ ~core.open /\ core' = Opened(core, store)
    /\ pane' = IF pane.parked /\ pane.task = "no"
               THEN [pane EXCEPT !.parked = FALSE, !.task = "sheet"]
               ELSE [pane EXCEPT !.parked = FALSE]
    /\ UNCHANGED <<store, mine, minted, near>>
CloseChart ==
    /\ core.open /\ core' = Closed(core)
    /\ UNCHANGED <<store, mine, minted, pane, near>>

-------------------------------------------------------------------------------
Edits ==
    \/ SetNumber \/ ResetGroup \/ ToggleGrant
    \/ \E text \in Texts : AddRow(text)
    \/ \E i \in Ids : RemoveRow(i)
    \/ \E i \in Ids, text \in Texts : Type(i, text)
    \/ Commit
Network == \E h \in Hosts : BrowseFound(h) \/ ResolveDone(h)
Window == Show \/ Close \/ Rebuild \/ \E t \in {"connections", "plugins"} : Select(t)
Dialogs == InstallClicked \/ AskUninstall \/ InstallFromPath \/ Dismissed
Loop == Shown \/ Apply \/ PollStatus \/ PollFound
Chart == OpenChart \/ CloseChart \/ (Speak /\ UNCHANGED <<pane, near>>)

Next == Chart \/ Edits \/ Network \/ Window \/ Dialogs \/ Confirm \/ Uninstall \/ Loop

-------------------------------------------------------------------------------
(* Properties.                                                              *)

\* What the mariner set and the store does not have is in the copy, and the timer
\* that saves it is set.
EditIsOnItsWay ==
    \A p \in Plugins : mine[p] # None =>
        pane.apply /\ p \in pane.has /\ pane.cfg[p] = mine[p]

\* The page is drawn as the copy is, its lines with it; nothing polls and nothing
\* browses behind a pane that is closed, and no find outlives its browse.
PaneIsTrue ==
    /\ pane.up # "no" =>
         /\ pane.rows = RowsOf(pane) /\ pane.reads = HasList(pane)
         /\ pane.line = pane.said /\ pane.offers \subseteq near.found
    /\ pane.poll <=> pane.up = "up"
    /\ near.on => pane.up # "no"
    /\ near.found # {} => near.on

\* What was found is drawn, or the poll has news of it.
FoundIsShown ==
    pane.up = "up" /\ pane.reads /\ ~near.news => pane.offers = NearbyFor(pane, near.found)

\* A grant's switch stands as the core has it.
SwitchIsTrue == pane.up = "up" /\ pane.tab = "plugins" /\ "added" \in pane.has
                => pane.switch = core.grant
===============================================================================
