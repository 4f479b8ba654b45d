----------------------------- MODULE LinuxPlugins -----------------------------
(***************************************************************************)
(* The settings window of the Linux shell as far as plugins are in it      *)
(* (src/linux/src/plugins, ui/settings).  A window reads the registry once *)
(* when it is built; edits go to its copy, and a timer hands every copy    *)
(* that moved to the core and to the store.  Its lists are filled again on *)
(* an idle.  While it stands it browses the boat's network.  Installing or *)
(* removing a plugin destroys it and builds another, on an idle, and that  *)
(* one the main window does not know: it may build a second beside it.     *)
(***************************************************************************)
EXTENDS PluginConfig

CONSTANT Slots  \* bound: settings windows at a time, numbered from 1

VARIABLES
    win,      \* the settings windows
    tracked   \* the one the main window knows, or 0

vars == <<core, store, mine, minted, win, tracked>>

-------------------------------------------------------------------------------
(* A window.                                                                *)

\* up: "held" when it is destroyed and a dialog it raised still holds it; has, cfg,
\* last: the registry's read, and the configurations last pushed; apply, refill,
\* poll, reopen: timers and idles; rows, offers: the list as drawn; task: the
\* dialog that stands; browse, calls, found: the browse, see below; beside:
\* history, what another window made or saved since this one read or pushed it.
NoWin ==
    [up |-> "no", has |-> {}, cfg |-> Default, last |-> Nothing, grant |-> TRUE,
     said |-> 0, apply |-> FALSE, refill |-> FALSE, poll |-> FALSE, reopen |-> FALSE,
     rows |-> {}, offers |-> {}, typed |-> None, task |-> "no",
     browse |-> "no", calls |-> {}, found |-> {}, beside |-> {}]

WinType ==
    [up : {"no", "up", "held"}, has : SUBSET Plugins, cfg : Cfg,
     last : [nmea : Rows \cup {None}, added : {0, 1, None}], grant : BOOLEAN,
     said : {0, 1}, apply : BOOLEAN, refill : BOOLEAN, poll : BOOLEAN, reopen : BOOLEAN,
     rows : SUBSET Ids, offers : SUBSET Hosts,
     typed : [row : Ids, text : Texts] \cup {None},
     task : {"no", "ask", "pick", "sheet"},
     browse : {"no", "asked", "up"}, calls : SUBSET Hosts, found : SUBSET Hosts,
     beside : SUBSET {"nmea", "grant"}]

\* What answers on the network, less the hosts the list has.
Nearby(w) == IF w.browse = "no" \/ Full(w.cfg) THEN {} ELSE w.found \ Held(w.cfg)

\* The list drawn again.  The first fill is before the browse starts.
RowsOf(w) == IF "nmea" \in w.has THEN DOMAIN w.cfg.nmea ELSE {}
Fill(w) ==
    [w EXCEPT !.rows = RowsOf(w),
              !.offers = Nearby(w), !.refill = FALSE, !.typed = None]

\* The plugins that show a line in the window: the list's rows, and what was added.
Lines(w) == w.rows # {} \/ "added" \in w.has

\* The registry is read: with no chart open there is no plugin layer to read.
ReadHas(c) == IF c.open THEN c.loaded ELSE {}
ReadList(c) == IF "nmea" \in ReadHas(c) THEN c.cfg.nmea ELSE Default.nmea
ReadNumber(c) == IF "added" \in ReadHas(c) THEN c.cfg.added ELSE Default.added
ReadWin(c) ==
    [NoWin EXCEPT !.up = "up", !.has = ReadHas(c), !.grant = c.grant, !.said = c.said,
                  !.cfg = [nmea |-> ReadList(c), added |-> ReadNumber(c)]]

\* A window is built: one read of the registry, the lists, a poll if there is a line
\* to watch, and a browse if there is a list that wants one.
Browses(w) == IF "nmea" \in w.has THEN "asked" ELSE "no"
NewWin(c) ==
    LET read == Fill(ReadWin(c)) IN [read EXCEPT !.poll = Lines(read), !.browse = Browses(read)]

\* Destroying a window stops what would write into it.
Stopped(w) ==
    [w EXCEPT !.up = "held", !.poll = FALSE, !.refill = FALSE, !.browse = "no",
              !.calls = {}, !.rows = {}, !.offers = {}, !.typed = None]

Moved(w) == {p \in w.has : w.cfg[p] # w.last[p]}

\* Every copy that differs from what was pushed last is pushed and saved.
Applied(w) == [w EXCEPT !.apply = FALSE, !.beside = @ \ Moved(w),
                        !.last = [p \in Plugins |-> IF p \in w.has THEN w.cfg[p] ELSE @[p]]]

\* A window freed with an edit pending applies it first.
Flushed(w) == IF w.apply THEN Moved(w) ELSE {}

\* It is freed with its last reference.  The question and the picker hold one, the
\* install sheet does not; an idle that is to build it again does not either, and
\* what either does with a window that is freed is undefined and has no step here.
IsHeld(w) == w.task \in {"ask", "pick"}
Left(w) ==
    IF IsHeld(w) THEN Stopped(w) ELSE [NoWin EXCEPT !.task = w.task, !.reopen = w.reopen]
Freed(w) == IF IsHeld(w) THEN {} ELSE Flushed(w)

\* The mariner's edit makes cfg of the copy.
Edited(w, cfg) == [w EXCEPT !.cfg = cfg, !.apply = TRUE]

Up(s) == win[s].up = "up"
\* Every dialog is modal, for all the windows there are.
NoDialog == \A s \in Slots : win[s].task = "no"
Put(s, w) == win' = [win EXCEPT ![s] = w]

\* As Put, and the copies of the other windows become older ones of what.
Overtaken(w, what) ==
    IF w.up = "no" THEN w ELSE [w EXCEPT !.beside = @ \cup (what \cap {"nmea", "grant"})]
Change(s, w, what) ==
    win' = [t \in Slots |-> IF t = s THEN w ELSE Overtaken(win[t], what)]

\* The mariner's edit of p in a window.  One that is back at what the window pushed
\* last the window takes for saved, whatever another one saved meanwhile.
Edit(s, p, w) ==
    /\ Change(s, w, {p})
    /\ Make(p, w.cfg, {store[p], w.last[p]})

-------------------------------------------------------------------------------
(* Edits.                                                                   *)

SetNumber(s) ==
    /\ Up(s) /\ NoDialog /\ "added" \in win[s].has
    /\ LET cfg == [win[s].cfg EXCEPT !.added = 1 - @]
       IN Edit(s, "added", Edited(win[s], cfg))
    /\ UNCHANGED <<core, store, minted, tracked>>

\* Reset pushes the defaults, whether or not they are new.
ResetGroup(s) ==
    /\ Up(s) /\ NoDialog /\ "added" \in win[s].has
    /\ LET cfg == [win[s].cfg EXCEPT !.added = Default.added]
       IN Edit(s, "added", Edited(win[s], cfg))
    /\ UNCHANGED <<core, store, minted, tracked>>

\* A row on its columns' defaults, or one filled in from what answered; the list is
\* filled again on an idle, as the button that asked is still emitting.
WithRow(cfg, i, text) ==
    [cfg EXCEPT !.nmea = [j \in DOMAIN @ \cup {i} |-> IF j = i THEN text ELSE @[j]]]

AddRow(s, text) ==
    /\ Up(s) /\ NoDialog /\ "nmea" \in win[s].has
    /\ text = "" \/ text \in win[s].offers
    /\ ~Full(win[s].cfg)
    /\ \E i \in Ids \ minted :
         /\ \A j \in Ids \ minted : i <= j
         /\ minted' = minted \cup {i}
         /\ LET cfg == WithRow(win[s].cfg, i, text)
            IN Edit(s, "nmea", [Edited(win[s], cfg) EXCEPT !.refill = TRUE])
    /\ UNCHANGED <<core, store, tracked>>

\* A row removed twice, the second time before the refill, is gone already.
RemoveRow(s, i) ==
    /\ Up(s) /\ NoDialog /\ i \in win[s].rows
    /\ IF i \in DOMAIN win[s].cfg.nmea
       THEN LET cfg == [win[s].cfg EXCEPT !.nmea = [j \in DOMAIN @ \ {i} |-> @[j]]]
            IN Edit(s, "nmea", [Edited(win[s], cfg) EXCEPT !.refill = TRUE])
       ELSE Put(s, [win[s] EXCEPT !.refill = TRUE]) /\ UNCHANGED mine
    /\ UNCHANGED <<core, store, minted, tracked>>

\* A host is typed, and committed by Enter or by leaving the field.
Type(s, i, text) ==
    /\ Up(s) /\ NoDialog /\ i \in win[s].rows
    /\ Put(s, [win[s] EXCEPT !.typed = [row |-> i, text |-> text]])
    /\ UNCHANGED <<core, store, mine, minted, tracked>>

\* The typed text as the copy has it; a row that is gone, and a text that is the
\* same, change nothing.
Takes(w) == /\ w.typed # None /\ w.typed.row \in DOMAIN w.cfg.nmea
            /\ w.cfg.nmea[w.typed.row] # w.typed.text
Typed(w) == [w.cfg EXCEPT !.nmea[w.typed.row] = w.typed.text]

Commit(s) ==
    /\ Up(s) /\ win[s].typed # None
    /\ IF Takes(win[s])
       THEN Edit(s, "nmea", [Edited(win[s], Typed(win[s])) EXCEPT !.typed = None])
       ELSE Put(s, [win[s] EXCEPT !.typed = None]) /\ UNCHANGED mine
    /\ UNCHANGED <<core, store, minted, tracked>>

\* The idle that fills the list again.  It takes a field that is being typed in off
\* the window, which leaves it (and commits) or does not.
Refill(s) ==
    /\ Up(s) /\ win[s].refill
    /\ \/ Put(s, Fill(win[s])) /\ UNCHANGED mine
       \/ /\ Takes(win[s])
          /\ Edit(s, "nmea", Fill(Edited(win[s], Typed(win[s]))))
    /\ UNCHANGED <<core, store, minted, tracked>>

\* The timer 60 ms behind the last edit.
Apply(s) ==
    /\ win[s].apply
    /\ core' = Pushed(core, Moved(win[s]), win[s].cfg)
    /\ Save(Moved(win[s]), win[s].cfg)
    /\ Change(s, Applied(win[s]), Moved(win[s]))
    /\ UNCHANGED <<minted, tracked>>

\* A grant's switch: the core refuses, and it is put back, or the copy follows.
ToggleGrant(s) ==
    /\ Up(s) /\ NoDialog /\ "added" \in win[s].has
    /\ LET taken == core.open /\ "added" \in core.loaded
       IN /\ core' = [core EXCEPT !.grant = IF taken THEN ~win[s].grant ELSE @]
          /\ IF taken
             THEN Change(s, [win[s] EXCEPT !.grant = ~@, !.beside = @ \ {"grant"}], {"grant"})
             ELSE UNCHANGED win
    /\ UNCHANGED <<store, mine, minted, tracked>>

-------------------------------------------------------------------------------
(* The lines, and the browse.                                               *)

\* Once a second the status lines are read again, of the plugins the copy has.
Poll(s) ==
    /\ Up(s) /\ win[s].poll /\ core.open /\ win[s].said # core.said
    /\ Put(s, [win[s] EXCEPT !.said = core.said])
    /\ UNCHANGED <<core, store, mine, minted, tracked>>

BrowserMade(s) ==
    /\ win[s].browse = "asked" /\ Put(s, [win[s] EXCEPT !.browse = "up"])
    /\ UNCHANGED <<core, store, mine, minted, tracked>>

\* A service is announced: it is resolved, and the answer is one of the finds.
ItemNew(s, h) ==
    /\ win[s].browse # "no" /\ h \notin win[s].calls \cup win[s].found
    /\ Put(s, [win[s] EXCEPT !.calls = @ \cup {h}])
    /\ UNCHANGED <<core, store, mine, minted, tracked>>

Resolved(s, h) ==
    /\ h \in win[s].calls
    /\ \/ Put(s, [win[s] EXCEPT !.calls = @ \ {h}])
       \/ Put(s, [win[s] EXCEPT !.calls = @ \ {h}, !.found = @ \cup {h}, !.refill = TRUE])
    /\ UNCHANGED <<core, store, mine, minted, tracked>>

ItemRemove(s, h) ==
    /\ win[s].browse # "no" /\ h \in win[s].found
    /\ Put(s, [win[s] EXCEPT !.found = @ \ {h}, !.refill = TRUE])
    /\ UNCHANGED <<core, store, mine, minted, tracked>>

-------------------------------------------------------------------------------
(* Windows and dialogs.                                                     *)

\* A slot no window, sheet or idle has.
Free(s) == win[s] = NoWin

\* The main window opens settings, or brings forward those it knows.
Present(s) ==
    /\ tracked = 0 /\ Free(s) /\ \A t \in Slots : Free(t) => s <= t
    /\ Put(s, NewWin(core)) /\ tracked' = s
    /\ UNCHANGED <<core, store, mine, minted>>

\* The window is destroyed.
Close(s) ==
    /\ Up(s)
    /\ core' = Pushed(core, Freed(win[s]), win[s].cfg)
    /\ Save(Freed(win[s]), win[s].cfg)
    /\ Change(s, Left(win[s]), Freed(win[s]))
    /\ tracked' = IF tracked = s THEN 0 ELSE tracked
    /\ UNCHANGED minted

AskUninstall(s) ==
    /\ Up(s) /\ NoDialog /\ "added" \in win[s].has
    /\ Put(s, [win[s] EXCEPT !.task = "ask"])
    /\ UNCHANGED <<core, store, mine, minted, tracked>>

InstallClicked(s) ==
    /\ Up(s) /\ NoDialog
    /\ Put(s, [win[s] EXCEPT !.task = "pick"])
    /\ UNCHANGED <<core, store, mine, minted, tracked>>

\* Cancelled, refused, or (a picker) answered behind a window that closed.
\* The window it held is freed.
Dismissed(s) ==
    LET w == [win[s] EXCEPT !.task = "no"]
        out == IF w.up = "held" THEN Freed(w) ELSE {}
    IN  /\ win[s].task # "no"
        /\ core' = Pushed(core, out, w.cfg)
        /\ Save(out, w.cfg)
        /\ Change(s, IF w.up = "held" THEN Left(w) ELSE w, out)
        /\ UNCHANGED <<minted, tracked>>

\* A package the core reads is shown before anything is done.
FileChosen(s) ==
    /\ win[s].task = "pick" /\ Up(s) /\ core.open
    /\ Put(s, [win[s] EXCEPT !.task = "sheet"])
    /\ UNCHANGED <<core, store, mine, minted, tracked>>

\* The sheet outlives its window.
Confirm(s) ==
    /\ win[s].task = "sheet" /\ core.open
    /\ core' = Installed(core)
    /\ Change(s, [win[s] EXCEPT !.task = "no", !.reopen = TRUE], {"grant"})
    /\ mine' = [mine EXCEPT !.added = None]
    /\ UNCHANGED <<store, minted, tracked>>

Uninstall(s) ==
    /\ win[s].task = "ask" /\ Up(s) /\ core.open /\ "added" \in core.loaded
    /\ core' = Uninstalled(core)
    /\ Put(s, [win[s] EXCEPT !.task = "no", !.reopen = TRUE])
    /\ mine' = [mine EXCEPT !.added = None]
    /\ UNCHANGED <<store, minted, tracked>>

\* The idle that destroys the window and builds another, which the main window does
\* not know; in its place, unless a dialog still has that.
Rebuilt(s, c) ==
    LET w == [win[s] EXCEPT !.reopen = FALSE] IN
    \E t \in Slots :
        /\ IF w.task = "no" THEN t = s ELSE Free(t)
        /\ win' = [u \in Slots |-> IF u = t THEN NewWin(c)
                                   ELSE IF u = s THEN Left(w)
                                   ELSE Overtaken(win[u], Freed(w))]

\* Reopen that builds the new window before it destroys the old one.
ReopenReadsFirst(s) ==
    /\ Up(s) /\ win[s].reopen
    /\ core' = Pushed(core, Freed(win[s]), win[s].cfg)
    /\ Save(Freed(win[s]), win[s].cfg)
    /\ Rebuilt(s, core)
    /\ tracked' = IF tracked = s THEN 0 ELSE tracked
    /\ UNCHANGED minted

Reopen(s) ==
    /\ Up(s) /\ win[s].reopen
    /\ core' = Pushed(core, Freed(win[s]), win[s].cfg)
    /\ Save(Freed(win[s]), win[s].cfg)
    /\ Rebuilt(s, core')
    /\ tracked' = IF tracked = s THEN 0 ELSE tracked
    /\ UNCHANGED minted

OpenChart ==
    /\ ~core.open /\ core' = Opened(core, store)
    /\ UNCHANGED <<store, mine, minted, win, tracked>>
CloseChart ==
    /\ core.open /\ core' = Closed(core)
    /\ UNCHANGED <<store, mine, minted, win, tracked>>

-------------------------------------------------------------------------------
Init == ConfigInit /\ win = [s \in Slots |-> NoWin] /\ tracked = 0

Edits(s) ==
    \/ SetNumber(s) \/ ResetGroup(s) \/ ToggleGrant(s)
    \/ \E text \in Texts : AddRow(s, text)
    \/ \E i \in Ids : RemoveRow(s, i)
    \/ \E i \in Ids, text \in Texts : Type(s, i, text)
    \/ Commit(s)
Network(s) ==
    BrowserMade(s) \/ \E h \in Hosts : ItemNew(s, h) \/ Resolved(s, h) \/ ItemRemove(s, h)
Dialogs(s) ==
    AskUninstall(s) \/ InstallClicked(s) \/ FileChosen(s) \/ Dismissed(s)
Loop(s) == Apply(s) \/ Refill(s) \/ Poll(s) \/ Reopen(s)
Chart == OpenChart \/ CloseChart \/ (Speak /\ UNCHANGED <<win, tracked>>)

Next ==
    \/ Chart
    \/ \E s \in Slots :
         \/ Present(s) \/ Close(s) \/ Edits(s) \/ Network(s) \/ Loop(s)
         \/ Dialogs(s) \/ Confirm(s) \/ Uninstall(s)

-------------------------------------------------------------------------------
(* Properties.                                                              *)

\* What the mariner set and the store does not have is in a window's copy, and the
\* timer that saves it is set: whatever happens to the window, the edit is kept.
EditIsOnItsWay ==
    \A p \in Plugins : mine[p] # None =>
        \E s \in Slots : win[s].apply /\ p \in Moved(win[s]) /\ win[s].cfg[p] = mine[p]

\* The list is drawn as the copy is, or an idle will fill it.  A grant's switch
\* stands as the core has it, unless another window moved it.  A window that is gone
\* answers nothing and asks for nothing, and the main window knows none such.
WindowIsTrue ==
    \A s \in Slots : LET w == win[s] IN
        /\ Up(s) /\ ~w.refill => w.rows = RowsOf(w)
        /\ Up(s) /\ "added" \in w.has /\ ~w.reopen /\ "grant" \notin w.beside
             => w.grant = core.grant
        /\ ~Up(s) => /\ ~w.refill /\ ~w.poll /\ w.browse = "no" /\ w.calls = {}
                     /\ w.up = "held" <=> IsHeld(w)
                     /\ w.up = "no" => ~w.apply
                     /\ tracked # s

\* A save of the plugin that stays puts down what the mariner made of it, never an
\* older copy over it, but for the copy of a window beside which another one edited or
\* saved.
NothingElseIsUndone ==
    \/ NothingIsUndone
    \/ \E s \in Slots : "nmea" \in win[s].beside /\ win[s].cfg.nmea = store'.nmea

\* "Doing it on an idle keeps the rebuild off the signal that asked for it"
\* (plugins-page.c:15): the idle finds its window.
ReopenFindsItsWindow == \A s \in Slots : win[s].reopen => Up(s)

\* What is offered still answers, or the list will be filled again.
OffersAnswer == \A s \in Slots : Up(s) /\ ~win[s].refill => win[s].offers \subseteq win[s].found

\* A host of the list is not offered again (plugins.c:569).
OffersAreNew ==
    \A s \in Slots : Up(s) /\ ~win[s].refill => win[s].offers \cap Held(win[s].cfg) = {}

\* A line moves on its own (plugins.c:383).
LineMoves == \A s \in Slots : Up(s) /\ ~win[s].refill /\ Lines(win[s]) => win[s].poll
===============================================================================
