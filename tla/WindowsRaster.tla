---------------------------- MODULE WindowsRaster ----------------------------
(***************************************************************************)
(* The Windows shell's pictures (library/ui/Raster.cpp, the raster rows of *)
(* settings/ui/ChartsPage.cpp).  The store has the files, the ones that    *)
(* are off and the sets that are hidden; the shell, the files that went    *)
(* into the engine, and its copy of the hidden sets.  The page is built    *)
(* again by some of what changes it.                                       *)
(***************************************************************************)
EXTENDS RasterSets

CONSTANTS
    Stale,   \* bound: a switch may be touched that the page drew before a change
    Unsaved  \* bound: a set may be picked in the Chart menu

VARIABLES
    eng,     \* the engine
    saved,   \* the store
    shell,   \* raster_paths and raster_hidden, and whether surveys are open
    page,    \* the raster rows as drawn: files, and the switches that stand on
    was      \* history: the sets drawn when the chart closed on surveys, and whether the
             \* store had them so; None if files were switched since

vars == <<eng, saved, shell, page, was>>

-------------------------------------------------------------------------------
(* The store: one load and one save for each edit.                          *)

\* Added: at the tail, and on.
Appended(s, f) ==
    [s EXCEPT !.paths = Append(SelectSeq(@, LAMBDA g : g # f), f), !.off = @ \ {f}]
Switched(s, fs, on) ==
    [s EXCEPT !.off = IF on THEN @ \ fs ELSE @ \cup (fs \cap ToSet(s.paths))]
Removed(s, fs) ==
    [s EXCEPT !.paths = SelectSeq(@, LAMBDA g : g \notin fs), !.off = @ \ fs]

-------------------------------------------------------------------------------
(* What is drawn of it.                                                     *)

\* The rows, and their switches: the files', and the sets' that have a file on.
Page(s, paths) ==
    [files |-> paths, lit |-> ToSet(paths) \ s.off,
     sets |-> {SetOf[f] : f \in ToSet(paths) \ s.off}]

\* Which sets are drawn is written down, of those the engine has.
Drawn(e) == (shell.hidden \ e.shown) \cup (ToSet(e.order) \ e.shown)
SaveRasterShown(e, sh, s) ==
    LET hidden == IF e.order = <<>> THEN sh.hidden ELSE Drawn(e)
    IN /\ shell' = [sh EXCEPT !.hidden = hidden]
       /\ saved' = IF hidden = sh.hidden THEN s ELSE [s EXCEPT !.hidden = hidden]

-------------------------------------------------------------------------------
(* The mariner.                                                             *)

\* With a chart open only.  A file that went in is not added twice; a new one is drawn
\* if its set is in view.
Add(f) ==
    /\ eng.open /\ ~Contains(shell.paths, f)
    /\ IF f \in Bad
       THEN UNCHANGED <<eng, shell, saved>>
       ELSE LET d == AddFile(eng, f)
                n == SetOf[f]
                sh == [shell EXCEPT !.paths = Append(@, f)]
            IN IF InView(d, n)
               THEN eng' = Select(d, n) /\ SaveRasterShown(eng', sh, Appended(saved, f))
               ELSE eng' = d /\ shell' = sh /\ saved' = Appended(saved, f)
    /\ page' = Page(saved', shell'.paths)
    /\ UNCHANGED was

\* A switch of the page: the store and the engine follow, and nothing is built again.
SwitchFiles(fs, on) ==
    /\ saved' = Switched(saved, fs, on)
    /\ eng' = FoldLeft(LAMBDA e, f : IF f \in fs THEN SetEnabled(e, f, on) ELSE e,
                       eng, page.files)
    /\ was' = IF eng.open THEN was ELSE None
    /\ UNCHANGED shell
Live == Page(saved, shell.paths) = page \/ Stale
ToggleFile(f) ==
    /\ Contains(page.files, f) /\ Live
    /\ SwitchFiles({f}, f \notin page.lit)
    /\ page' = [page EXCEPT !.lit = IF f \in @ THEN @ \ {f} ELSE @ \cup {f}]
RowFiles(n) == {f \in ToSet(page.files) : SetOf[f] = n}
ToggleGroup(n) ==
    /\ RowFiles(n) # {} /\ Live
    /\ SwitchFiles(RowFiles(n), n \notin page.sets)
    /\ page' = [page EXCEPT !.sets = IF n \in @ THEN @ \ {n} ELSE @ \cup {n}]

\* A file, or all of a set, leaves the library; a live engine drops nothing, so it is
\* switched off.  The name stays among the hidden.
RemoveFiles(fs) ==
    /\ fs # {}
    /\ saved' = Removed(saved, fs)
    /\ eng' = FoldLeft(LAMBDA e, f : IF f \in fs THEN SetEnabled(e, f, FALSE) ELSE e,
                       eng, page.files)
    /\ shell' = [shell EXCEPT !.paths = SelectSeq(@, LAMBDA g : g \notin fs)]
    /\ page' = Page(saved', shell'.paths)
    /\ UNCHANGED was

\* Everything is forgotten; the picture on screen stays until the next open, and the
\* shell's copy of the hidden sets stays with it.
ForgetRasterCharts ==
    /\ shell.paths # <<>>
    /\ saved' = [saved EXCEPT !.paths = <<>>, !.off = {}, !.hidden = {}]
    /\ shell' = [shell EXCEPT !.paths = <<>>]
    /\ UNCHANGED <<eng, page, was>>

\* The pill's menu: built as it opens.  The pick is saved.
Picks == ToSet(Here(eng)) \cup {None}
PickFromPill(n) ==
    /\ eng.open /\ n \in Picks
    /\ eng' = Select(eng, n) /\ SaveRasterShown(eng', shell, saved)
    /\ UNCHANGED <<page, was>>

\* The Chart menu's list: the same picks, and nothing is saved.
PickFromMenu(n) ==
    /\ eng.open /\ n \in Picks /\ Unsaved
    /\ eng' = Select(eng, n)
    /\ UNCHANGED <<saved, shell, page, was>>

CycleRaster ==
    /\ eng.open /\ shell.paths # <<>>
    /\ eng' = Cycle(eng) /\ SaveRasterShown(eng', shell, saved)
    /\ UNCHANGED <<page, was>>

ToggleChart ==
    /\ eng.open
    /\ eng' = [eng EXCEPT !.enc = ~@] /\ saved' = [saved EXCEPT !.enc = eng'.enc]
    /\ UNCHANGED <<shell, page, was>>

Sail(view) ==
    /\ eng.open /\ view # eng.view
    /\ eng' = [eng EXCEPT !.view = view]
    /\ UNCHANGED <<saved, shell, page, was>>

-------------------------------------------------------------------------------
(* The shell.                                                               *)

\* The page is built: Settings is opened on it, or something else builds it again.
BuildPage ==
    /\ page' = Page(saved, shell.paths)
    /\ UNCHANGED <<eng, saved, shell, was>>

\* With no survey open the pictures are the chart: the set of this water is drawn,
\* hidden or not.
Blank(e) == ToSet(Here(e)) \cap e.shown = {}
Unveiled(e) == IF Here(e) # <<>> /\ Blank(e) THEN SetShown(e, Head(Here(e)), TRUE) ELSE e

InstallStoredRasters == Install(Fresh(eng.view), saved.paths, saved.off)
RestoreRasterShown(e, surveys) ==
    LET d == Restore(e, saved.hidden)
    IN [IF surveys THEN d ELSE Unveiled(d) EXCEPT !.enc = saved.enc]

OpenChart(surveys) ==
    /\ ~eng.open
    /\ eng' = RestoreRasterShown(InstallStoredRasters, surveys)
    /\ shell' = [paths |-> SelectSeq(saved.paths, LAMBDA f : f \notin Bad),
                 hidden |-> saved.hidden, surveys |-> surveys]
    /\ UNCHANGED <<saved, page, was>>
CloseChart ==
    /\ eng.open
    /\ eng' = NoEngine(eng.view)
    /\ was' = IF shell.surveys THEN [sets |-> eng.shown, saved |-> Drawn(eng) = saved.hidden]
              ELSE None
    /\ UNCHANGED <<saved, shell, page>>

-------------------------------------------------------------------------------
Init ==
    /\ \E view \in Waters : eng = NoEngine(view)
    /\ saved = [paths |-> <<>>, off |-> {}, hidden |-> {}, enc |-> FALSE]
    /\ shell = [paths |-> <<>>, hidden |-> {}, surveys |-> FALSE]
    /\ page = [files |-> <<>>, lit |-> {}, sets |-> {}]
    /\ was = None

Next ==
    \/ \E f \in Files : Add(f) \/ ToggleFile(f)
    \/ \E f \in ToSet(page.files) : RemoveFiles({f})
    \/ \E n \in Names : ToggleGroup(n) \/ RemoveFiles(RowFiles(n))
    \/ \E n \in Names \cup {None} : PickFromPill(n) \/ PickFromMenu(n)
    \/ \E view \in Waters : Sail(view)
    \/ ForgetRasterCharts \/ CycleRaster \/ ToggleChart
    \/ BuildPage \/ CloseChart
    \/ \E surveys \in BOOLEAN : OpenChart(surveys)

Spec == Init /\ [][Next]_vars

-------------------------------------------------------------------------------
(* Properties.                                                              *)

TypeOK ==
    /\ eng \in Engine
    /\ ToSet(saved.paths) \subseteq Files /\ IsInjective(saved.paths)
    /\ saved.off \subseteq Files /\ saved.hidden \subseteq Names /\ saved.enc \in BOOLEAN
    /\ ToSet(shell.paths) \subseteq Files /\ shell.hidden \subseteq Names
    /\ ToSet(page.files) \subseteq Files /\ page.lit \subseteq Files /\ page.sets \subseteq Names
    /\ was \in [sets : SUBSET Names, saved : BOOLEAN] \cup {None}

\* A file that is in the library is on in the engine as the library has it, what went
\* into the engine is in the library, and what was hidden of the chart is saved.
LibraryIsInForce ==
    /\ ToSet(shell.paths) \subseteq ToSet(saved.paths)
    /\ eng.open => /\ DrawnAsListed(eng, saved.paths, saved.off)
                   /\ eng.enc = saved.enc

\* An open on the surveys draws the sets that were drawn when the chart closed, but
\* those forgotten since (Raster.cpp:365); of the shell, as far as they were saved.
PicksArePutBack ==
    ~eng.open /\ eng'.open /\ shell'.surveys /\ was # None =>
        eng'.shown \cap was.sets = {n \in was.sets : On(eng', n) # {}}
SavedPicksArePutBack == was # None => (was.saved => PicksArePutBack)

\* A file's switch, and a set's, stand as the library has them.
SwitchesAreTrue ==
    \A f \in ToSet(page.files) \cap ToSet(saved.paths) :
        /\ f \in page.lit <=> f \notin saved.off
        /\ SetOf[f] \in page.sets <=> \E g \in RowFiles(SetOf[f]) : g \notin saved.off
===============================================================================
