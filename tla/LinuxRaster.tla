----------------------------- MODULE LinuxRaster -----------------------------
(***************************************************************************)
(* The Linux shell's pictures (src/linux/src/model/raster.c, app-model.c): *)
(* the library it keeps and saves as one, its reading of the engine's      *)
(* election, the pill that reading is shown in, and the list of Settings,  *)
(* Charts, which is filled again on an idle behind a change.               *)
(***************************************************************************)
EXTENDS RasterSets

CONSTANTS
    Again,  \* bound: a file may be added that the library has, or whose set the open
            \* chart has and the library has forgotten
    Hasty   \* bound: a row, the pill or a picker may be used before it is drawn again

VARIABLES
    pic,   \* the engine, the library (also what is saved), and the reading
    list,  \* the rows as drawn, the switches that stand on, and the idle
    due,   \* a frame will come, and read the engine
    was    \* history: the sets drawn when the chart closed, None if files came or were switched since

vars == <<pic, list, due, was>>

-------------------------------------------------------------------------------
(* The library.                                                             *)

NoLibrary == [paths |-> <<>>, off |-> {}, hidden |-> {}, enc |-> FALSE]

Carries(lib, n) == \E f \in ToSet(lib.paths) : SetOf[f] = n

\* A file leaves the library, with its switch; the last of its set, with the name.
Forgotten(lib, f) ==
    LET l == [lib EXCEPT !.paths = SelectSeq(@, LAMBDA g : g # f), !.off = @ \ {f}]
    IN [l EXCEPT !.hidden = IF Carries(l, SetOf[f]) THEN @ ELSE @ \ {SetOf[f]}]

Switched(lib, f, on) == [lib EXCEPT !.off = IF on THEN @ \ {f} ELSE @ \cup {f}]

\* Which sets are drawn is written down, of those the engine has.
Noted(lib, e) ==
    [lib EXCEPT !.hidden = (@ \ e.shown) \cup (ToSet(e.order) \ e.shown)]

-------------------------------------------------------------------------------
(* The reading of the engine.                                               *)

Read(e) ==
    [sets |-> [i \in DOMAIN e.order |-> [name |-> e.order[i], here |-> InView(e, e.order[i]),
                                         shown |-> e.order[i] \in e.shown]],
     active |-> ShownHere(e), enc |-> e.enc]

\* The engine is read, and a reading that moved is noted.
Sync(p) ==
    IF Read(p.eng) = p.seen THEN p
    ELSE [p EXCEPT !.seen = Read(p.eng),
                   !.lib = IF p.eng.order = <<>> THEN @ ELSE Noted(@, p.eng)]

\* The pill names the set drawn over the view, else the first that is there.
Offered(seen) == SelectSeq(seen.sets, LAMBDA s : s.here)
Pill(seen) ==
    LET here == Offered(seen)
        drawn == SelectSeq(here, LAMBDA s : s.name = seen.active)
    IN IF here = <<>> THEN None
       ELSE [name |-> IF drawn # <<>> THEN Head(drawn).name ELSE Head(here).name,
             drawn |-> drawn # <<>>]

-------------------------------------------------------------------------------
(* What the model does.                                                     *)

\* A chart opens: the files that are installed, the sets as they were drawn, and the
\* chart hidden if it was.  Nothing is read until a frame.
Reinstalled(p) ==
    LET e == Install(Fresh(p.eng.view), p.lib.paths, p.lib.off)
        d == IF p.lib.paths = <<>> THEN e ELSE Restore(e, p.lib.hidden)
    IN [p EXCEPT !.eng = [d EXCEPT !.enc = p.lib.enc]]

\* A file is added: with no chart open it is taken on trust.  A new one is drawn if
\* it is in view.
Added(p, f) ==
    LET new == ~Contains(p.lib.paths, f)
        q == [p EXCEPT !.eng = IF @.open THEN AddFile(@, f) ELSE @,
                       !.lib.paths = IF new THEN Append(@, f) ELSE @]
        s == Sync(q)
        drawn == \E i \in DOMAIN s.seen.sets :
                     s.seen.sets[i].here /\ s.seen.sets[i].name = SetOf[f]
    IN IF p.eng.open /\ f \in Bad THEN Sync(p)
       ELSE IF new /\ drawn THEN Sync([s EXCEPT !.eng = Select(@, SetOf[f])])
       ELSE s

\* A live engine drops nothing: a file that is removed is switched off in it.
Removed(p, f) ==
    Sync([p EXCEPT !.lib = Forgotten(@, f), !.eng = SetEnabled(@, f, FALSE)])
Enabled(p, f, on) ==
    Sync([p EXCEPT !.lib = Switched(@, f, on), !.eng = SetEnabled(@, f, on)])

\* Every change tells the panes, and the list is filled again on an idle.
Settle(p) == pic' = p /\ list' = [list EXCEPT !.refill = TRUE] /\ UNCHANGED <<due, was>>

-------------------------------------------------------------------------------
(* The mariner.                                                             *)

Add(f) ==
    /\ ~Contains(pic.lib.paths, f) \/ Again
    /\ Contains(pic.eng.order, SetOf[f]) /\ ~Carries(pic.lib, SetOf[f]) => Again
    /\ due => Hasty
    /\ pic' = Added(pic, f) /\ list' = [list EXCEPT !.refill = TRUE]
    /\ was' = IF pic.eng.open THEN was ELSE None
    /\ UNCHANGED due

\* The row of a set switches every file it was drawn with.
RowFiles(n) == SelectSeq(list.rows, LAMBDA f : SetOf[f] = n)
Touched(n) == RowFiles(n) # <<>> /\ (list.refill => Hasty)
ToggleGroup(n) ==
    /\ Touched(n)
    /\ LET on == n \notin list.lit
       IN /\ pic' = FoldLeft(LAMBDA p, f : Enabled(p, f, on), pic, RowFiles(n))
          /\ list' = [list EXCEPT !.lit = IF on THEN @ \cup {n} ELSE @ \ {n}, !.refill = TRUE]
    /\ was' = IF pic.eng.open THEN was ELSE None
    /\ UNCHANGED due
RemoveGroup(n) ==
    /\ Touched(n)
    /\ Settle(FoldLeft(Removed, pic, RowFiles(n)))

\* Everything is forgotten; the pictures on screen stay until the next open.
Forget ==
    /\ pic.lib.paths # <<>>
    /\ Settle(Sync([pic EXCEPT !.lib = [NoLibrary EXCEPT !.enc = pic.lib.enc]]))

Pick(n) ==
    /\ n = None \/ \E i \in DOMAIN Offered(pic.seen) : Offered(pic.seen)[i].name = n
    /\ pic.eng.open /\ (n # None => Contains(pic.eng.order, n)) /\ (due => Hasty)
    /\ Settle(Sync([pic EXCEPT !.eng = Select(@, n)]))

\* With nothing installed the key asks for files instead.
CycleRaster ==
    /\ pic.lib.paths # <<>> /\ pic.eng.open
    /\ Settle(Sync([pic EXCEPT !.eng = Cycle(@)]))

ToggleChart ==
    /\ pic.eng.open
    /\ LET p == Sync([pic EXCEPT !.eng.enc = ~@])
       IN Settle([p EXCEPT !.lib.enc = p.eng.enc])

\* The water in view moves, and a frame will follow.
Sail(view) ==
    /\ pic.eng.open /\ view # pic.eng.view
    /\ pic' = [pic EXCEPT !.eng.view = view] /\ due' = TRUE
    /\ UNCHANGED <<list, was>>

-------------------------------------------------------------------------------
(* The shell.                                                               *)

Frame ==
    /\ due /\ due' = FALSE
    /\ pic' = Sync(pic)
    /\ list' = IF pic'.seen # pic.seen THEN [list EXCEPT !.refill = TRUE] ELSE list
    /\ UNCHANGED was

\* The rows: the library by sets, a set's switch on if one of its files is.
Refill ==
    /\ list.refill
    /\ list' = [rows |-> pic.lib.paths, refill |-> FALSE,
                lit |-> {SetOf[f] : f \in ToSet(pic.lib.paths) \ pic.lib.off}]
    /\ UNCHANGED <<pic, due, was>>

\* An open ends the chart before it; one that fails leaves none.
OpenChart ==
    /\ ~pic.eng.open /\ pic' = Reinstalled(pic) /\ due' = TRUE
    /\ UNCHANGED <<list, was>>
CloseChart ==
    /\ pic.eng.open
    /\ pic' = [pic EXCEPT !.eng = NoEngine(@.view)] /\ due' = FALSE
    /\ was' = pic.eng.shown
    /\ UNCHANGED list

-------------------------------------------------------------------------------
Init ==
    /\ \E view \in Waters :
           pic = [eng |-> NoEngine(view), lib |-> NoLibrary, seen |-> Read(NoEngine(view))]
    /\ list = [rows |-> <<>>, lit |-> {}, refill |-> FALSE]
    /\ due = FALSE /\ was = None

Next ==
    \/ \E f \in Files : Add(f)
    \/ \E n \in Names : ToggleGroup(n) \/ RemoveGroup(n)
    \/ \E n \in Names \cup {None} : Pick(n)
    \/ \E view \in Waters : Sail(view)
    \/ Forget \/ CycleRaster \/ ToggleChart
    \/ Frame \/ Refill \/ OpenChart \/ CloseChart

Spec == Init /\ [][Next]_vars

-------------------------------------------------------------------------------
(* Properties.                                                              *)

TypeOK ==
    /\ pic.eng \in Engine
    /\ ToSet(pic.lib.paths) \subseteq Files /\ IsInjective(pic.lib.paths)
    /\ pic.lib.off \subseteq Files /\ pic.lib.hidden \subseteq Names /\ pic.lib.enc \in BOOLEAN
    /\ ToSet(list.rows) \subseteq Files /\ list.lit \subseteq Names /\ list.refill \in BOOLEAN
    /\ due \in BOOLEAN /\ was \in (SUBSET Names) \cup {None}

\* What the shell reads of the engine is what the engine says, or a frame will come;
\* the pill says OFF only where nothing is drawn; the rows follow the library.
ReadingIsTrue ==
    /\ pic.eng.open /\ ~due => pic.seen = Read(pic.eng)
    /\ pic.eng.open /\ ~due => LET pill == Pill(pic.seen)
                               IN pill # None => pill.drawn = (ShownHere(pic.eng) # None)
    /\ ~list.refill => list.rows = pic.lib.paths

\* A file that is in the library is on in the engine as the library has it, and what
\* was hidden of the chart is saved.
LibraryIsInForce ==
    pic.eng.open => /\ DrawnAsListed(pic.eng, pic.lib.paths, pic.lib.off)
                    /\ pic.eng.enc = pic.lib.enc

\* What is drawn is what is saved, of the sets that have a file in the library.
PicksAreSaved ==
    pic.eng.open /\ ~due => \A n \in ToSet(pic.eng.order) :
        Carries(pic.lib, n) => (n \in pic.eng.shown <=> n \notin pic.lib.hidden)

\* An open draws the sets that were drawn when the chart closed, but those forgotten
\* since.
PicksArePutBack ==
    ~pic.eng.open /\ pic'.eng.open /\ was # None =>
        pic'.eng.shown \cap was = {n \in was : On(pic'.eng, n) # {}}

\* Nothing is left of a set that was forgotten (raster.c:189-193).
ForgottenIsForgotten == \A n \in pic.lib.hidden : Carries(pic.lib, n)
===============================================================================
