------------------------------ MODULE RasterSets ------------------------------
(***************************************************************************)
(* The engine's pictures under the chart (src/src/ct/raster.zig): files    *)
(* that belong to sets, and the election of the sets that are drawn.  Two  *)
(* sets over one water are a choice; sets of other waters stand beside it. *)
(* A file covers one stretch of water, a set the span of its files that    *)
(* are on.                                                                 *)
(***************************************************************************)
EXTENDS Naturals, Sequences, SequencesExt

CONSTANTS
    Files,   \* bound: the files there are
    SetOf,   \* the set a file belongs to
    Water,   \* the stretch of water it covers, a number along the coast
    Waters,  \* the stretches a view may be over
    Bad,     \* the files no engine opens
    None

Names == {SetOf[f] : f \in Files}

\* One engine: the sets in the order they were made, their files, the files that
\* are on, the sets drawn, the water in view, and whether the chart is hidden
\* where a picture covers it.
NoEngine(view) ==
    [open |-> FALSE, order |-> <<>>, files |-> {}, on |-> {}, shown |-> {},
     view |-> view, enc |-> FALSE]
Fresh(view) == [NoEngine(view) EXCEPT !.open = TRUE]
Engine ==
    [open : BOOLEAN, order : {s \in SeqOf(Names, 2) : IsInjective(s)},
     files : SUBSET Files, on : SUBSET Files, shown : SUBSET Names,
     view : Waters, enc : BOOLEAN]

On(e, n) == {f \in e.on : SetOf[f] = n}

\* The spans of two sets meet.
Reaches(e, a, b) ==
    \E f, g \in On(e, a), h \in On(e, b) : Water[f] <= Water[h] /\ Water[h] <= Water[g]
Overlap(e, a, b) == Reaches(e, a, b) \/ Reaches(e, b, a)

InView(e, n) == \E f \in On(e, n) : Water[f] = e.view
Here(e) == SelectSeq(e.order, LAMBDA n : InView(e, n))

\* The set drawn over the water in view.
ShownHere(e) ==
    LET drawn == SelectSeq(Here(e), LAMBDA n : n \in e.shown)
    IN IF drawn = <<>> THEN None ELSE Head(drawn)

\* Show that hides no other set.
ShowBeside(e, n) == [e EXCEPT !.shown = {n} \cup @]

\* Drawing a set hides those it competes with.
Show(e, n) == [e EXCEPT !.shown = {n} \cup {m \in @ : ~Overlap(e, n, m)}]
Hide(e, n) == [e EXCEPT !.shown = @ \ {n}]

\* A file joins its set, and is on.  The set is drawn unless a drawn one competes.
AddFile(e, f) ==
    LET n == SetOf[f]
        d == [e EXCEPT !.order = IF Contains(@, n) THEN @ ELSE Append(@, n),
                       !.files = @ \cup {f}, !.on = @ \cup {f}]
    IN IF \E m \in d.shown \ {n} : Overlap(d, n, m) THEN d
       ELSE [d EXCEPT !.shown = @ \cup {n}]

\* A set with no file on cannot be drawn.  Switching one on draws nothing.
SetEnabled(e, f, on) ==
    IF f \notin e.files \/ (f \in e.on <=> on) THEN e
    ELSE LET d == [e EXCEPT !.on = IF on THEN @ \cup {f} ELSE @ \ {f}]
         IN IF On(d, SetOf[f]) = {} THEN Hide(d, SetOf[f]) ELSE d

\* A saved choice put back, wherever the view is.
SetShown(e, n, on) ==
    IF ~on THEN Hide(e, n) ELSE IF On(e, n) = {} THEN e ELSE Show(e, n)

\* Picked for the water in view; None hides what is drawn there.
Select(e, n) ==
    IF n # None THEN Show(e, n)
    ELSE IF ShownHere(e) = None THEN e ELSE Hide(e, ShownHere(e))

\* The next set of this water, then none, then round again.
Cycle(e) ==
    LET here == Here(e)
        cur == ShownHere(e)
        later == SelectSeq(here, LAMBDA n : cur = None \/ \E i, j \in DOMAIN here :
                                     i < j /\ here[i] = cur /\ here[j] = n)
    IN IF later # <<>> THEN Show(e, Head(later))
       ELSE IF cur # None THEN Hide(e, cur) ELSE e

-------------------------------------------------------------------------------
(* What both shells do when a chart opens: the installed files go in again, and *)
(* then what the mariner had drawn is put back, first hiding, then showing.     *)

Install(e, paths, off) ==
    FoldLeft(LAMBDA d, f : IF f \in Bad THEN d
                           ELSE IF f \in off THEN SetEnabled(AddFile(d, f), f, FALSE)
                           ELSE AddFile(d, f),
             e, paths)

Restore(e, hidden) ==
    LET hide == FoldLeft(LAMBDA d, n : IF n \in hidden THEN SetShown(d, n, FALSE) ELSE d,
                         e, e.order)
    IN FoldLeft(LAMBDA d, n : IF n \notin hidden THEN SetShown(d, n, TRUE) ELSE d,
                hide, hide.order)

-------------------------------------------------------------------------------
(* Properties.                                                              *)

\* No water is drawn twice.
OnePicture(e) ==
    \A a, b \in e.shown : a # b =>
        \A f \in On(e, a), g \in On(e, b) : Water[f] # Water[g]

\* The engine draws what the library has switched on: no file is on that is off.
DrawnAsListed(e, paths, off) ==
    \A i \in DOMAIN paths : paths[i] \in e.files => (paths[i] \in e.on <=> paths[i] \notin off)
===============================================================================
