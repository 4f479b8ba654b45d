--------------------------- MODULE ChartImportProof ---------------------------
(***************************************************************************)
(* For any library, and any bounds: the list's invariant (ListIsInForce),  *)
(* that a bake's result is on the screen when the bake is done             *)
(* (BakeIsDrawn), and the types.                                           *)
(*                                                                         *)
(* The list is used by handlers that have already changed it: a note, a    *)
(* rescan or a removal is followed, in the same handler, by an open on the *)
(* new list.  So the lemmas about OpenPrepared, StartImport and Recompose  *)
(* take any list l that is well formed and that the chart is drawn from    *)
(* (ListOK, DrawnFrom), and the actions supply it.  WidgetAgrees is what   *)
(* makes Reopen's two ways out agree: a chart is open only over a widget   *)
(* that is realized, and a widget that is realized has its view attached.  *)
(***************************************************************************)
EXTENDS ChartImport, TLAPS

\* The values of the list.
Lists == [listed : SUBSET Sets, on : SUBSET Sets, scanned : SUBSET Sets, todo : SUBSET Sets,
          draw : SUBSET Sets]

\* The values of the flags of the opening at launch.
Autos == [did : BOOLEAN, idle : BOOLEAN, opening : BOOLEAN]

\* A list whose sets are all on it.
ListOK(l) ==
    /\ l \in Lists
    /\ l.on \subseteq l.listed /\ l.scanned \subseteq l.listed
    /\ l.todo \subseteq l.listed /\ l.draw \subseteq l.listed

\* The flags of the opening at launch, which is queued over a realized widget alone.
AutoOK(a) == a \in Autos /\ (a.idle => realized)

\* The chart draws nothing that is off in the list l.
DrawnFrom(l) == chart \in (SUBSET Sets) \cup {Closed} /\ (chart # Closed => chart \subseteq l.on)

\* A chart is open over a realized widget, and that one has a view.
WidgetAgrees ==
    /\ realized => attached
    /\ chart # Closed => realized

\* The inductive invariant.
IInv ==
    /\ TypeOK /\ ListOK(lib) /\ AutoOK(auto)
    /\ ListIsInForce /\ WidgetAgrees

-------------------------------------------------------------------------------
\* lk_chart_sets_note puts the set on the list, unread if it is new.
LEMMA Noting ==
    ASSUME NEW l, ListOK(l), NEW d \in Sets
    PROVE  /\ ListOK(Note(l, d))
           /\ Note(l, d).listed = l.listed \cup {d} /\ Note(l, d).on = l.on \cup {d}
           /\ Note(l, d).scanned = l.scanned
BY DEF ListOK, Lists, Note

\* lk_chart_sets_rescan takes the set out of those that were read.
LEMMA Unreading ==
    ASSUME NEW l, ListOK(l), NEW d \in Sets
    PROVE  /\ ListOK(Unread(l, d))
           /\ Unread(l, d).listed = l.listed /\ Unread(l, d).on = l.on
           /\ Unread(l, d).scanned = l.scanned \ {d}
BY DEF ListOK, Lists, Unread

\* lk_chart_sets_remove leaves nothing of the set behind.
LEMMA Dropping ==
    ASSUME NEW l, ListOK(l), NEW d \in Sets
    PROVE  /\ ListOK(Dropped(l, d))
           /\ Dropped(l, d).listed = l.listed \ {d} /\ Dropped(l, d).scanned = l.scanned \ {d}
BY DEF ListOK, Lists, Dropped

\* What is composed is switched on.
LEMMA Composed ==
    ASSUME NEW l, ListOK(l)
    PROVE  Compose(l) \subseteq l.on /\ Compose(l) \subseteq Sets
BY DEF ListOK, Lists, Compose

\* lk_chart_view_maybe_auto_open queues an opening over a realized widget alone.
LEMMA LookingAgain ==
    ASSUME NEW a \in Autos, NEW r \in BOOLEAN, NEW l, NEW c, a.idle => r
    PROVE  /\ MaybeAutoOpen(a, l, c, r) \in Autos
           /\ MaybeAutoOpen(a, l, c, r).idle => r
BY DEF Autos, MaybeAutoOpen

\* A chart that is closed, or drawn from sets, is a chart.
LEMMA Charted ==
    ASSUME NEW c, NEW S \in SUBSET Sets, c = Closed \/ c = S
    PROVE  c \in (SUBSET Sets) \cup {Closed}
<1>1. CASE c = Closed
    BY <1>1, Zenon
<1>2. CASE c = S
    BY <1>2, Zenon
<1> QED
    BY <1>1, <1>2

\* A reopen leaves the sets it was given or no chart, and on a realized widget the sets.
LEMMA Reopening ==
    ASSUME NEW S \in SUBSET Sets, Reopen(S), IInv
    PROVE  /\ attached => chart' \in {S, Closed}
           /\ ~attached => chart' = Closed
           /\ realized => chart' = S
           /\ chart' # Closed => realized
           /\ wanted' \in BOOLEAN /\ error' \in BOOLEAN
<1>1. CASE attached
    BY <1>1 DEF Reopen, IInv, TypeOK
<1>2. CASE ~attached
    BY <1>2 DEF Reopen, IInv, TypeOK, WidgetAgrees
<1> QED
    BY <1>1, <1>2

\* An open behind a bake or a pick: what was prepared is on the screen.
LEMMA OpeningPrepared ==
    ASSUME IInv, NEW d \in Sets, NEW p \in BOOLEAN, NEW l, ListOK(l), DrawnFrom(l), NEW a,
           AutoOK(a), NEW w, OpenPrepared(d, p, l, a, w)
    PROVE  /\ lib' = Note(l, d) /\ ListOK(lib')
           /\ auto' \in Autos /\ (auto'.idle => realized)
           /\ chart' \in (SUBSET Sets) \cup {Closed} /\ (chart' # Closed => chart' \subseteq lib'.on)
           /\ chart' # Closed => realized
           /\ realized /\ Drawable(d, w) => chart' # Closed /\ d \in chart'
           /\ wanted' \in BOOLEAN /\ error' \in BOOLEAN
<1> DEFINE l1 == Note(l, d)
           all == Compose(l1) \cup (IF Drawable(d, w) THEN {d} ELSE {})
<1>1. lib' = l1 /\ ListOK(l1) /\ l1.on = l.on \cup {d}
    BY Noting DEF OpenPrepared
<1>2. all \subseteq l1.on /\ all \in SUBSET Sets
    BY <1>1, Composed
<1>3. auto' \in Autos /\ (auto'.idle => realized)
    BY LookingAgain DEF OpenPrepared, AutoOK, IInv, TypeOK
<1>4. CASE all = {}
    <2>1. UNCHANGED <<chart, wanted>> /\ error' \in BOOLEAN
        BY <1>4 DEF OpenPrepared, IInv, TypeOK
    <2> QED
        BY <1>1, <1>3, <1>4, <2>1 DEF DrawnFrom, IInv, TypeOK, WidgetAgrees
<1>5. CASE all # {}
    <2>1. Reopen(all)
        BY <1>5 DEF OpenPrepared
    <2>2. /\ attached => chart' \in {all, Closed}
          /\ ~attached => chart' = Closed
          /\ realized => chart' = all
          /\ chart' # Closed => realized
          /\ wanted' \in BOOLEAN /\ error' \in BOOLEAN
        BY <1>2, <2>1, Reopening
    <2>3. all # Closed
        BY <1>2, NothingIsNone
    <2> HIDE DEF all
    <2>4. Drawable(d, w) => d \in all
        BY DEF all
    <2>5. chart' = all \/ chart' = Closed
        BY <2>2
    <2>6. all \in SUBSET Sets /\ all \subseteq lib'.on
        BY <1>1, <1>2
    <2>8. chart' \in (SUBSET Sets) \cup {Closed}
        BY <2>5, <2>6, Charted
    <2>9. chart' # Closed => chart' \subseteq lib'.on
        BY <2>5, <2>6
    <2>7. realized /\ Drawable(d, w) => chart' # Closed /\ d \in chart'
        BY <2>2, <2>3, <2>4
    <2> QED
        BY <1>1, <1>3, <2>2, <2>7, <2>8, <2>9
<1> QED
    BY <1>4, <1>5

\* An import begins, waits, or opens what there is; a bake that runs is left alone.
LEMMA StartingImport ==
    ASSUME IInv, NEW i \in Imports \cup {None}, NEW l, ListOK(l), DrawnFrom(l), NEW a,
           AutoOK(a), StartImport(i, l, a)
    PROVE  /\ import' \in Imports \cup {None}
           /\ bake' \in Bakes \cup {None} /\ (bake # None => bake' = bake)
           /\ ListOK(lib') /\ lib'.listed = l.listed /\ lib'.scanned = l.scanned
           /\ auto' \in Autos /\ (auto'.idle => realized)
           /\ chart' \in (SUBSET Sets) \cup {Closed} /\ (chart' # Closed => chart' \subseteq lib'.on)
           /\ chart' # Closed => realized
           /\ wanted' \in BOOLEAN /\ error' \in BOOLEAN
<1>1. CASE import' = i /\ lib' = l /\ auto' = a /\ UNCHANGED <<bake, chart, error, wanted>>
    BY <1>1 DEF IInv, TypeOK, AutoOK, DrawnFrom, WidgetAgrees
<1>2. CASE /\ bake = None /\ i # None /\ i.dir \notin Rows(l)
           /\ import' = None /\ lib' = l /\ auto' = a /\ UNCHANGED <<bake, chart, error, wanted>>
    BY <1>2 DEF IInv, TypeOK, AutoOK, DrawnFrom, WidgetAgrees
<1>3. CASE /\ bake = None /\ i # None /\ import' = None
           /\ bake' = [of |-> i.dir, at |-> "running"] /\ error' = FALSE
           /\ lib' = l /\ auto' = a /\ UNCHANGED <<chart, wanted>>
    <2>1. i.dir \in Sets
        BY <1>3 DEF Imports
    <2>2. bake' \in Bakes
        BY <1>3, <2>1 DEF Bakes
    <2> QED
        BY <1>3, <2>2 DEF IInv, TypeOK, AutoOK, DrawnFrom, WidgetAgrees
<1>4. CASE /\ bake = None /\ i # None /\ import' = None /\ i.dir \in Rows(l)
           /\ OpenPrepared(i.dir, i.pictures, l, a, work) /\ UNCHANGED bake
    <2>1. i.dir \in Sets /\ i.pictures \in BOOLEAN /\ i.dir \in l.listed
        BY <1>4 DEF Imports, Rows
    <2>2. /\ lib' = Note(l, i.dir) /\ ListOK(lib')
          /\ auto' \in Autos /\ (auto'.idle => realized)
          /\ chart' \in (SUBSET Sets) \cup {Closed} /\ (chart' # Closed => chart' \subseteq lib'.on)
          /\ chart' # Closed => realized
          /\ wanted' \in BOOLEAN /\ error' \in BOOLEAN
        BY <1>4, <2>1, OpeningPrepared
    <2>3. lib'.listed = l.listed /\ lib'.scanned = l.scanned
        <3>1. Note(l, i.dir).listed = l.listed \cup {i.dir} /\ Note(l, i.dir).scanned = l.scanned
            BY <2>1, Noting
        <3> QED
            BY <2>1, <2>2, <3>1
    <2> QED
        BY <1>4, <2>2, <2>3
<1> QED
    BY <1>1, <1>2, <1>3, <1>4 DEF StartImport

\* A recompose draws nothing that is off.
LEMMA Recomposing ==
    ASSUME IInv, NEW l, ListOK(l), Recompose(l)
    PROVE  /\ lib' = l
           /\ auto' \in Autos /\ (auto'.idle => realized)
           /\ chart' \in (SUBSET Sets) \cup {Closed} /\ (chart' # Closed => chart' \subseteq l.on)
           /\ chart' # Closed => realized
           /\ wanted' \in BOOLEAN /\ error' \in BOOLEAN
<1>1. Compose(l) \in SUBSET Sets /\ Compose(l) \subseteq l.on
    BY Composed
<1>2. /\ attached => chart' \in {Compose(l), Closed}
      /\ ~attached => chart' = Closed
      /\ chart' # Closed => realized
      /\ wanted' \in BOOLEAN /\ error' \in BOOLEAN
    BY <1>1, Reopening DEF Recompose
<1>3. auto' \in Autos /\ (auto'.idle => realized)
    BY LookingAgain DEF Recompose, IInv, AutoOK, TypeOK
<1>4. chart' = Compose(l) \/ chart' = Closed
    BY <1>2
<1>5. chart' \in (SUBSET Sets) \cup {Closed}
    BY <1>1, <1>4, Charted
<1>6. chart' # Closed => chart' \subseteq l.on
    BY <1>1, <1>4
<1> QED
    BY <1>2, <1>3, <1>5, <1>6 DEF Recompose

-------------------------------------------------------------------------------
\* The shell starts with the inductive invariant.
THEOREM InitIInv == Init => IInv
<1> SUFFICES ASSUME Init PROVE IInv
    OBVIOUS
<1>1. PICK listed \in SUBSET Kept : \E on \in SUBSET listed :
          /\ lib = [listed |-> listed, on |-> on, scanned |-> {}, todo |-> {}, draw |-> {}]
          /\ watch = (listed # {})
    BY DEF Init
<1>2. PICK on \in SUBSET listed :
          /\ lib = [listed |-> listed, on |-> on, scanned |-> {}, todo |-> {}, draw |-> {}]
          /\ watch = (listed # {})
    BY <1>1
<1>3. ListOK(lib) /\ lib.listed = listed /\ lib.scanned = {}
    BY <1>2, ImportBounds DEF ListOK, Lists
<1>4. AutoOK(auto)
    BY DEF Init, AutoOK, Autos
<1>5. TypeOK
    <2>1. work \in [Sets -> {"none", "part", "all", "refused"}]
        BY DEF Init
    <2>2. watch \in BOOLEAN
        BY <1>2
    <2>3. /\ {flag, realized, attached, wanted, error} \subseteq BOOLEAN
          /\ {auto.did, auto.idle, auto.opening} \subseteq BOOLEAN
        BY DEF Init
    <2>4. /\ polling = "no" /\ told \subseteq Sets /\ chart = Closed
          /\ scan = None /\ import = None /\ bake = None
        BY DEF Init
    <2>5. /\ chart \in (SUBSET Sets) \cup {Closed} /\ scan \in Sets \cup {None}
          /\ import \in Imports \cup {None} /\ bake \in Bakes \cup {None}
        BY <2>4, Zenon
    <2> QED
        BY <1>3, <2>1, <2>2, <2>3, <2>4, <2>5 DEF TypeOK, ListOK
<1>6. ListIsInForce
    BY <1>2, <1>3 DEF Init, ListIsInForce, NothingDrawnThatIsOff, ScanIsTold, Scanning
<1>7. WidgetAgrees
    BY DEF Init, WidgetAgrees
<1> QED
    BY <1>3, <1>4, <1>5, <1>6, <1>7 DEF IInv

\* What is left to say of a step that has been given a list, a chart and an auto.
LEMMA Rest ==
    ASSUME ListOK(lib'), auto' \in Autos, auto'.idle => realized', TypeOK',
           chart' # Closed => chart' \subseteq lib'.on, chart' # Closed => realized',
           realized' => attached', ScanIsTold'
    PROVE  IInv'
BY DEF IInv, AutoOK, ListIsInForce, NothingDrawnThatIsOff, WidgetAgrees, ListOK, Lists

\* The core has read a set: the poll runs, for a set was still to be read.
LEMMA CoreScanKeeps == ASSUME IInv, NEW d \in Sets, CoreScan(d) PROVE IInv'
<1>1. /\ ListOK(lib') /\ lib'.listed = lib.listed /\ lib'.on = lib.on
      /\ lib'.scanned = lib.scanned \cup {d}
    BY DEF CoreScan, IInv, ListOK, Lists
<1>2. watch
    BY DEF CoreScan, IInv, ListIsInForce, ScanIsTold, Scanning
<1>3. TypeOK'
    BY <1>1 DEF CoreScan, poller, widget, jobs, bounds, IInv, TypeOK, ListOK
<1>4. ScanIsTold'
    BY <1>1, <1>2 DEF CoreScan, poller, ScanIsTold
<1> QED
    BY <1>1, <1>3, <1>4, Rest DEF CoreScan, widget, IInv, AutoOK, ListIsInForce,
        NothingDrawnThatIsOff, WidgetAgrees

\* The poll reads the flag.
LEMMA PollFlagKeeps == ASSUME IInv, PollFlag PROVE IInv'
<1>1. TypeOK'
    BY DEF PollFlag, widget, jobs, bounds, IInv, TypeOK
<1> QED
    BY <1>1 DEF PollFlag, widget, jobs, IInv, AutoOK, ListOK, ListIsInForce,
        NothingDrawnThatIsOff, ScanIsTold, WidgetAgrees

\* The poll counts what is left, and reports when that is nothing.
LEMMA PollCountKeeps == ASSUME IInv, PollCount PROVE IInv'
<1> DEFINE a == MaybeAutoOpen(auto, lib, chart, realized)
<1>1. AutoOK(a)
    BY LookingAgain DEF IInv, AutoOK, TypeOK
<1>2. DrawnFrom(lib)
    BY DEF IInv, DrawnFrom, TypeOK, ListIsInForce, NothingDrawnThatIsOff
<1>3. CASE polling = "up" \/ ~Scanning(lib)
    <2>1. /\ told' = lib.scanned /\ UNCHANGED realized /\ UNCHANGED scan
          /\ StartImport(import, lib, a)
        BY <1>3 DEF PollCount, SetsChanged
    <2>2. /\ import' \in Imports \cup {None}
          /\ bake' \in Bakes \cup {None} /\ (bake # None => bake' = bake)
          /\ ListOK(lib') /\ lib'.listed = lib.listed /\ lib'.scanned = lib.scanned
          /\ auto' \in Autos /\ (auto'.idle => realized)
          /\ chart' \in (SUBSET Sets) \cup {Closed} /\ (chart' # Closed => chart' \subseteq lib'.on)
          /\ chart' # Closed => realized
          /\ wanted' \in BOOLEAN /\ error' \in BOOLEAN
        BY <1>1, <1>2, <2>1, StartingImport DEF IInv, TypeOK
    <2>3. watch' = Scanning(lib) /\ watch' \in BOOLEAN /\ polling' = "no"
        BY DEF PollCount, Scanning
    <2>4. told' \in SUBSET Sets
        BY <2>1 DEF IInv, ListOK, Lists
    <2>5. TypeOK'
        BY <2>1, <2>2, <2>3, <2>4 DEF PollCount, IInv, TypeOK, ListOK, Autos
    <2>6. ScanIsTold'
        BY <2>1, <2>2, <2>3 DEF ScanIsTold, Scanning
    <2> QED
        BY <2>1, <2>2, <2>5, <2>6, Rest DEF PollCount, IInv, WidgetAgrees
<1>4. CASE ~(polling = "up" \/ ~Scanning(lib))
    <2>1. watch' = TRUE /\ polling' = "no"
          /\ UNCHANGED <<told, realized, wanted, lib, auto, chart, scan, import, bake, error>>
        BY <1>4 DEF PollCount, jobs
    <2>2. TypeOK'
        BY <2>1 DEF PollCount, IInv, TypeOK
    <2> QED
        BY <2>1, <2>2 DEF PollCount, IInv, AutoOK, ListOK, ListIsInForce,
            NothingDrawnThatIsOff, ScanIsTold, Scanning, WidgetAgrees
<1> QED
    BY <1>3, <1>4

\* The widget is realized.
LEMMA RealizeKeeps == ASSUME IInv, Realize PROVE IInv'
<1>1. auto' \in Autos
    BY LookingAgain DEF Realize, IInv, AutoOK
<1>2. chart' \in (SUBSET Sets) \cup {Closed} /\ (chart' # Closed => chart' \subseteq lib.on)
    BY DEF Realize, IInv, TypeOK, ListIsInForce, NothingDrawnThatIsOff
<1>3. TypeOK'
    <2>1. {auto'.did, auto'.idle, auto'.opening} \subseteq BOOLEAN
        BY <1>1 DEF Autos
    <2>2. {flag', watch', realized', attached', wanted', error'} \subseteq BOOLEAN
        BY DEF Realize, library, poller, IInv, TypeOK
    <2>3. UNCHANGED <<work, lib, watch, polling, told, scan, import, bake>>
        BY DEF Realize, library, poller, jobs
    <2> QED
        BY <1>2, <2>1, <2>2, <2>3 DEF IInv, TypeOK
<1>4. ScanIsTold'
    BY DEF Realize, library, poller, IInv, ListIsInForce, ScanIsTold, Scanning
<1> QED
    BY <1>1, <1>2, <1>3, <1>4, Rest DEF Realize, library, IInv, ListOK

\* The widget is unrealized.
LEMMA UnrealizeKeeps == ASSUME IInv, Unrealize PROVE IInv'
<1>1. auto' \in Autos /\ ~auto'.idle
    BY DEF Unrealize, IInv, AutoOK, Autos
<1>2. TypeOK'
    <2>1. {auto'.did, auto'.idle, auto'.opening} \subseteq BOOLEAN
        BY <1>1 DEF Autos
    <2>2. {flag', watch', realized', attached', wanted', error'} \subseteq BOOLEAN
        BY DEF Unrealize, library, poller, IInv, TypeOK
    <2>3. chart' = Closed /\ UNCHANGED <<work, lib, watch, polling, told, scan, import, bake>>
        BY DEF Unrealize, library, poller, jobs
    <2>4. chart' \in (SUBSET Sets) \cup {Closed}
        BY <2>3, Zenon
    <2> QED
        BY <2>1, <2>2, <2>3, <2>4 DEF IInv, TypeOK
<1>3. ScanIsTold'
    BY DEF Unrealize, library, poller, IInv, ListIsInForce, ScanIsTold, Scanning
<1> QED
    BY <1>1, <1>2, <1>3, Rest DEF Unrealize, library, IInv, ListOK

\* The opening at launch.
LEMMA DoAutoOpenKeeps == ASSUME IInv, DoAutoOpen PROVE IInv'
<1>1. auto' \in Autos /\ ~auto'.idle
    BY DEF DoAutoOpen, IInv, AutoOK, Autos
<1>2. realized
    BY DEF DoAutoOpen, IInv, AutoOK
<1>3. /\ chart' \in (SUBSET Sets) \cup {Closed} /\ (chart' # Closed => chart' \subseteq lib.on)
      /\ scan' \in Sets \cup {None} /\ error' \in BOOLEAN
    <2>1. Compose(lib) \subseteq lib.on /\ Compose(lib) \subseteq Sets /\ RawSets(lib) \subseteq Sets
        BY Composed DEF IInv, ListOK, Lists, RawSets
    <2> QED
        BY <2>1 DEF DoAutoOpen, OpenDirectory, IInv, TypeOK, ListIsInForce,
            NothingDrawnThatIsOff
<1>4. TypeOK'
    BY <1>1, <1>3 DEF DoAutoOpen, library, poller, widget, bounds, IInv, TypeOK, Autos
<1>5. ScanIsTold'
    BY DEF DoAutoOpen, library, poller, IInv, ListIsInForce, ScanIsTold, Scanning
<1> QED
    BY <1>1, <1>2, <1>3, <1>4, <1>5, Rest DEF DoAutoOpen, library, widget, IInv, ListOK,
        WidgetAgrees

\* A pick is looked through, or refused.
LEMMA PickKeeps == ASSUME IInv, NEW d \in Sets, Pick(d) PROVE IInv'
<1>1. scan' \in Sets \cup {None} /\ error' \in BOOLEAN
    BY DEF Pick, OpenDirectory, IInv, TypeOK
<1>2. TypeOK'
    BY <1>1 DEF Pick, library, poller, widget, IInv, TypeOK
<1> QED
    BY <1>2 DEF Pick, library, poller, widget, IInv, AutoOK, ListOK, ListIsInForce,
        NothingDrawnThatIsOff, ScanIsTold, Scanning, WidgetAgrees

\* A pick has been looked through: its folder is new to the list, or read before.
LEMMA PickScannedKeeps == ASSUME IInv, PickScanned PROVE IInv'
<1> DEFINE l == Note(lib, scan)
           a == IF Noted(lib, scan) THEN MaybeAutoOpen(auto, l, chart, realized) ELSE auto
           i == [dir |-> scan, pictures |-> contents[scan] = "pictures"]
<1>1. scan \in Sets
    BY DEF PickScanned, IInv, TypeOK
<1>2. ListOK(l) /\ l.on = lib.on \cup {scan} /\ l.scanned = lib.scanned
    BY <1>1, Noting DEF IInv
<1>3. AutoOK(a) /\ DrawnFrom(l)
    BY <1>2, LookingAgain DEF IInv, AutoOK, TypeOK, DrawnFrom, ListIsInForce,
        NothingDrawnThatIsOff
<1>4. i \in Imports
    BY <1>1 DEF Imports
<1>5. WatchScans(l) /\ StartImport(i, l, a) /\ scan' = None
    BY DEF PickScanned
<1> HIDE DEF l, a, i
<1>6. /\ import' \in Imports \cup {None}
      /\ bake' \in Bakes \cup {None} /\ (bake # None => bake' = bake)
      /\ ListOK(lib') /\ lib'.listed = l.listed /\ lib'.scanned = l.scanned
      /\ auto' \in Autos /\ (auto'.idle => realized)
      /\ chart' \in (SUBSET Sets) \cup {Closed} /\ (chart' # Closed => chart' \subseteq lib'.on)
      /\ chart' # Closed => realized
      /\ wanted' \in BOOLEAN /\ error' \in BOOLEAN
    BY <1>2, <1>3, <1>4, <1>5, StartingImport
<1>7. TypeOK'
    BY <1>5, <1>6 DEF PickScanned, WatchScans, Scanning, IInv, TypeOK, ListOK, Autos
<1>8. ScanIsTold'
    BY <1>2, <1>5, <1>6 DEF PickScanned, WatchScans, IInv, ListIsInForce, ScanIsTold, Scanning
<1> QED
    BY <1>6, <1>7, <1>8, Rest DEF PickScanned, IInv, WidgetAgrees

\* The three ways to recompose: a set switched, a set removed, the library moved.
LEMMA SwitchingKeeps ==
    ASSUME IInv, NEW l, ListOK(l), Switching, Recompose(l),
           l.scanned \subseteq lib.scanned, l.listed \ l.scanned \subseteq lib.listed \ lib.scanned,
           work' \in [Sets -> {"none", "part", "all", "refused"}]
    PROVE  IInv'
<1>1. /\ lib' = l
      /\ auto' \in Autos /\ (auto'.idle => realized)
      /\ chart' \in (SUBSET Sets) \cup {Closed} /\ (chart' # Closed => chart' \subseteq l.on)
      /\ chart' # Closed => realized
      /\ wanted' \in BOOLEAN /\ error' \in BOOLEAN
    BY Recomposing
<1>2. TypeOK'
    BY <1>1 DEF Switching, poller, jobs, IInv, TypeOK, ListOK, Autos
<1>3. ScanIsTold'
    BY <1>1 DEF Switching, poller, IInv, ListIsInForce, ScanIsTold, Scanning
<1> QED
    BY <1>1, <1>2, <1>3, Rest DEF Switching, IInv, WidgetAgrees

\* A set is switched.
LEMMA SetOnKeeps == ASSUME IInv, NEW d \in Sets, SetOn(d) PROVE IInv'
<1> DEFINE l == [lib EXCEPT !.on = IF d \in @ THEN @ \ {d} ELSE @ \cup {d}]
<1>1. ListOK(l) /\ l.scanned = lib.scanned /\ l.listed = lib.listed
    BY DEF SetOn, IInv, ListOK, Lists
<1>2. Switching /\ Recompose(l)
    BY DEF SetOn
<1>3. work' \in [Sets -> {"none", "part", "all", "refused"}]
    BY DEF SetOn, IInv, TypeOK
<1> HIDE DEF l
<1> QED
    BY <1>1, <1>2, <1>3, SwitchingKeeps

\* A set is removed.
LEMMA RemoveSetKeeps == ASSUME IInv, NEW d \in Sets, RemoveSet(d) PROVE IInv'
<1>1. /\ ListOK(Dropped(lib, d))
      /\ Dropped(lib, d).listed = lib.listed \ {d} /\ Dropped(lib, d).scanned = lib.scanned \ {d}
    BY Dropping DEF IInv
<1>2. work' \in [Sets -> {"none", "part", "all", "refused"}]
    BY DEF RemoveSet, IInv, TypeOK
<1> QED
    BY <1>1, <1>2, SwitchingKeeps DEF RemoveSet

\* The library moved under the shell.
LEMMA LibraryMovedKeeps == ASSUME IInv, LibraryMoved PROVE IInv'
BY SwitchingKeeps DEF LibraryMoved, IInv, TypeOK

\* A bake is cancelled.
LEMMA CancelBakeKeeps == ASSUME IInv, CancelBake PROVE IInv'
<1>1. bake' \in Bakes
    BY DEF CancelBake, IInv, TypeOK, Bakes
<1>2. TypeOK'
    BY <1>1 DEF CancelBake, library, poller, widget, bounds, IInv, TypeOK
<1> QED
    BY <1>2 DEF CancelBake, library, poller, widget, IInv, AutoOK, ListOK, ListIsInForce,
        NothingDrawnThatIsOff, ScanIsTold, Scanning, WidgetAgrees

\* The core's job ends.
LEMMA BakeEndsKeeps == ASSUME IInv, BakeEnds PROVE IInv'
<1>1. bake \in Bakes /\ bake.of \in Sets
    BY DEF BakeEnds, IInv, TypeOK, Bakes
<1>2. bake' \in Bakes
    BY <1>1 DEF BakeEnds, Bakes
<1>3. work' \in [Sets -> {"none", "part", "all", "refused"}]
    BY <1>1 DEF BakeEnds, IInv, TypeOK
<1>4. TypeOK'
    BY <1>2, <1>3 DEF BakeEnds, poller, widget, bounds, IInv, TypeOK
<1> QED
    BY <1>4 DEF BakeEnds, poller, widget, IInv, AutoOK, ListOK, ListIsInForce,
        NothingDrawnThatIsOff, ScanIsTold, Scanning, WidgetAgrees

\* A bake is done: its set is to be read again, and the chart opens.
LEMMA BakeDoneKeeps == ASSUME IInv, BakeDone PROVE IInv'
<1> DEFINE l == IF bake.of \in lib.listed THEN Unread(lib, bake.of) ELSE lib
<1>1. bake.of \in Sets
    BY DEF BakeDone, IInv, TypeOK, Bakes
<1>2. ListOK(l) /\ l.on = lib.on /\ l.listed = lib.listed /\ l.scanned \subseteq lib.scanned
    BY <1>1, Unreading DEF IInv
<1>3. AutoOK(auto) /\ DrawnFrom(l)
    BY <1>2 DEF IInv, TypeOK, DrawnFrom, ListIsInForce, NothingDrawnThatIsOff
<1>4. WatchScans(lib')
    BY DEF BakeDone
<1>5. \/ error' = TRUE /\ lib' = l /\ UNCHANGED <<auto, chart, wanted>>
      \/ OpenPrepared(bake.of, FALSE, l, auto, work)
    BY DEF BakeDone
<1> HIDE DEF l
<1>6. /\ ListOK(lib') /\ lib'.scanned = l.scanned
      /\ auto' \in Autos /\ (auto'.idle => realized)
      /\ chart' \in (SUBSET Sets) \cup {Closed} /\ (chart' # Closed => chart' \subseteq lib'.on)
      /\ chart' # Closed => realized
      /\ wanted' \in BOOLEAN /\ error' \in BOOLEAN
    <2>1. CASE error' = TRUE /\ lib' = l /\ UNCHANGED <<auto, chart, wanted>>
        BY <1>2, <1>3, <2>1 DEF IInv, TypeOK, AutoOK, DrawnFrom, WidgetAgrees
    <2>2. CASE OpenPrepared(bake.of, FALSE, l, auto, work)
        <3>1. /\ lib' = Note(l, bake.of) /\ ListOK(lib')
              /\ auto' \in Autos /\ (auto'.idle => realized)
              /\ chart' \in (SUBSET Sets) \cup {Closed}
              /\ (chart' # Closed => chart' \subseteq lib'.on)
              /\ chart' # Closed => realized
              /\ wanted' \in BOOLEAN /\ error' \in BOOLEAN
            BY <1>1, <1>2, <1>3, <2>2, OpeningPrepared
        <3> QED
            BY <1>1, <1>2, <3>1, Noting
    <2> QED
        BY <1>5, <2>1, <2>2
<1>7. TypeOK'
    BY <1>4, <1>6 DEF BakeDone, WatchScans, Scanning, IInv, TypeOK, ListOK, Autos
<1>8. ScanIsTold'
    BY <1>2, <1>4, <1>6 DEF BakeDone, WatchScans, IInv, ListIsInForce, ScanIsTold, Scanning
<1> QED
    BY <1>6, <1>7, <1>8, Rest DEF BakeDone, IInv, WidgetAgrees

\* Nothing happens.
LEMMA StutterKeeps == ASSUME IInv, UNCHANGED vars PROVE IInv'
BY DEF vars, library, poller, widget, jobs, bounds, IInv, TypeOK, AutoOK, ListOK, ListIsInForce,
    NothingDrawnThatIsOff, ScanIsTold, Scanning, WidgetAgrees

-------------------------------------------------------------------------------
\* Every step keeps the inductive invariant.
THEOREM NextIInv == IInv /\ [Next]_vars => IInv'
<1> SUFFICES ASSUME IInv, [Next]_vars PROVE IInv'
    OBVIOUS
<1>1. CASE MainLoop
    BY <1>1, RealizeKeeps, UnrealizeKeeps, DoAutoOpenKeeps, PickKeeps, SetOnKeeps, RemoveSetKeeps,
       PickScannedKeeps, LibraryMovedKeeps, CancelBakeKeeps, BakeDoneKeeps DEF MainLoop
<1>2. CASE PollFlag \/ PollCount \/ BakeEnds
    BY <1>2, PollFlagKeeps, PollCountKeeps, BakeEndsKeeps
<1>3. ASSUME NEW d \in Sets, CoreScan(d) PROVE IInv'
    BY <1>3, CoreScanKeeps
<1>4. CASE UNCHANGED vars
    BY <1>4, StutterKeeps
<1> QED
    BY <1>1, <1>2, <1>3, <1>4 DEF Next

\* The inductive invariant holds in every reachable state.
THEOREM IInvHolds == Spec => []IInv
BY InitIInv, NextIInv, PTL DEF Spec

\* The variables keep their types.
THEOREM TypeHolds == Spec => []TypeOK
BY IInvHolds, PTL DEF IInv

\* Nothing is drawn that was switched off or removed, a set still to be read has the
\* poll behind it, and a poll that has stopped has reported every read.
THEOREM ListHolds == Spec => []ListIsInForce
BY IInvHolds, PTL DEF IInv

\* A step other than BakeDone keeps the bake, or moves it along, and never ends it.
LEMMA BakeStands ==
    ASSUME IInv, bake # None, [Next]_vars, ~BakeDone
    PROVE  bake' # None
<1>1. bake \in Bakes
    BY DEF IInv, TypeOK
<1>2. CASE UNCHANGED bake
    BY <1>2
<1>3. CASE CancelBake \/ BakeEnds
    <2>1. bake' \in Bakes
        BY <1>1, <1>3 DEF CancelBake, BakeEnds, Bakes
    <2> QED
        BY <2>1, NothingIsNone
<1>4. ASSUME NEW i, NEW l, NEW a, StartImport(i, l, a) PROVE UNCHANGED bake
    BY <1>4 DEF StartImport
<1>5. CASE PollCount
    BY <1>2, <1>4, <1>5 DEF PollCount, SetsChanged, jobs
<1>6. CASE PickScanned
    BY <1>2, <1>4, <1>6 DEF PickScanned
<1>7. CASE Realize \/ Unrealize \/ DoAutoOpen \/ LibraryMoved \/ PollFlag \/ UNCHANGED vars
    BY <1>2, <1>7 DEF Realize, Unrealize, DoAutoOpen, LibraryMoved, Switching, PollFlag, vars, jobs
<1>8. ASSUME NEW d \in Sets, Pick(d) \/ SetOn(d) \/ RemoveSet(d) \/ CoreScan(d)
      PROVE  bake' # None
    BY <1>2, <1>8 DEF Pick, SetOn, RemoveSet, CoreScan, Switching, jobs
<1> QED
    BY <1>3, <1>5, <1>6, <1>7, <1>8 DEF Next, MainLoop

\* The bake that is done opens the chart on what it wrote.
LEMMA BakeDoneDraws ==
    ASSUME IInv, BakeDone, bake.at = "ok", realized, Drawable(bake.of, work)
    PROVE  chart' # Closed /\ bake.of \in chart'
<1> DEFINE l == IF bake.of \in lib.listed THEN Unread(lib, bake.of) ELSE lib
<1>1. bake.of \in Sets
    BY DEF BakeDone, IInv, TypeOK, Bakes
<1>2. ListOK(l) /\ l.on = lib.on
    BY <1>1, Unreading DEF IInv
<1>3. AutoOK(auto) /\ DrawnFrom(l)
    BY <1>2 DEF IInv, TypeOK, DrawnFrom, ListIsInForce, NothingDrawnThatIsOff
<1>4. OpenPrepared(bake.of, FALSE, l, auto, work)
    BY DEF BakeDone
<1> HIDE DEF l
<1> QED
    BY <1>1, <1>2, <1>3, <1>4, OpeningPrepared

\* What a bake wrote is on the screen when the bake is done (lk_app_model_bake_done).
THEOREM BakeHolds == Spec => BakeIsDrawn
<1> DEFINE Drawn == bake # None /\ bake' = None /\ bake.at = "ok" /\ realized
                        /\ Drawable(bake.of, work)
                    => chart' # Closed /\ bake.of \in chart'
<1>1. IInv /\ [Next]_vars => [Drawn]_vars
    BY BakeStands, BakeDoneDraws
<1> QED
    BY <1>1, IInvHolds, PTL DEF Spec, BakeIsDrawn
===============================================================================
