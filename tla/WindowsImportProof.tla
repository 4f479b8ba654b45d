-------------------------- MODULE WindowsImportProof --------------------------
(***************************************************************************)
(* For any folders, any charts and any bounds: the clocks run while there  *)
(* is something to poll (ClockRuns), a removal leaves none of the prepared *)
(* charts on the disk (RemovedLeavesNothing), and the types.               *)
(*                                                                         *)
(* Setup stops the readout clock and goes away without knowing why it      *)
(* stopped.  That the set waited for is polled again rests on what a closed *)
(* handle means once the launch has been tried: an open has failed, or one *)
(* is on its way (ClosedIsExplained).  That a set put off the list as empty *)
(* had nothing prepared rests on what the core's reading means while no    *)
(* bake is at work on the set: prepared charts were found (Known).         *)
(***************************************************************************)
EXTENDS WindowsImport, TLAPS

\* The values of the list.
Lists == [listed : SUBSET Rows, on : SUBSET Rows, scanned : SUBSET Rows, todo : SUBSET Sets,
          draw : [Rows -> SUBSET Charts]]

\* What may be prepared of each chart.
Works == [Charts -> {"none", "part", "all", "refused"}]

\* The values of setup.
Setups == [showing : BOOLEAN, clock : BOOLEAN, putAway : BOOLEAN, had : BOOLEAN]

\* A list whose rows are all on it, and where what is drawn is too.
ListOK(l) ==
    /\ l \in Lists
    /\ l.on \subseteq l.listed /\ l.scanned \subseteq l.listed /\ l.todo \subseteq l.listed
    /\ \A r \in Rows : l.draw[r] # {} => r \in l.listed

\* What the core has read of a set is what is prepared of it, but for one being baked.
Known(l, w, b) == \A d \in Sets :
    d \in l.scanned /\ w[d] \in {"part", "all"} /\ (b = None \/ b.of # d) => d \in l.draw[d]

\* The list, the disk, and what one says of the other.
LibraryOK == ListOK(lib) /\ work \in Works /\ Known(lib, work, bake)

\* The set that is waited for, and the bake.
ImportOK == pending \in Awaits \cup {None} /\ bake \in Bakes \cup {None}

\* The open that is put off, and what is open.
OpensOK ==
    /\ opening \in Opens \cup {None} /\ opened \in SUBSET Charts
    /\ chart \in (SUBSET Charts) \cup {Closed}

\* The flags, and setup.
FlagsOK ==
    /\ flag \in BOOLEAN /\ looking \in BOOLEAN /\ afterWrite \in BOOLEAN /\ nothing \in BOOLEAN
    /\ clock \in BOOLEAN /\ linked \in BOOLEAN /\ tried \in BOOLEAN /\ failed \in BOOLEAN
    /\ setup \in Setups

\* Once the launch was tried, no handle means a failed open, or one on its way.
ClosedIsExplained == tried /\ chart = Closed => failed \/ opening # None

\* Before the launch was tried, nothing has happened.
UntriedIsUntouched ==
    ~tried => /\ pending = None /\ bake = None /\ opening = None /\ chart = Closed
              /\ ~looking /\ ~clock /\ ~setup.showing

\* The clocks, and what they rest on.
ClocksOK == ClockRuns /\ ClosedIsExplained /\ UntriedIsUntouched

\* The inductive invariant.
IInv == LibraryOK /\ ImportOK /\ OpensOK /\ FlagsOK /\ ClocksOK

-------------------------------------------------------------------------------
\* lookout_chart_sets_add: the row is new, so it is unread.
LEMMA Adding ==
    ASSUME NEW l, ListOK(l), NEW r \in Rows, NEW w, NEW b, Known(l, w, b), r \notin l.listed
    PROVE  ListOK(Added(l, r)) /\ Known(Added(l, r), w, b)
<1>1. ListOK(Added(l, r))
    BY DEF ListOK, Lists, Added
<1>2. Added(l, r).scanned = l.scanned /\ Added(l, r).draw = l.draw
    BY DEF ListOK, Lists, Added
<1> QED
    BY <1>1, <1>2 DEF Known

\* lookout_chart_sets_rescan: less is read than before.
LEMMA Unreading ==
    ASSUME NEW l, ListOK(l), NEW r, NEW w, NEW b, Known(l, w, b)
    PROVE  ListOK(Unread(l, r)) /\ Known(Unread(l, r), w, b) /\ r \notin Unread(l, r).scanned
<1>1. ListOK(Unread(l, r))
    BY DEF ListOK, Lists, Unread
<1>2. Unread(l, r).scanned = l.scanned \ {r} /\ Unread(l, r).draw = l.draw
    BY DEF ListOK, Lists, Unread
<1> QED
    BY <1>1, <1>2 DEF Known

\* lookout_chart_sets_remove leaves the other rows as they are.
LEMMA Dropping ==
    ASSUME NEW l, ListOK(l), NEW r \in Rows
    PROVE  /\ ListOK(Dropped(l, r))
           /\ Dropped(l, r).listed = l.listed \ {r} /\ Dropped(l, r).scanned = l.scanned \ {r}
           /\ \A d \in Rows \ {r} : Dropped(l, r).draw[d] = l.draw[d]
BY DEF ListOK, Lists, Dropped

\* What is composed is charts.
LEMMA Composed ==
    ASSUME NEW l, ListOK(l)
    PROVE  Compose(l) \in SUBSET Charts
<1>1. \A r \in l.on : l.draw[r] \in SUBSET Charts
    BY DEF ListOK, Lists
<1> QED
    BY <1>1 DEF Compose

\* What lies under a row is charts, and what is prepared of a set is among them.
LEMMA Lying ==
    ASSUME NEW r \in Rows, NEW w \in Works
    PROVE  /\ OnDisk(r, w) \in SUBSET Charts
           /\ r \in Sets /\ w[r] \in {"part", "all"} => r \in OnDisk(r, w)
BY DEF OnDisk, Rows, Charts, Works

\* OpenPaths leaves an open on its way, if it was given any charts.
LEMMA Putting ==
    ASSUME IInv, NEW p \in SUBSET Charts, NEW recent \in Rows \cup {None}, NEW b \in BOOLEAN,
           OpenPaths(p, recent, b)
    PROVE  /\ opening' \in Opens \cup {None} /\ afterWrite' \in BOOLEAN
           /\ opening # None => opening' # None
           /\ p # {} => opening' # None
<1>1. CASE p = {} \/ opening # None
    BY <1>1 DEF OpenPaths, IInv, OpensOK
<1>2. CASE p # {} /\ opening = None
    <2>1. opening' = [paths |-> p, recent |-> recent] /\ afterWrite' = b
        BY <1>2 DEF OpenPaths
    <2>2. opening' \in Opens
        BY <1>2, <2>1 DEF Opens
    <2> QED
        BY <2>1, <2>2, NothingIsNone
<1> QED
    BY <1>1, <1>2

\* The basemap has a chart, or a failure; the clock stops only under setup.
LEMMA Basement ==
    ASSUME IInv, NEW l, NEW asked \in BOOLEAN, NEW until \in BOOLEAN, Basemap(l, asked, until)
    PROVE  /\ chart' \in {{}, Closed} /\ nothing' \in BOOLEAN /\ failed' \in BOOLEAN
           /\ setup' \in Setups /\ clock' \in BOOLEAN
           /\ failed \/ asked \/ chart' = Closed => failed'
           /\ setup'.showing \/ (setup' = setup /\ clock' = until)
<1>1. chart' \in {{}, Closed} /\ nothing' = TRUE /\ failed' = (failed \/ asked \/ chart' = Closed)
    BY DEF Basemap
<1>2. failed' \in BOOLEAN
    BY <1>1
<1>3. CASE ShouldRun(l)
    <2>1. clock' = FALSE /\ setup' = Begun(l)
        BY <1>3 DEF Basemap
    <2>2. setup' \in Setups /\ setup'.showing
        BY <2>1 DEF Begun, IInv, FlagsOK, Setups
    <2> QED
        BY <1>1, <1>2, <2>1, <2>2
<1>4. CASE ~ShouldRun(l)
    <2>1. clock' = until /\ setup' = setup
        BY <1>4 DEF Basemap
    <2> QED
        BY <1>1, <1>2, <2>1 DEF IInv, FlagsOK
<1> QED
    BY <1>3, <1>4

\* No charts is a chart, and none of the charts is Closed.
LEMMA ChartOK == {} \in (SUBSET Charts) \cup {Closed} /\ Closed \in (SUBSET Charts) \cup {Closed}
    /\ {} # Closed /\ \A S \in SUBSET Charts : S \in (SUBSET Charts) \cup {Closed} /\ S # Closed
BY NothingIsNone

\* The chart closed or kept, an open on its way or the basemap: what a reopen leaves.
LEMMA Reopening ==
    ASSUME IInv, tried, UNCHANGED <<pending, bake, looking, linked, tried>>, NEW l, ListOK(l),
           NEW recent \in Rows \cup {None}, NEW shut \in BOOLEAN, Reopen(l, recent, shut)
    PROVE  /\ OpensOK' /\ ClocksOK'
           /\ nothing' \in BOOLEAN /\ failed' \in BOOLEAN /\ clock' \in BOOLEAN
           /\ afterWrite' \in BOOLEAN /\ setup' \in Setups
<1>1. Compose(l) \in SUBSET Charts /\ opened' = Compose(l)
    BY Composed DEF Reopen
<1>2. CASE /\ Compose(l) # {} /\ OpenPaths(Compose(l), recent, afterWrite)
           /\ chart' = IF shut THEN Closed ELSE chart
           /\ UNCHANGED <<nothing, failed, clock, setup>>
    <2>1. opening' \in Opens \cup {None} /\ afterWrite' \in BOOLEAN /\ opening' # None
        BY <1>1, <1>2, Putting DEF IInv, FlagsOK
    <2>2. chart' \in (SUBSET Charts) \cup {Closed} /\ (chart' = chart \/ chart' = Closed)
        BY <1>2, ChartOK DEF IInv, OpensOK
    <2>3. OpensOK'
        BY <1>1, <2>1, <2>2 DEF OpensOK
    <2>4. ClocksOK'
        BY <1>2, <2>1, <2>2 DEF IInv, ClocksOK, ClockRuns, ReadoutsRun, AwaitedIsPolled,
            ClosedIsExplained, UntriedIsUntouched
    <2> QED
        BY <1>2, <2>1, <2>3, <2>4 DEF IInv, FlagsOK
<1>3. CASE Basemap(l, FALSE, clock) /\ UNCHANGED <<opening, afterWrite>>
    <2>1. /\ chart' \in {{}, Closed} /\ nothing' \in BOOLEAN /\ failed' \in BOOLEAN
          /\ setup' \in Setups /\ clock' \in BOOLEAN
          /\ failed \/ chart' = Closed => failed'
          /\ setup'.showing \/ (setup' = setup /\ clock' = clock)
        BY <1>3, Basement DEF IInv, FlagsOK
    <2>2. OpensOK'
        BY <1>1, <1>3, <2>1, ChartOK DEF IInv, OpensOK
    <2>3. ClocksOK'
        BY <1>3, <2>1 DEF IInv, ClocksOK, ClockRuns, ReadoutsRun, AwaitedIsPolled,
            ClosedIsExplained, UntriedIsUntouched
    <2> QED
        BY <1>3, <2>1, <2>2, <2>3 DEF IInv, FlagsOK
<1> QED
    BY <1>2, <1>3 DEF Reopen

-------------------------------------------------------------------------------
\* The shell starts with the inductive invariant.
THEOREM InitIInv == Init => IInv
<1> SUFFICES ASSUME Init PROVE IInv
    OBVIOUS
<1>1. LibraryOK
    <2>1. PICK listed \in SUBSET Sets : \E on \in SUBSET listed :
              lib = [listed |-> listed, on |-> on, scanned |-> {}, todo |-> {},
                     draw |-> [r \in Rows |-> {}]]
        BY DEF Init
    <2>2. PICK on \in SUBSET listed :
              lib = [listed |-> listed, on |-> on, scanned |-> {}, todo |-> {},
                     draw |-> [r \in Rows |-> {}]]
        BY <2>1
    <2>3. ListOK(lib)
        BY <2>2 DEF ListOK, Lists, Rows
    <2>4. lib.scanned = {}
        BY <2>2
    <2>5. work \in Works
        BY DEF Init, Works
    <2> QED
        BY <2>3, <2>4, <2>5 DEF LibraryOK, Known
<1>2. ImportOK /\ OpensOK
    BY ChartOK DEF Init, ImportOK, OpensOK
<1>3. FlagsOK
    BY DEF Init, FlagsOK, Setups
<1>4. ClocksOK
    BY DEF Init, ClocksOK, ClockRuns, ReadoutsRun, AwaitedIsPolled, ClosedIsExplained,
        UntriedIsUntouched
<1> QED
    BY <1>1, <1>2, <1>3, <1>4 DEF IInv

\* The core has read a row: what it says is what is on the disk.
LEMMA CoreScanKeeps == ASSUME IInv, NEW r \in Rows, CoreScan(r) PROVE IInv'
<1>1. OnDisk(r, work) \in SUBSET Charts /\ (r \in Sets /\ work[r] \in {"part", "all"}
          => r \in OnDisk(r, work))
    BY Lying DEF IInv, LibraryOK
<1>2. ToPrepare(r, work) => r \in Sets
    BY DEF ToPrepare
<1>3. r \in lib.listed
    BY DEF CoreScan
<1>4. /\ ListOK(lib') /\ lib'.scanned = lib.scanned \cup {r}
      /\ lib'.draw[r] = OnDisk(r, work) /\ \A d \in Rows \ {r} : lib'.draw[d] = lib.draw[d]
    BY <1>1, <1>2, <1>3 DEF CoreScan, IInv, LibraryOK, ListOK, Lists
<1>5. Known(lib', work', bake')
    <2>1. UNCHANGED <<work, bake>>
        BY DEF CoreScan, import
    <2> SUFFICES ASSUME NEW d \in Sets, d \in lib'.scanned, work[d] \in {"part", "all"},
                        bake = None \/ bake.of # d
                 PROVE  d \in lib'.draw[d]
        BY <2>1 DEF Known
    <2>2. CASE d = r
        BY <1>1, <1>4, <2>2
    <2>3. CASE d # r
        BY <1>4, <2>3 DEF IInv, LibraryOK, Known, Rows
    <2> QED
        BY <2>2, <2>3
<1>6. work' \in Works
    BY DEF CoreScan, IInv, LibraryOK
<1> QED
    BY <1>4, <1>5, <1>6 DEF CoreScan, import, opens, clocks, IInv, LibraryOK, ImportOK, OpensOK,
        FlagsOK, ClocksOK, ClockRuns, ReadoutsRun, AwaitedIsPolled, ClosedIsExplained,
        UntriedIsUntouched

\* The deferred open lands, with the clock, or fails.
LEMMA DoOpenPathsKeeps == ASSUME IInv, DoOpenPaths PROVE IInv'
<1>1. opening \in Opens /\ opening.paths \in SUBSET Charts /\ opening.recent \in Rows \cup {None}
    BY DEF DoOpenPaths, IInv, OpensOK, Opens
<1>2. /\ opening' = None /\ UNCHANGED <<work, flag, pending, bake, looking, linked, tried>>
    BY DEF DoOpenPaths, import
<1>3. tried
    BY <1>1, NothingIsNone DEF IInv, ClocksOK, UntriedIsUntouched
<1>4. CASE OpenLands
    <2>1. ListOK(lib') /\ Known(lib', work, bake)
        BY <1>1, <1>4, Adding, Unreading DEF OpenLands, Adopt, IInv, LibraryOK
    <2>2. LibraryOK'
        BY <1>2, <2>1 DEF LibraryOK, IInv
    <2>3. chart' = opening.paths /\ chart' # Closed /\ clock' = TRUE /\ UNCHANGED setup
        BY <1>1, <1>4, ChartOK DEF OpenLands
    <2>4. OpensOK'
        BY <1>1, <1>2, <1>4, ChartOK DEF OpenLands, OpensOK, IInv
    <2>5. FlagsOK'
        BY <1>2, <1>4 DEF OpenLands, FlagsOK, IInv
    <2>6. ClocksOK'
        BY <1>2, <1>3, <2>3 DEF ClocksOK, ClockRuns, ReadoutsRun, AwaitedIsPolled,
            ClosedIsExplained, UntriedIsUntouched
    <2> QED
        BY <1>2, <2>2, <2>4, <2>5, <2>6 DEF IInv, ImportOK
<1>5. CASE OpenFails
    <2>1. Basemap(lib, TRUE, FALSE) /\ clock' = FALSE /\ UNCHANGED <<lib, afterWrite, opened>>
        BY <1>5 DEF OpenFails
    <2>2. /\ chart' \in {{}, Closed} /\ nothing' \in BOOLEAN /\ failed' = TRUE /\ setup' \in Setups
        BY <2>1, Basement
    <2>3. OpensOK'
        BY <1>2, <2>1, <2>2, ChartOK DEF OpensOK, IInv
    <2>4. FlagsOK'
        BY <1>2, <2>1, <2>2 DEF FlagsOK, IInv
    <2>5. ClocksOK'
        BY <1>2, <1>3, <2>1, <2>2 DEF ClocksOK, ClockRuns, ReadoutsRun, AwaitedIsPolled,
            ClosedIsExplained, UntriedIsUntouched
    <2> QED
        BY <1>2, <2>1, <2>3, <2>4, <2>5 DEF IInv, ImportOK, LibraryOK
<1> QED
    BY <1>4, <1>5 DEF DoOpenPaths

\* What FinishPendingSet leaves, of the set that is waited for.
LEMMA Finishing ==
    ASSUME IInv, pending # None, FinishPendingSet
    PROVE  /\ ListOK(lib') /\ work' \in Works /\ Known(lib', work', bake')
           /\ pending' \in {pending, None} /\ bake' \in Bakes \cup {None}
           /\ opening' \in Opens \cup {None} /\ afterWrite' \in BOOLEAN
           /\ opening # None => opening' # None
           /\ \A d \in Sets : d \in lib.listed /\ d \notin lib'.listed => work'[d] = "none"
<1> DEFINE d0 == pending.of
<1>1. d0 \in Sets /\ d0 \in Rows /\ d0 \in Charts
    BY DEF IInv, ImportOK, Awaits, Rows, Charts
<1> HIDE DEF d0
<1>2. CASE UNCHANGED <<lib, work, bake, opening, afterWrite>> /\ pending' \in {pending, None}
    BY <1>2 DEF IInv, LibraryOK, ImportOK, OpensOK, FlagsOK
<1>3. CASE /\ bake = None /\ pending' = None /\ bake' = [of |-> d0, at |-> "running"]
           /\ UNCHANGED <<lib, work, opening, afterWrite>>
    <2>1. bake' \in Bakes
        BY <1>1, <1>3 DEF Bakes
    <2>2. Known(lib, work, bake')
        BY <1>3 DEF IInv, LibraryOK, Known
    <2> QED
        BY <1>3, <2>1, <2>2 DEF IInv, LibraryOK, OpensOK, FlagsOK
<1>4. CASE /\ bake = None /\ pending' = None /\ d0 \in lib.scanned /\ UNCHANGED bake
           /\ lib.draw[d0] = {} /\ lib' = Dropped(lib, d0)
           /\ work' = [work EXCEPT ![d0] = Forgiven(@)] /\ UNCHANGED <<opening, afterWrite>>
    <2>1. /\ ListOK(lib')
          /\ lib'.listed = lib.listed \ {d0} /\ lib'.scanned = lib.scanned \ {d0}
          /\ \A d \in Rows \ {d0} : lib'.draw[d] = lib.draw[d]
        BY <1>1, <1>4, Dropping DEF IInv, LibraryOK
    <2>2. work[d0] \in {"none", "refused"}
        BY <1>1, <1>4 DEF IInv, LibraryOK, Known, Works
    <2>3. work' \in Works /\ work'[d0] = "none" /\ \A d \in Charts \ {d0} : work'[d] = work[d]
        BY <1>1, <1>4, <2>2 DEF IInv, LibraryOK, Works, Forgiven
    <2>4. Known(lib', work', bake')
        BY <1>4, <2>1, <2>3 DEF IInv, LibraryOK, Known, Rows, Charts
    <2> QED
        BY <1>4, <2>1, <2>3, <2>4 DEF IInv, ImportOK, OpensOK, FlagsOK
<1>5. CASE /\ pending' = None /\ UNCHANGED <<bake, lib, work>>
           /\ OpenPaths(Compose(lib), None, afterWrite)
    <2>1. Compose(lib) \in SUBSET Charts
        BY Composed DEF IInv, LibraryOK
    <2>2. opening' \in Opens \cup {None} /\ afterWrite' \in BOOLEAN
          /\ (opening # None => opening' # None)
        BY <1>5, <2>1, Putting DEF IInv, FlagsOK
    <2> QED
        BY <1>5, <2>2 DEF IInv, LibraryOK, ImportOK
<1> QED
    BY <1>2, <1>3, <1>4, <1>5 DEF FinishPendingSet, d0

\* What a poll of the list leaves.
LEMMA Polling ==
    ASSUME IInv, Poll
    PROVE  /\ LibraryOK' /\ ImportOK' /\ pending' \in {pending, None}
           /\ opening' \in Opens \cup {None} /\ opened' \in SUBSET Charts
           /\ flag' \in BOOLEAN /\ afterWrite' \in BOOLEAN
           /\ opening # None => opening' # None
           /\ \A d \in Sets : d \in lib.listed /\ d \notin lib'.listed => work'[d] = "none"
<1>1. CASE UNCHANGED <<flag, lib, work, pending, bake, opening, afterWrite, opened>>
    BY <1>1 DEF IInv, LibraryOK, ImportOK, OpensOK, FlagsOK
<1>2. CASE flag' = FALSE /\ pending # None /\ FinishPendingSet /\ UNCHANGED opened
    <2>1. pending' \in {pending, None} => pending' \in Awaits \cup {None}
        BY DEF IInv, ImportOK
    <2> QED
        BY <1>2, <2>1, Finishing DEF IInv, LibraryOK, ImportOK, OpensOK
<1>3. CASE /\ flag' = FALSE /\ pending = None /\ opened' = Compose(lib)
           /\ OpenPaths(Compose(lib), None, afterWrite)
           /\ UNCHANGED <<lib, work, pending, bake>>
    <2>1. Compose(lib) \in SUBSET Charts
        BY Composed DEF IInv, LibraryOK
    <2>2. opening' \in Opens \cup {None} /\ afterWrite' \in BOOLEAN
          /\ (opening # None => opening' # None)
        BY <1>3, <2>1, Putting DEF IInv, FlagsOK
    <2> QED
        BY <1>3, <2>1, <2>2 DEF IInv, LibraryOK, ImportOK
<1>4. CASE /\ flag' = FALSE /\ pending = None
           /\ UNCHANGED <<lib, work, pending, bake, opening, afterWrite, opened>>
    BY <1>4 DEF IInv, LibraryOK, ImportOK, OpensOK, FlagsOK
<1> QED
    BY <1>1, <1>2, <1>3, <1>4 DEF Poll

\* The readout clock ticks.
LEMMA ReadoutTickKeeps == ASSUME IInv, ReadoutTick PROVE IInv'
<1>1. /\ LibraryOK' /\ ImportOK' /\ pending' \in {pending, None}
      /\ opening' \in Opens \cup {None} /\ opened' \in SUBSET Charts
      /\ flag' \in BOOLEAN /\ afterWrite' \in BOOLEAN
      /\ opening # None => opening' # None
    BY Polling DEF ReadoutTick
<1>2. UNCHANGED <<looking, chart, nothing, failed, linked, tried>>
    BY DEF ReadoutTick
<1>3. setup' \in Setups /\ setup'.showing = setup.showing
    BY DEF ReadoutTick, Noted, IInv, FlagsOK, Setups
<1>4. clock' \in BOOLEAN /\ (clock' \/ (chart = Closed /\ pending' = None))
    BY DEF ReadoutTick
<1>5. tried
    BY DEF ReadoutTick, IInv, ClocksOK, UntriedIsUntouched
<1>6. OpensOK'
    BY <1>1, <1>2 DEF IInv, OpensOK
<1>7. FlagsOK'
    BY <1>1, <1>2, <1>3, <1>4 DEF IInv, FlagsOK
<1>8. ClocksOK'
    BY <1>1, <1>2, <1>3, <1>4, <1>5 DEF IInv, ClocksOK, ClockRuns, ReadoutsRun, AwaitedIsPolled,
        ClosedIsExplained, UntriedIsUntouched
<1> QED
    BY <1>1, <1>6, <1>7, <1>8 DEF IInv

\* Setup's own clock ticks.
LEMMA FirstRunPollKeeps == ASSUME IInv, FirstRunPoll PROVE IInv'
<1>1. /\ LibraryOK' /\ ImportOK' /\ pending' \in {pending, None}
      /\ opening' \in Opens \cup {None} /\ opened' \in SUBSET Charts
      /\ flag' \in BOOLEAN /\ afterWrite' \in BOOLEAN
      /\ opening # None => opening' # None
    BY Polling DEF FirstRunPoll
<1>2. UNCHANGED <<looking, chart, nothing, failed, clock, linked, tried>>
    BY DEF FirstRunPoll
<1>3. setup' \in Setups /\ setup'.showing
    BY DEF FirstRunPoll, Noted, IInv, FlagsOK, Setups
<1>4. tried
    BY DEF FirstRunPoll, IInv, ClocksOK, UntriedIsUntouched
<1>5. OpensOK'
    BY <1>1, <1>2 DEF IInv, OpensOK
<1>6. FlagsOK'
    BY <1>1, <1>2, <1>3 DEF IInv, FlagsOK
<1>7. ClocksOK'
    BY <1>1, <1>2, <1>3, <1>4 DEF IInv, ClocksOK, ClockRuns, ReadoutsRun, AwaitedIsPolled,
        ClosedIsExplained, UntriedIsUntouched
<1> QED
    BY <1>1, <1>5, <1>6, <1>7 DEF IInv

\* A step of setup.
LEMMA SetupStepKeeps == ASSUME IInv, SetupStep PROVE IInv'
<1>1. setup' \in Setups /\ setup'.showing = setup.showing
    BY DEF SetupStep, IInv, FlagsOK, Setups
<1>2. linked' \in BOOLEAN
    BY DEF SetupStep, IInv, FlagsOK
<1> QED
    BY <1>1, <1>2 DEF SetupStep, list, import, opens, IInv, LibraryOK, ImportOK, OpensOK, FlagsOK,
        ClocksOK, ClockRuns, ReadoutsRun, AwaitedIsPolled, ClosedIsExplained, UntriedIsUntouched

\* Setup goes away: over a handle the clock starts, and without one it may not.
LEMMA SetupEndsKeeps == ASSUME IInv, SetupEnds PROVE IInv'
<1>1. setup' \in Setups /\ ~setup'.showing
    BY DEF SetupEnds, IInv, FlagsOK, Setups
<1>2. opening' \in Opens \cup {None} /\ afterWrite' \in BOOLEAN /\ (opening # None => opening' # None)
    BY Composed, Putting DEF SetupEnds, IInv, LibraryOK, OpensOK, FlagsOK
<1>3. tried
    BY DEF SetupEnds, IInv, ClocksOK, UntriedIsUntouched
<1>4. clock' = (clock \/ chart # Closed)
      /\ UNCHANGED <<list, import, opened, chart, nothing, failed, linked, tried>>
    BY DEF SetupEnds
<1>5. clock' \in BOOLEAN
    BY <1>4
<1>6. ClocksOK'
    BY <1>1, <1>2, <1>3, <1>4 DEF import, IInv, ClocksOK, ClockRuns, ReadoutsRun, AwaitedIsPolled,
        ClosedIsExplained, UntriedIsUntouched
<1> QED
    BY <1>1, <1>2, <1>4, <1>5, <1>6 DEF list, import, IInv, LibraryOK, ImportOK, OpensOK, FlagsOK

\* The launch: an open on its way, or the basemap.
LEMMA TryOpenKeeps == ASSUME IInv, TryOpen PROVE IInv'
<1>1. /\ Compose(lib) \in SUBSET Charts /\ opened' = Compose(lib) /\ tried'
      /\ UNCHANGED <<list, import, linked>>
    BY Composed DEF TryOpen, IInv, LibraryOK
<1>2. pending = None /\ chart = Closed /\ ~setup.showing /\ work \in Works /\ tried' = TRUE
    BY DEF TryOpen, IInv, ClocksOK, UntriedIsUntouched, LibraryOK
<1>3. CASE opening' # None /\ opening' \in Opens \cup {None} /\ afterWrite' \in BOOLEAN
           /\ UNCHANGED <<chart, nothing, failed, clocks>>
    BY <1>1, <1>2, <1>3 DEF list, import, clocks, IInv, LibraryOK, ImportOK, OpensOK, FlagsOK,
        ClocksOK, ClockRuns, ReadoutsRun, AwaitedIsPolled, ClosedIsExplained, UntriedIsUntouched
<1>4. CASE Basemap(lib, FALSE, clock) /\ UNCHANGED <<opening, afterWrite>>
    <2>1. /\ chart' \in {{}, Closed} /\ nothing' \in BOOLEAN /\ failed' \in BOOLEAN
          /\ setup' \in Setups /\ clock' \in BOOLEAN /\ (chart' = Closed => failed')
        BY <1>4, Basement DEF IInv, FlagsOK
    <2>2. OpensOK'
        BY <1>1, <1>4, <2>1, ChartOK DEF IInv, OpensOK
    <2>3. ClocksOK'
        BY <1>1, <1>2, <1>4, <2>1 DEF import, IInv, ClocksOK, ClockRuns, ReadoutsRun,
            AwaitedIsPolled, ClosedIsExplained, UntriedIsUntouched
    <2> QED
        BY <1>1, <1>2, <1>4, <2>1, <2>2, <2>3 DEF list, import, IInv, LibraryOK, ImportOK, FlagsOK
<1>5. CASE Compose(lib) # {} /\ OpenPaths(Compose(lib), None, afterWrite)
           /\ UNCHANGED <<chart, nothing, failed, clocks>>
    <2>1. opening' # None /\ opening' \in Opens \cup {None} /\ afterWrite' \in BOOLEAN
        BY <1>1, <1>5, Putting DEF IInv, FlagsOK
    <2> QED
        BY <1>3, <1>5, <2>1
<1>6. ASSUME NEW d \in Sets, OpenPaths(OnDisk(d, work), d, afterWrite), opening' # None,
             UNCHANGED <<chart, nothing, failed, clocks>>
      PROVE  IInv'
    <2>1. d \in Rows /\ OnDisk(d, work) \in SUBSET Charts
        BY <1>2, Lying DEF Rows
    <2>2. opening' \in Opens \cup {None} /\ afterWrite' \in BOOLEAN
        BY <1>6, <2>1, Putting DEF IInv, FlagsOK
    <2> QED
        BY <1>3, <1>6, <2>2
<1> QED
    BY <1>4, <1>5, <1>6 DEF TryOpen

\* A folder is picked.
LEMMA ImportFolderKeeps == ASSUME IInv, NEW d \in Sets, ImportFolder(d) PROVE IInv'
<1>1. ListOK(lib') /\ Known(lib', work, bake)
    BY Adding, Unreading DEF ImportFolder, IInv, LibraryOK, Rows
<1>2. pending' \in Awaits /\ clock' = (clock \/ ~setup.showing) /\ clock' \in BOOLEAN
    BY DEF ImportFolder, AwaitSetScan, Awaits
<1>3. tried /\ tried' = tried /\ UNCHANGED <<work, flag, bake, looking, opens, setup, linked>>
    BY DEF ImportFolder, Moved
<1>4. ClocksOK'
    BY <1>2, <1>3 DEF opens, IInv, ClocksOK, ClockRuns, ReadoutsRun, AwaitedIsPolled,
        ClosedIsExplained, UntriedIsUntouched
<1> QED
    BY <1>1, <1>2, <1>3, <1>4 DEF opens, IInv, LibraryOK, ImportOK, OpensOK, FlagsOK

\* A file is picked.
LEMMA ImportFileKeeps == ASSUME IInv, ImportFile PROVE IInv'
BY DEF ImportFile, Moved, list, opens, clocks, IInv, LibraryOK, ImportOK, OpensOK, FlagsOK,
    ClocksOK, ClockRuns, ReadoutsRun, AwaitedIsPolled, ClosedIsExplained, UntriedIsUntouched

\* A picked file was looked through.
LEMMA FinishImportKeeps == ASSUME IInv, FinishImport PROVE IInv'
<1>1. tried
    BY DEF FinishImport, IInv, ClocksOK, UntriedIsUntouched
<1>2. {File} \in SUBSET Charts /\ File \in Charts
    BY DEF Charts
<1>3. opening' \in Opens \cup {None} /\ afterWrite' \in BOOLEAN /\ (opening # None => opening' # None)
    BY <1>2, Putting DEF FinishImport, IInv, OpensOK, FlagsOK
<1>4. bake' \in Bakes \cup {None} /\ (bake' = bake \/ bake = None)
    BY <1>2 DEF FinishImport, IInv, ImportOK, Bakes
<1>5. Known(lib, work, bake')
    BY <1>4 DEF IInv, LibraryOK, Known
<1>6. ~looking' /\ looking' \in BOOLEAN
      /\ UNCHANGED <<list, pending, opened, chart, nothing, failed, clocks, linked, tried>>
    BY DEF FinishImport
<1>7. ClocksOK'
    BY <1>1, <1>3, <1>6 DEF clocks, IInv, ClocksOK, ClockRuns, ReadoutsRun, AwaitedIsPolled,
        ClosedIsExplained, UntriedIsUntouched
<1> QED
    BY <1>3, <1>4, <1>5, <1>6, <1>7 DEF list, clocks, IInv, LibraryOK, ImportOK, OpensOK, FlagsOK

\* A bake of pictures begins.
LEMMA BakeRasterSourcesKeeps == ASSUME IInv, BakeRasterSources PROVE IInv'
<1>1. bake' \in Bakes /\ Known(lib, work, bake')
    BY DEF BakeRasterSources, Bakes, IInv, LibraryOK, Known
<1> QED
    BY <1>1 DEF BakeRasterSources, Moved, list, opens, clocks, IInv, LibraryOK, ImportOK, OpensOK,
        FlagsOK, ClocksOK, ClockRuns, ReadoutsRun, AwaitedIsPolled, ClosedIsExplained,
        UntriedIsUntouched

\* A recent folder is picked.
LEMMA OpenRecentKeeps == ASSUME IInv, NEW d \in Sets, OpenRecent(d) PROVE IInv'
<1>1. d \in Rows /\ OnDisk(d, work) \in SUBSET Charts
    BY Lying DEF Rows, IInv, LibraryOK
<1>2. opening' \in Opens \cup {None} /\ afterWrite' \in BOOLEAN /\ (opening # None => opening' # None)
    BY <1>1, Putting DEF OpenRecent, IInv, FlagsOK
<1> QED
    BY <1>2 DEF OpenRecent, Moved, list, import, clocks, IInv, LibraryOK, ImportOK, OpensOK,
        FlagsOK, ClocksOK, ClockRuns, ReadoutsRun, AwaitedIsPolled, ClosedIsExplained,
        UntriedIsUntouched

\* A row is switched.
LEMMA SetChartSetOnKeeps == ASSUME IInv, NEW r \in Rows, SetChartSetOn(r) PROVE IInv'
<1>1. ListOK(lib') /\ lib'.scanned = lib.scanned /\ lib'.draw = lib.draw
    BY DEF SetChartSetOn, IInv, LibraryOK, ListOK, Lists
<1>2. /\ tried /\ UNCHANGED <<pending, bake, looking, linked, tried, work, flag>>
      /\ Reopen(lib', r, Compose(lib') = {})
    BY DEF SetChartSetOn, Moved, import
<1>3. /\ OpensOK' /\ ClocksOK'
      /\ nothing' \in BOOLEAN /\ failed' \in BOOLEAN /\ clock' \in BOOLEAN
      /\ afterWrite' \in BOOLEAN /\ setup' \in Setups
    BY <1>1, <1>2, Reopening
<1> QED
    BY <1>1, <1>2, <1>3 DEF IInv, LibraryOK, Known, ImportOK, FlagsOK

\* A row is removed, and what was prepared under it.
LEMMA RemoveChartSetKeeps == ASSUME IInv, NEW r \in Rows, RemoveChartSet(r) PROVE IInv'
<1>1. /\ ListOK(lib')
      /\ lib'.listed = lib.listed \ {r} /\ lib'.scanned = lib.scanned \ {r}
      /\ \A d \in Rows \ {r} : lib'.draw[d] = lib.draw[d]
    BY Dropping DEF RemoveChartSet, IInv, LibraryOK
<1>2. /\ tried /\ UNCHANGED <<pending, bake, looking, linked, tried, flag>>
      /\ Reopen(lib', None, TRUE)
    BY DEF RemoveChartSet, Moved, import
<1>3. /\ OpensOK' /\ ClocksOK'
      /\ nothing' \in BOOLEAN /\ failed' \in BOOLEAN /\ clock' \in BOOLEAN
      /\ afterWrite' \in BOOLEAN /\ setup' \in Setups
    BY <1>1, <1>2, Reopening
<1>4. work' \in Works /\ \A c \in Charts : work'[c] \in {work[c], "none"}
    BY DEF RemoveChartSet, DeletePreparedCharts, IInv, LibraryOK, Works
<1>5. Known(lib', work', bake')
    BY <1>1, <1>2, <1>4 DEF IInv, LibraryOK, Known, Rows, Charts
<1> QED
    BY <1>1, <1>2, <1>3, <1>4, <1>5 DEF IInv, LibraryOK, ImportOK, FlagsOK

\* A bake is cancelled.
LEMMA CancelBakeKeeps == ASSUME IInv, CancelBake PROVE IInv'
<1>1. bake \in Bakes /\ bake' \in Bakes /\ bake'.of = bake.of
    BY DEF CancelBake, IInv, ImportOK, Bakes
<1>2. Known(lib, work, bake')
    BY <1>1, NothingIsNone DEF IInv, LibraryOK, Known
<1> QED
    BY <1>1, <1>2, NothingIsNone DEF CancelBake, list, opens, clocks, IInv, LibraryOK, ImportOK,
        OpensOK, FlagsOK, ClocksOK, ClockRuns, ReadoutsRun, AwaitedIsPolled, ClosedIsExplained,
        UntriedIsUntouched

\* The core's job ends.
LEMMA BakeEndsKeeps == ASSUME IInv, BakeEnds PROVE IInv'
<1>1. bake \in Bakes /\ bake' \in Bakes /\ bake'.of = bake.of
    BY DEF BakeEnds, IInv, ImportOK, Bakes
<1>2. work' \in Works /\ \A c \in Charts : c # bake.of => work'[c] = work[c]
    BY <1>1 DEF BakeEnds, IInv, LibraryOK, Works, Bakes
<1>3. UNCHANGED lib
    BY DEF BakeEnds
<1>4. Known(lib', work', bake')
    BY <1>1, <1>2, <1>3, NothingIsNone DEF IInv, LibraryOK, Known, Charts
<1> QED
    BY <1>1, <1>2, <1>4, NothingIsNone DEF BakeEnds, opens, clocks, IInv, LibraryOK, ImportOK,
        OpensOK, FlagsOK, ClocksOK, ClockRuns, ReadoutsRun, AwaitedIsPolled, ClosedIsExplained,
        UntriedIsUntouched

\* The bake is found over: what it wrote under is unread again.
LEMMA TickBakeKeeps == ASSUME IInv, TickBake PROVE IInv'
<1>1. bake \in Bakes /\ bake' = None /\ tried
    BY DEF TickBake, IInv, ImportOK, ClocksOK, UntriedIsUntouched
<1>2. UNCHANGED <<work, flag, looking, opened, chart, nothing, failed, setup, linked, tried>>
    BY DEF TickBake
<1>3. ListOK(lib') /\ Known(lib', work, None)
    <2>1. CASE bake.of \in lib.listed
        BY <1>1, <2>1, Unreading DEF TickBake, IInv, LibraryOK, Known
    <2>2. CASE bake.of \notin lib.listed
        BY <1>1, <2>2 DEF TickBake, IInv, LibraryOK, ListOK, Known
    <2> QED
        BY <2>1, <2>2
<1>4. CASE /\ bake.of \in Sets /\ AwaitSetScan(bake.of, FALSE) /\ UNCHANGED <<opening, afterWrite>>
    <2>1. pending' \in Awaits /\ clock' = (clock \/ ~setup.showing) /\ clock' \in BOOLEAN
        BY <1>4 DEF AwaitSetScan, Awaits
    <2>2. ClocksOK'
        BY <1>1, <1>2, <1>4, <2>1 DEF IInv, ClocksOK, ClockRuns, ReadoutsRun, AwaitedIsPolled,
            ClosedIsExplained, UntriedIsUntouched
    <2> QED
        BY <1>1, <1>2, <1>3, <1>4, <2>1, <2>2 DEF IInv, LibraryOK, ImportOK, OpensOK, FlagsOK
<1>5. CASE /\ opening' \in Opens \cup {None} /\ afterWrite' \in BOOLEAN
           /\ opening # None => opening' # None
           /\ UNCHANGED <<pending, clock>>
    <2>1. ClocksOK'
        BY <1>1, <1>2, <1>5 DEF IInv, ClocksOK, ClockRuns, ReadoutsRun, AwaitedIsPolled,
            ClosedIsExplained, UntriedIsUntouched
    <2> QED
        BY <1>1, <1>2, <1>3, <1>5, <2>1 DEF IInv, LibraryOK, ImportOK, OpensOK, FlagsOK
<1>6. CASE OpenPaths(OnDisk(Library, work), Library, TRUE) /\ UNCHANGED <<pending, clock>>
    <2>1. Library \in Rows /\ OnDisk(Library, work) \in SUBSET Charts
        BY Lying DEF Rows, IInv, LibraryOK
    <2> QED
        BY <1>5, <1>6, <2>1, Putting
<1>7. CASE UNCHANGED <<opening, afterWrite, pending, clock>>
    BY <1>5, <1>7 DEF IInv, OpensOK, FlagsOK
<1> QED
    BY <1>4, <1>6, <1>7 DEF TickBake

\* Nothing happens.
LEMMA StutterKeeps == ASSUME IInv, UNCHANGED vars PROVE IInv'
BY DEF vars, list, import, opens, clocks, bounds, IInv, LibraryOK, ImportOK, OpensOK, FlagsOK,
    ClocksOK, ClockRuns, ReadoutsRun, AwaitedIsPolled, ClosedIsExplained, UntriedIsUntouched

-------------------------------------------------------------------------------
\* Every step keeps the inductive invariant.
THEOREM NextIInv == IInv /\ [Next]_vars => IInv'
<1> SUFFICES ASSUME IInv, [Next]_vars PROVE IInv'
    OBVIOUS
<1>1. ASSUME NEW r \in Rows, CoreScan(r) \/ SetChartSetOn(r) \/ RemoveChartSet(r) PROVE IInv'
    BY <1>1, CoreScanKeeps, SetChartSetOnKeeps, RemoveChartSetKeeps
<1>2. ASSUME NEW d \in Sets, ImportFolder(d) \/ OpenRecent(d) PROVE IInv'
    BY <1>2, ImportFolderKeeps, OpenRecentKeeps
<1>3. CASE ImportFile \/ FinishImport \/ BakeRasterSources \/ TryOpen \/ DoOpenPaths
    BY <1>3, ImportFileKeeps, FinishImportKeeps, BakeRasterSourcesKeeps, TryOpenKeeps,
       DoOpenPathsKeeps
<1>4. CASE ReadoutTick \/ FirstRunPoll \/ SetupStep \/ SetupEnds
    BY <1>4, ReadoutTickKeeps, FirstRunPollKeeps, SetupStepKeeps, SetupEndsKeeps
<1>5. CASE CancelBake \/ BakeEnds \/ TickBake
    BY <1>5, CancelBakeKeeps, BakeEndsKeeps, TickBakeKeeps
<1>6. CASE UNCHANGED vars
    BY <1>6, StutterKeeps
<1> QED
    BY <1>1, <1>2, <1>3, <1>4, <1>5, <1>6 DEF Next

\* The inductive invariant types the variables.
LEMMA Typed == IInv => TypeOK
<1> SUFFICES ASSUME IInv PROVE TypeOK
    OBVIOUS
<1>1. /\ lib.on \subseteq lib.listed /\ lib.scanned \subseteq lib.listed
      /\ lib.listed \subseteq Rows /\ lib.todo \subseteq lib.listed \cap Sets
      /\ \A r \in Rows : lib.draw[r] \subseteq Charts /\ (lib.draw[r] # {} => r \in lib.listed)
    BY DEF IInv, LibraryOK, ListOK, Lists
<1>2. {setup.showing, setup.clock, setup.putAway, setup.had} \subseteq BOOLEAN
    BY DEF IInv, FlagsOK, Setups
<1>3. {flag, looking, afterWrite, nothing, clock, linked, tried, failed} \subseteq BOOLEAN
    BY DEF IInv, FlagsOK
<1> QED
    BY <1>1, <1>2, <1>3 DEF IInv, LibraryOK, ImportOK, OpensOK, TypeOK, Works

\* The inductive invariant holds in every reachable state.
THEOREM IInvHolds == Spec => []IInv
BY InitIInv, NextIInv, PTL DEF Spec

\* The variables keep their types.
THEOREM TypeHolds == Spec => []TypeOK
BY IInvHolds, Typed, PTL

\* The readout clock runs while charts are open and while a set is waited for (Open.cpp,
\* ChartSets.cpp: four handlers start it and three stop it).
THEOREM ClockHolds == Spec => []ClockRuns
BY IInvHolds, PTL DEF IInv, ClocksOK

\* A set leaves the list only with its prepared charts.
LEMMA Removing ==
    ASSUME IInv, [Next]_vars, NEW d \in Sets, d \in lib.listed, d \notin lib'.listed
    PROVE  work'[d] = "none"
<1>1. d \in Rows /\ d \in Charts /\ ListOK(lib)
    BY DEF Rows, Charts, IInv, LibraryOK
<1>2. ASSUME NEW r \in Rows, RemoveChartSet(r) PROVE work'[d] = "none"
    <2>1. r = d
        BY <1>1, <1>2, Dropping DEF RemoveChartSet
    <2> QED
        BY <1>1, <1>2, <2>1 DEF RemoveChartSet, DeletePreparedCharts
<1>3. CASE ReadoutTick \/ FirstRunPoll
    BY <1>3, Polling DEF ReadoutTick, FirstRunPoll
<1>4. CASE UNCHANGED lib
    BY <1>4
<1>5. ASSUME NEW r \in Rows, CoreScan(r) \/ SetChartSetOn(r) PROVE d \in lib'.listed
    BY <1>1, <1>5 DEF CoreScan, SetChartSetOn, ListOK, Lists
<1>6. CASE DoOpenPaths
    BY <1>1, <1>6 DEF DoOpenPaths, OpenLands, OpenFails, Adopt, Added, Unread, ListOK, Lists
<1>7. ASSUME NEW e \in Sets, ImportFolder(e) \/ OpenRecent(e) PROVE d \in lib'.listed
    BY <1>1, <1>7 DEF ImportFolder, OpenRecent, list, Added, Unread, ListOK, Lists
<1>8. CASE TickBake
    BY <1>1, <1>8 DEF TickBake, Unread, ListOK, Lists
<1>9. CASE \/ ImportFile \/ FinishImport \/ BakeRasterSources \/ TryOpen \/ SetupStep
           \/ SetupEnds \/ CancelBake \/ BakeEnds \/ UNCHANGED vars
    BY <1>4, <1>9 DEF ImportFile, FinishImport, BakeRasterSources, TryOpen, SetupStep, SetupEnds,
        CancelBake, BakeEnds, list, vars
<1> QED
    BY <1>2, <1>3, <1>5, <1>6, <1>7, <1>8, <1>9 DEF Next

\* A removal leaves none of the prepared charts on the disk (RemoveChartSet,
\* FinishPendingSet).
THEOREM RemovalHolds == Spec => RemovedLeavesNothing
<1>1. IInv /\ [Next]_vars =>
        [\A d \in Sets : d \in lib.listed /\ d \notin lib'.listed => work'[d] = "none"]_vars
    BY Removing
<1> QED
    BY <1>1, IInvHolds, PTL DEF Spec, RemovedLeavesNothing
===============================================================================
