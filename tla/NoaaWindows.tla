------------------------------ MODULE NoaaWindows ------------------------------
(***************************************************************************)
(* The Windows shell over the NOAA service: the copy of the service's      *)
(* state it works from (library/lk_noaa), setup's card and the picker      *)
(* (firstrun/ui), and the clocks behind them.  The card is drawn from the  *)
(* copy, which only NoaaChanged moves: a wake, a tick of the readouts, or  *)
(* an order the window has just placed.  A handler is a function of        *)
(* w = [j: the service, a: the window, s: setup, d: the sets have moved].  *)
(***************************************************************************)
EXTENDS NoaaJob, FirstRun

WinNewApp == [
    st |-> Published(Idle),  \* noaa.state()
    watch |-> 0,        \* watch_run_
    pending |-> FALSE,  \* pending_set: the scan the library opens after
    clock |-> FALSE,    \* first_run_timer
    ticks |-> FALSE,    \* readout_timer
    pick |-> "none", base |-> "none", seeded |-> FALSE,
    asked |-> FALSE,    \* noaa_catalog_asked
    asking |-> FALSE,   \* the question before charts are deleted
    open |-> FALSE,     \* chart_has_cells
    nothing |-> FALSE,  \* setup_nothing_to_draw
    link |-> FALSE]

WinAppType ==
    [st : [cat : BOOLEAN, phase : {"idle", "reading", "ready", "downloading"},
           preparing : BOOLEAN, outcome : {"none", "running"} \cup Ends,
           run : 0..MaxRuns, retry : BOOLEAN],
     watch : 0..(MaxRuns + 1), pending : BOOLEAN,
     clock : BOOLEAN, ticks : BOOLEAN, pick : Picks, base : Picks, seeded : BOOLEAN,
     asked : BOOLEAN, asking : BOOLEAN, open : BOOLEAN, nothing : BOOLEAN,
     link : BOOLEAN]

-------------------------------------------------------------------------------
(* setup's facts                                                             *)

\* SetupFacts
WinFacts(w) ==
    [ready |-> w.a.st.cat, picked |-> w.a.pick # "none", link |-> w.a.link,
     nothing |-> w.a.nothing, has |-> w.j.charts,
     work |-> w.a.st.preparing \/ w.a.pending,
     loading |-> w.a.st.phase = "downloading", open |-> w.a.open,
     outcome |-> w.a.st.outcome, run |-> w.a.st.run]

\* SetupNote
Noted(w) == [w EXCEPT !.s = Note(@, WinFacts(w))]

-------------------------------------------------------------------------------
(* drawing the card                                                          *)

\* FirstRunCoverage: the step asks for a catalog once, and a picker opens ticked
\* on the water held.
Covered(w, cached) ==
    LET st == w.a.st
        ask == ~st.cat /\ st.phase # "reading" /\ ~w.a.asked
        seed == st.cat /\ w.s.only /\ ~w.a.seeded
        held == IF w.j.charts THEN "some" ELSE "none"
    IN  [w EXCEPT !.j = IF ask THEN RefreshCatalog(@, cached) ELSE @,
                  !.a.asked = (@ \/ ask) /\ ~st.cat,
                  !.a.seeded = @ \/ seed,
                  !.a.base = IF seed THEN held ELSE @,
                  !.a.pick = IF seed /\ w.j.charts THEN held ELSE @]

\* OpenPaths of what the sets compose
WinOpened(w) == [w EXCEPT !.a.open = TRUE, !.a.nothing = FALSE, !.a.ticks = TRUE]

\* FirstRunRender with FirstRunRestate and FirstRunPollAsNeeded.  Putting the card
\* away opens what was installed under it.
Render(w, cached) ==
    LET n == Noted(w)
    IN  IF ~n.s.showing
        THEN LET o == IF ~n.a.open /\ n.j.charts THEN WinOpened(n) ELSE n
             IN  [o EXCEPT !.a.clock = FALSE, !.a.ticks = TRUE]
        ELSE Noted([(IF n.s.step = "coverage" THEN Covered(n, cached) ELSE n)
                       EXCEPT !.a.clock = n.a.pending])

-------------------------------------------------------------------------------
(* following the service                                                     *)

\* NoaaService::Adopt
ReadService(w) ==
    LET j == Adopt(w.j)
    IN  [w EXCEPT !.j = j, !.a.st = Published(j), !.d = @ \/ Notes(w.j, j)]

\* FinishPendingSet
Pended(w, cached) ==
    CASE ~w.a.pending -> w
      [] w.a.pending /\ ~w.j.listed -> [w EXCEPT !.a.pending = FALSE]
      [] w.a.pending /\ w.j.listed /\ w.j.scan = "running" -> w
      [] OTHER ->
            LET o == [w EXCEPT !.a.pending = FALSE]
                p == IF w.j.charts THEN WinOpened(o) ELSE o
            IN  IF w.s.showing THEN Render(p, cached) ELSE p

\* TakeEnd: charts of a run that ended are opened after their set's scan.
TakeEnd(w, cached) ==
    LET st == w.a.st
        over == w.a.watch # 0 /\ st.run = w.a.watch /\ st.outcome \in Ends
        some == st.outcome = "finished" \/ (st.outcome = "cancelled" /\ w.j.done)
        told == [w EXCEPT !.a.watch = 0]
    IN  CASE ~over -> w
          [] over /\ ~some -> told
          [] OTHER -> Pended([told EXCEPT !.a.pending = TRUE,
                                          !.a.ticks = @ \/ ~w.s.showing], cached)

\* What PollChartSets does with the rows it has read again.
Landed(w, cached) ==
    LET n == Noted(w)
    IN  CASE n.a.pending -> Pended(n, cached)
          [] ~n.a.pending /\ n.j.charts /\ ~n.a.open -> WinOpened(n)
          [] OTHER -> n

\* The end of FirstRunPoll
ShownAgain(w, cached) ==
    LET n == Noted(w)
    IN  IF n.s.step \in {"importing", "coverage"} THEN Render(n, cached)
        ELSE [n EXCEPT !.a.clock = n.s.showing /\ n.a.pending]

\* NoaaChanged.  The poll it ends with finds nothing more to adopt.
Changed(w, cached) ==
    LET r == ReadService(w)
        e == TakeEnd(r, cached)
    IN  CASE r.a.st = w.a.st -> r
          [] r.a.st # w.a.st /\ ~w.s.showing -> e
          [] OTHER -> ShownAgain(IF e.d THEN Landed([e EXCEPT !.d = FALSE], cached) ELSE e,
                            cached)

\* PollChartSets
PollSets(w, cached) ==
    IF ~w.d THEN w ELSE Landed(Changed([w EXCEPT !.d = FALSE], cached), cached)

\* FirstRunPoll
FirstRunPoll(w, cached) == ShownAgain(PollSets(w, cached), cached)

\* NoaaDownload
WinOrderDownload(w, plan, disk, cached) ==
    Changed([w EXCEPT !.a.watch = w.a.st.run + 1, !.j = StartRun(@, plan, disk)], cached)

\* ReopenChartSets while the card is up
Reopened(w) ==
    IF w.j.charts THEN WinOpened(w) ELSE [w EXCEPT !.a.open = FALSE, !.a.nothing = TRUE]

\* NoaaApply: the chart closes before water goes back.
WinOrderApply(w, gone, reaches, plan, cached) ==
    LET some == w.a.pick # "none"
        j == ApplyPicks(w.j, some, gone, reaches, plan, TRUE)
        s == [w EXCEPT !.j = j, !.d = @ \/ Notes(w.j, j), !.a.open = @ /\ ~gone,
                       !.a.watch = IF some THEN w.a.st.run + 1 ELSE 0]
    IN  IF gone THEN Reopened(Changed(s, cached)) ELSE Changed(s, cached)

WinNow == [j |-> job, a |-> app, s |-> setup, d |-> dirty]

WinDone(w) == job' = w.j /\ app' = w.a /\ setup' = w.s /\ dirty' = w.d

-------------------------------------------------------------------------------
(* the window's clocks and wakes                                             *)

\* NoaaWakeThunk's post
WinWoken ==
    /\ owed /\ owed' = FALSE
    /\ \E cached \in Caches : WinDone(Changed(WinNow, cached))

\* The readouts' tick polls the sets and the service.
ReadoutTick ==
    /\ app.ticks
    /\ \E cached \in Caches : WinDone(Changed(PollSets(WinNow, cached), cached))
    /\ UNCHANGED owed

SetupTick ==
    /\ app.clock
    /\ \E cached \in Caches : WinDone(FirstRunPoll(WinNow, cached))
    /\ UNCHANGED owed

\* OpenBasemapForSetup and FirstRunBegin, at a launch with no charts
OpenBasemap ==
    /\ ~app.nothing /\ ~app.open /\ ~job.charts /\ job.run = 0
    /\ \E cached \in Caches :
          LET w == Noted([WinNow EXCEPT !.a.nothing = TRUE, !.j = RefreshCatalog(@, cached)])
          IN  WinDone(IF ~ShouldRun(w.s, WinFacts(w)) THEN w
                   ELSE Render([w EXCEPT !.a.ticks = FALSE,
                                         !.s = BeginAt(@, WinFacts(w), "welcome", FALSE)],
                               cached))
    /\ UNCHANGED owed

-------------------------------------------------------------------------------
(* the card                                                                  *)

Up == setup.showing /\ ~app.asking /\ ~setup.terms

Acted(s) ==
    /\ \E cached \in Caches : WinDone(Render([WinNow EXCEPT !.s = s], cached))
    /\ UNCHANGED owed

Noticed == Note(setup, WinFacts(WinNow))

\* FirstRunPrimary on a step but the coverage one.  Raising the terms draws
\* nothing.
WinPrimaryClicked ==
    /\ Up /\ setup.step # "coverage" /\ PrimaryEnabled(setup, WinFacts(WinNow))
    /\ \E source \in {"noaa", "online", "files"} :
          /\ setup.step = "source" \/ source = "noaa"
          /\ LET s == Advance(Noticed, WinFacts(WinNow), source)
             IN  IF s.terms THEN WinDone([WinNow EXCEPT !.s = s]) /\ UNCHANGED owed
                 ELSE Acted(s)

WinTerms == setup.terms /\ (Acted(Agree(Noticed)) \/ Acted(Decline(Noticed)))

\* Back through the flow, or Cancel of a step opened on its own.
WinBackClicked ==
    /\ Up
    /\ \/ setup.only /\ Acted(Finish(Noticed))
       \/ ~setup.only /\ CanGoBack(setup, WinFacts(WinNow))
          /\ Acted(Back(Noticed, WinFacts(WinNow)))

WinLaterClicked == Up /\ setup.step = "welcome" /\ Acted(Finish(Noticed))

\* FirstRunPrimary of the coverage step in setup
WinDownload ==
    /\ Up /\ setup.step = "coverage" /\ ~setup.only
    /\ PrimaryEnabled(setup, WinFacts(WinNow))
    /\ \E plan \in Plans, disk \in BOOLEAN, cached \in Caches :
          LET s == Advance(Noticed, WinFacts(WinNow), "noaa")
              w == WinOrderDownload([WinNow EXCEPT !.s = s], plan, disk, cached)
          IN  w.j.run <= MaxRuns /\ WinDone(Render(w, cached))
    /\ UNCHANGED owed

\* Stop on the Preparing step draws the card from the copy as it was.  A fetch
\* that is stopped still answers, and wakes the window.
WinStop ==
    /\ Up /\ setup.step = "importing" /\ (app.st.phase = "downloading" \/ app.st.preparing)
    /\ ~ImportEnded(setup, WinFacts(WinNow))
    /\ \E cached \in Caches : WinDone(Render([WinNow EXCEPT !.j = Cancel(@)], cached))
    /\ owed' = (owed \/ "out" \in {job.cell, job.reading})

WinUseLink ==
    /\ setup.showing /\ setup.step = "online" /\ ~app.link
    /\ WinDone(Noted([WinNow EXCEPT !.a.link = TRUE]))
    /\ UNCHANGED owed

-------------------------------------------------------------------------------
(* the picker                                                                *)

\* ShowNoaaPicker, from the Charts pane
ShowPicker ==
    /\ ~setup.showing
    /\ \E cached \in Caches :
          LET w == [WinNow EXCEPT !.a.pick = "none", !.a.seeded = FALSE, !.a.base = "none",
                               !.j = RefreshCatalog(@, cached)]
              f == WinFacts(w)
          IN  WinDone(Render([w EXCEPT !.s = BeginAt(Note(@, f), f, "coverage", TRUE)],
                          cached))
    /\ UNCHANGED owed

WinToggle ==
    /\ Up /\ setup.step = "coverage" /\ app.st.cat
    /\ \E cached \in Caches :
          WinDone(Render([WinNow EXCEPT !.a.pick = IF @ = "none" THEN "some" ELSE "none"],
                      cached))
    /\ UNCHANGED owed

\* Try Again, beside a read that failed
TryAgain ==
    /\ Up /\ setup.step = "coverage" /\ app.st.phase # "reading"
    /\ ~app.st.cat /\ app.asked
    /\ \E cached \in Caches :
          WinDone(Render([WinNow EXCEPT !.j = RefreshCatalog(@, cached)], cached))
    /\ UNCHANGED owed

WinPicker == Up /\ setup.step = "coverage" /\ setup.only /\ app.st.cat

\* FirstRunPrimary with FirstRunAct, in a picker
Applied(gone, reaches, plan, cached) ==
    WinOrderApply([WinNow EXCEPT !.s = Advance(Noticed, WinFacts(WinNow), "noaa"),
                                 !.a.asking = FALSE],
                  gone, reaches, plan, cached)

\* Apply that only adds, or Again for water held whole
ApplyAdds ==
    /\ WinPicker /\ app.pick = "some"
    /\ \E reaches \in BOOLEAN, cached \in Caches :
          LET w == Applied(FALSE, reaches, 2, cached)
          IN  w.j.run <= MaxRuns /\ WinDone(Render(w, cached))
    /\ UNCHANGED owed

\* Apply that gives water back is asked about first.
WinAskRemove ==
    /\ WinPicker /\ app.base = "some"
    /\ app' = [app EXCEPT !.asking = TRUE]
    /\ UNCHANGED <<job, setup, owed, dirty>>

WinKeepThem ==
    /\ app.asking
    /\ app' = [app EXCEPT !.asking = FALSE]
    /\ UNCHANGED <<job, setup, owed, dirty>>

\* FirstRunConfirmRemoval: with water to fetch, the flow's own path; without, the
\* picker has done what it was opened for.
WinRemove ==
    /\ app.asking
    /\ \E reaches \in BOOLEAN, cached \in Caches, plan \in Plans :
          /\ app.pick = "none" => reaches /\ plan = 0
          /\ LET adds == Applied(TRUE, reaches, plan, cached)
                 only == WinOrderApply([WinNow EXCEPT !.a.asking = FALSE], TRUE, reaches, 0,
                                    cached)
                 w == IF plan > 0 THEN adds ELSE [only EXCEPT !.s = Finish(@)]
             IN  w.j.run <= MaxRuns /\ WinDone(Render(w, cached))
    /\ UNCHANGED owed

-------------------------------------------------------------------------------
(* the Charts pane and the alert                                             *)

\* NoaaService::Retry from the alert, or an update of what is held
OrderAgain ==
    /\ ~setup.showing /\ app.st.cat
    /\ \/ app.st.outcome \in {"failed", "refused"} /\ app.st.retry
       \/ job.charts
    /\ \E plan \in Plans, cached \in Caches :
          LET w == WinOrderDownload(WinNow, plan, TRUE, cached)
          IN  w.j.run <= MaxRuns /\ WinDone(w)
    /\ UNCHANGED owed

-------------------------------------------------------------------------------
WinLaunch ==
    /\ job = Idle /\ owed = FALSE /\ dirty = FALSE
    /\ app = WinNewApp /\ setup = NewSetup

WinOutside == Elsewhere /\ UNCHANGED <<app, setup>>
Clocks == WinWoken \/ ReadoutTick \/ SetupTick \/ OpenBasemap
WinCard ==
    WinPrimaryClicked \/ WinTerms \/ WinBackClicked \/ WinLaterClicked \/ WinDownload
    \/ WinStop \/ WinUseLink
Pane ==
    ShowPicker \/ WinToggle \/ TryAgain \/ ApplyAdds \/ WinAskRemove \/ WinKeepThem
    \/ WinRemove \/ OrderAgain
===============================================================================
