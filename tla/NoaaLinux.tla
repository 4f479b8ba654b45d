------------------------------- MODULE NoaaLinux -------------------------------
(***************************************************************************)
(* The Linux shell over the NOAA service: the service's wrapper with the   *)
(* orders it follows (src/linux/src/model/noaa.c), setup's card and its    *)
(* steps (ui/firstrun), and the picker's window (ui/charts/noaa-window.c). *)
(*                                                                         *)
(* Every handler runs on GTK's main loop and ends with the card told what  *)
(* moved, so the facts setup acts on are those of the present state.  A    *)
(* handler is a function of the pair w = [j: the service, a: the shell].   *)
(***************************************************************************)
EXTENDS NoaaJob, FirstRun

LinuxNewApp == [
    follow |-> 0,           \* the run followed: LkNoaa.run
    preparing |-> FALSE,    \* the prepare as last told of
    pick |-> "none",        \* the regions ticked
    open |-> FALSE,         \* a chart with cells in it is open
    opening |-> FALSE,      \* a reopen of the library is under way
    link |-> FALSE,         \* an online chart is on
    picker |-> "none",      \* the picker's window: seeded or not, or asking
    base |-> "none",        \* the picker's baseline
    kept |-> FALSE]         \* the importing step has a report of the bake

LinuxAppType ==
    [follow : 0..MaxRuns, preparing : BOOLEAN, pick : Picks, open : BOOLEAN,
     opening : BOOLEAN, link : BOOLEAN, picker : {"none", "up", "seeded", "asking"},
     base : Picks, kept : BOOLEAN]

-------------------------------------------------------------------------------
(* what the card reads                                                       *)

Scanning(j) == j.listed /\ j.scan = "running"

\* lk_first_run_flow_note, with lk_app_model_get_nothing_to_draw and the others.
LinuxFacts(j, a) ==
    [ready |-> j.cat, picked |-> a.pick # "none", link |-> a.link,
     nothing |-> ~a.open /\ ~a.opening /\ ~j.charts, has |-> j.charts,
     work |-> a.preparing \/ Scanning(j), loading |-> j.phase = "downloading",
     open |-> a.open, outcome |-> j.outcome, run |-> j.run]

\* lookout_setup_state, which ::changed compares field by field.
View(s, f) ==
    [setup |-> [s EXCEPT !.orderRun = 0, !.away = FALSE, !.had = FALSE],
     should |-> ShouldRun(s, f), back |-> CanGoBack(s, f),
     primary |-> s.showing /\ PrimaryEnabled(s, f), ended |-> ImportEnded(s, f)]

\* A button of the footer can be pressed.
Footer(b, s, f) ==
    LET stop == s.step = "importing" /\ ~ImportEnded(s, f) /\ ~PrimaryEnabled(s, f)
    IN  /\ s.showing
        /\ CASE b = "primary" -> PrimaryEnabled(s, f)
             [] b = "later"   -> s.step = "welcome"
             [] b = "stop"    -> stop
             [] OTHER         -> CanGoBack(s, f) /\ ~stop

\* The phases of the importing step for a NOAA order: 0 waits, 1 is under way,
\* 2 is done.
Phases(j, a) ==
    LET loading == j.phase = "downloading"
        finding == a.preparing /\ j.stage # "bake"
        pending == ~a.preparing /\ ~a.kept
    IN  [download |-> IF loading THEN 1 ELSE 2,
         find     |-> IF loading \/ pending THEN 0 ELSE IF finding THEN 1 ELSE 2,
         import   |-> IF a.preparing /\ ~finding THEN 1
                      ELSE IF loading \/ pending \/ finding THEN 0 ELSE 2]

-------------------------------------------------------------------------------
(* the wrapper                                                               *)

\* lk_noaa_follow: the followed run is told once, a failure in an alert.
Followed(w) ==
    IF w.a.follow # 0 /\ w.j.run = w.a.follow /\ w.j.outcome # "running"
    THEN [w EXCEPT !.a.follow = 0] ELSE w

\* lk_app_model_recompose_library
Recomposed(w) ==
    [w EXCEPT !.a.opening = w.j.charts, !.a.open = @ /\ w.j.charts]

\* lk_noaa_prepare: the end of a prepare opens the chart on what it made.
Prepared(w) ==
    LET now == w.j.stage # "none"
        s == [w EXCEPT !.a.preparing = now]
    IN  IF w.a.preparing /\ ~now THEN Recomposed(s) ELSE s

\* Sync that tells no end but of a prepare.
SyncUnfollowed(w) == Prepared([w EXCEPT !.j = Adopt(@)])

\* lk_noaa_sync with lk_noaa_flow
Sync(w) == Prepared(Followed([w EXCEPT !.j = Adopt(@)]))

\* lk_noaa_ordered
Ordered(before, w) ==
    IF w.j.run = before THEN w ELSE Followed([w EXCEPT !.a.follow = w.j.run])

\* lk_noaa_order_download, with a plan of that many transfers.  Where the
\* directory cannot be made there is only an alert.
LinuxOrderDownload(w, plan, disk) ==
    IF ~disk THEN w
    ELSE Ordered(w.j.run, Sync([w EXCEPT !.j = StartRun(@, plan, TRUE)]))

\* lk_noaa_order_apply
LinuxOrderApply(w, gone, reaches, plan) ==
    LET some == w.a.pick # "none"
        s == Sync([w EXCEPT !.j = ApplyPicks(@, some, gone, reaches, plan, TRUE)])
    IN  Ordered(w.j.run, IF GaveBack(w.j, some, gone) THEN Recomposed(s) ELSE s)

\* lk_noaa_refresh
Refreshed(w, cached) == Sync([w EXCEPT !.j = RefreshCatalog(@, cached)])

\* lk_noaa_window_seed: the water held is ticked once both are known.
Seeded(w) ==
    IF w.a.picker = "up" /\ w.j.cat /\ ~Scanning(w.j)
    THEN LET p == IF w.j.charts THEN "some" ELSE w.a.pick
         IN  [w EXCEPT !.a.picker = "seeded", !.a.pick = p, !.a.base = p]
    ELSE w

\* The end of a handler: the picker and the card are told.
LinuxDone(w, s) ==
    LET e == Seeded(w)
        n == Note(s, LinuxFacts(e.j, e.a))
        again == View(n, LinuxFacts(e.j, e.a)) # View(setup, LinuxFacts(job, app))
    IN  /\ job' = e.j
        /\ setup' = n
        /\ app' = [e.a EXCEPT !.kept = n.showing /\ n.step = "importing"
                                       /\ (e.j.stage = "bake" \/ (@ /\ ~again))]

LinuxNow == [j |-> job, a |-> app]

-------------------------------------------------------------------------------
(* the main loop                                                             *)

\* lk_noaa_woken
LinuxWoken ==
    /\ owed /\ owed' = FALSE
    /\ LET w == Sync(LinuxNow)
       IN  LinuxDone(w, setup) /\ dirty' = (dirty \/ Notes(job, w.j))

\* lk_app_model_sets_changed; an update check may read the catalog.
SetsChanged ==
    /\ dirty
    /\ \E due \in BOOLEAN :
          /\ due => job.charts
          /\ LET w == Sync(IF due THEN [LinuxNow EXCEPT !.j = RefreshCatalog(@, FALSE)]
                           ELSE LinuxNow)
             IN  LinuxDone(w, setup) /\ dirty' = Notes(job, w.j)
    /\ UNCHANGED owed

\* The reopen lands.
OpenEnds ==
    /\ app.opening
    /\ LinuxDone([LinuxNow EXCEPT !.a.opening = FALSE, !.a.open = TRUE], setup)
    /\ UNCHANGED <<owed, dirty>>

\* lk_first_run_consider, of a window that is neither loading, drawing nor baking.
Consider ==
    /\ ~app.open /\ ~app.opening /\ ~app.preparing
    /\ ShouldRun(setup, LinuxFacts(job, app))
    /\ LinuxDone(LinuxNow, BeginAt(setup, LinuxFacts(job, app), "welcome", FALSE))
    /\ UNCHANGED <<owed, dirty>>

-------------------------------------------------------------------------------
(* the card                                                                  *)

\* The coverage step reads the catalog when it is built without one.
Entered(s, cached) ==
    IF s.showing /\ s.step = "coverage" /\ ~job.cat THEN Refreshed(LinuxNow, cached)
    ELSE LinuxNow

StepMoved(s) ==
    \E cached \in Caches :
       LET w == Entered(s, cached)
       IN  LinuxDone(w, s) /\ dirty' = (dirty \/ Notes(job, w.j))

\* lk_first_run_primary_clicked on a step but the coverage one
LinuxPrimaryClicked ==
    /\ Footer("primary", setup, LinuxFacts(job, app)) /\ setup.step # "coverage"
    /\ ~setup.terms
    /\ \E source \in {"noaa", "online", "files"} :
          /\ setup.step = "source" \/ source = "noaa"
          /\ StepMoved(Advance(setup, LinuxFacts(job, app), source))
    /\ UNCHANGED owed

\* the same on the coverage step: lk_first_run_place_order
LinuxDownload ==
    /\ Footer("primary", setup, LinuxFacts(job, app)) /\ setup.step = "coverage"
    /\ \E plan \in Plans, disk \in BOOLEAN :
          LET w == LinuxOrderDownload(LinuxNow, plan, disk)
          IN  /\ w.j.run <= MaxRuns
              /\ LinuxDone(w, Advance(setup, LinuxFacts(job, app), "noaa"))
              /\ dirty' = (dirty \/ Notes(job, w.j))
    /\ UNCHANGED owed

LinuxTerms ==
    /\ setup.terms
    /\ StepMoved(Agree(setup)) \/ StepMoved(Decline(setup))
    /\ UNCHANGED owed

LinuxBackClicked ==
    /\ Footer("back", setup, LinuxFacts(job, app))
    /\ StepMoved(Back(setup, LinuxFacts(job, app)))
    /\ UNCHANGED owed

LinuxLaterClicked ==
    /\ Footer("later", setup, LinuxFacts(job, app))
    /\ StepMoved(Finish(setup))
    /\ UNCHANGED owed

StopClicked ==
    /\ Footer("stop", setup, LinuxFacts(job, app))
    /\ LET w == Sync([LinuxNow EXCEPT !.j = Cancel(@)])
       IN  LinuxDone(w, setup) /\ dirty' = (dirty \/ Notes(job, w.j))
    /\ UNCHANGED owed

\* lk_online_use: the chart picked from the shelf is on.
LinuxUseLink ==
    /\ setup.showing /\ setup.step = "online" /\ ~app.link
    /\ LinuxDone([LinuxNow EXCEPT !.a.link = TRUE], setup)
    /\ UNCHANGED <<owed, dirty>>

-------------------------------------------------------------------------------
(* the picks, the picker's window and the alert                              *)

Picking == (setup.showing /\ setup.step = "coverage") \/ app.picker = "seeded"

\* lk_noaa_toggle
LinuxToggle ==
    /\ Picking /\ job.cat
    /\ LinuxDone([LinuxNow EXCEPT !.a.pick = IF @ = "none" THEN "some" ELSE "none"], setup)
    /\ UNCHANGED <<owed, dirty>>

\* lk_noaa_catalog_retry: the line under the map offers another read.
ReadAgain ==
    /\ Picking \/ app.picker = "up"
    /\ ~job.cat /\ job.reading = "no"
    /\ \E cached \in Caches :
          LET w == Refreshed(LinuxNow, cached)
          IN  LinuxDone(w, setup) /\ dirty' = (dirty \/ Notes(job, w.j))
    /\ UNCHANGED owed

\* lk_noaa_window_present
Present ==
    /\ app.picker = "none" /\ ~setup.showing
    /\ \E cached \in Caches :
          LET s == [LinuxNow EXCEPT !.a.picker = "up"]
              w == IF job.cat THEN s ELSE Refreshed(s, cached)
          IN  LinuxDone(w, setup) /\ dirty' = (dirty \/ Notes(job, w.j))
    /\ UNCHANGED owed

\* lk_noaa_window_free
PickerClosed(w) == [w EXCEPT !.a.picker = "none", !.a.pick = "none", !.a.base = "none"]

ClosePicker ==
    /\ app.picker # "none"
    /\ LinuxDone(PickerClosed(LinuxNow), setup)
    /\ UNCHANGED <<owed, dirty>>

GivesBack == app.pick = "none" /\ app.base = "some"

\* lk_noaa_window_download: taking charts out is asked about first.
LinuxAskRemove ==
    /\ app.picker = "seeded" /\ GivesBack
    /\ LinuxDone([LinuxNow EXCEPT !.a.picker = "asking"], setup)
    /\ UNCHANGED <<owed, dirty>>

LinuxKeepThem ==
    /\ app.picker = "asking"
    /\ LinuxDone([LinuxNow EXCEPT !.a.picker = "seeded"], setup)
    /\ UNCHANGED <<owed, dirty>>

\* lk_noaa_window_apply; with the water still picked some of it may be given back.
ApplyPick ==
    /\ \/ app.picker = "asking"
       \/ app.picker = "seeded" /\ app.pick # app.base /\ ~GivesBack
    /\ \E gone, reaches \in BOOLEAN, plan \in Plans :
          /\ app.pick = "none" => reaches /\ ~gone /\ plan = 0
          /\ reaches => app.pick = "none" \/ job.phase = "downloading"
          /\ LET w == LinuxOrderApply(LinuxNow, gone, reaches, plan)
             IN  /\ w.j.run <= MaxRuns
                 /\ LinuxDone(PickerClosed(w), setup)
                 /\ dirty' = (dirty \/ Notes(job, w.j))
    /\ UNCHANGED owed

\* lk_noaa_window_again: the whole pick is fetched again.
Again ==
    /\ app.picker = "seeded" /\ job.cat /\ app.pick # "none" /\ job.charts
    /\ LET w == LinuxOrderDownload(LinuxNow, 2, TRUE)
       IN  /\ w.j.run <= MaxRuns
           /\ LinuxDone(PickerClosed(w), setup) /\ dirty' = (dirty \/ Notes(job, w.j))
    /\ UNCHANGED owed

\* lk_noaa_retry, from the alert over the last run
Retry ==
    /\ app.follow = 0 /\ job.outcome \in {"failed", "refused"} /\ job.retry
    /\ \E plan \in Plans :
          LET w == LinuxOrderDownload(LinuxNow, plan, TRUE)
          IN  /\ w.j.run <= MaxRuns
              /\ LinuxDone(w, setup) /\ dirty' = (dirty \/ Notes(job, w.j))
    /\ UNCHANGED owed

-------------------------------------------------------------------------------
LinuxLaunch ==
    /\ job = Idle /\ owed = FALSE /\ dirty = FALSE
    /\ app = LinuxNewApp /\ setup = NewSetup

LinuxOutside == Elsewhere /\ UNCHANGED <<app, setup>>
Loop == LinuxWoken \/ SetsChanged \/ OpenEnds \/ Consider
LinuxCard ==
    LinuxPrimaryClicked \/ LinuxDownload \/ LinuxTerms \/ LinuxBackClicked
    \/ LinuxLaterClicked \/ StopClicked \/ LinuxUseLink
LinuxPicker ==
    LinuxToggle \/ ReadAgain \/ Present \/ ClosePicker \/ LinuxAskRemove \/ LinuxKeepThem
    \/ ApplyPick \/ Again \/ Retry
===============================================================================
