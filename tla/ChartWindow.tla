------------------------------ MODULE ChartWindow ------------------------------
(***************************************************************************)
(* The Linux chart window around one open chart: the frame loop that runs  *)
(* on demand (src/linux/src/engine/controller.c), the surface under the    *)
(* hole (ui/chart/view.c), and what a click leaves over the chart: the     *)
(* menu, the pick report, the pinned bubble (ui/chart/overlay.c,           *)
(* model/app-model.c).                                                     *)
(*                                                                         *)
(* Everything here runs on GTK's main loop.  What comes from elsewhere is  *)
(* the core's: tessellation that lands, plugin traffic, a camera that      *)
(* eases or follows own ship.  The core's verdict on a frame is that of    *)
(* src/src/shell/frame.zig.  A camera is one of a few places.              *)
(***************************************************************************)
EXTENDS Naturals, ChartPlaces

TicksBeforeStop == 2

VARIABLES
    handle,    \* the open chart: "none", "empty" (of no charts) or "charts"
    layer,     \* a plugin layer is up
    cam, gliding, follow,  \* the core's camera, its ease or coast, its follow
    dirty, building,       \* needs_redraw; a tessellation is filling in
    quiet,     \* ticks_since_change
    tick,      \* tick_id: on the frame clock
    wake,      \* wake_id: the one-shot
    realized,  \* the widget is realized
    surface,   \* the native surface: "none", "blank" or what was drawn in it
    presented, \* the widget is a hole over the surface
    built,     \* first_build_done
    saved,     \* the pose in the store
    menu, pick,   \* the chart menu and the pick report are up
    pin,       \* overlay_pin, the model's
    bubble,    \* the bubble stands and its timer runs
    object     \* the plugin's object: "there", "silent" or "gone"

chart == <<handle, layer, cam, gliding, follow>>
frame == <<dirty, building, quiet, tick, wake>>
window == <<realized, surface, presented, built>>
over == <<menu, pick, pin, bubble>>
vars == <<chart, frame, window, saved, over, object>>

Init ==
    /\ handle = "none" /\ layer = FALSE
    /\ cam = World /\ gliding = FALSE /\ follow = FALSE
    /\ dirty = FALSE /\ building = FALSE /\ quiet = 0
    /\ tick = FALSE /\ wake = FALSE
    /\ realized = FALSE /\ surface = "none" /\ presented = FALSE /\ built = FALSE
    /\ saved \in Waters \cup {None}
    /\ menu = FALSE /\ pick = FALSE /\ pin = FALSE /\ bubble = FALSE
    /\ object = "gone"

Open == handle # "none"

\* Where the camera can go: the whole world is no view of the mariner's charts.
Reach == IF handle = "charts" THEN Waters ELSE Places

-------------------------------------------------------------------------------
(* the loop                                                                  *)

\* Kick that stops the one-shot and does not go back on the frame clock.
KickWithoutResume ==
    /\ quiet' = 0 /\ dirty' = TRUE
    /\ wake' = FALSE
    /\ UNCHANGED tick

\* lk_chart_controller_kick, with the core's frameKick, over an open chart.
Kick ==
    /\ quiet' = 0 /\ dirty' = TRUE
    /\ wake' = FALSE /\ tick' = TRUE

\* lk_chart_view_surface_ready
SurfaceReady == presented' = (presented \/ surface # "none")

\* RENDER, and lookout_render drew: the loader has done its job, and the pose
\* may be due.  A frame may leave a tessellation behind.
RenderDraws ==
    /\ surface' = cam'
    /\ SurfaceReady
    /\ built' = TRUE
    /\ dirty' = FALSE
    /\ building' \in {building, TRUE}
    /\ saved' \in IF handle = "charts" THEN {saved, cam'} ELSE {saved}

\* RENDER, and the swapchain had no image, or the library still loads.
RenderSkips == dirty' = TRUE /\ UNCHANGED <<surface, presented, built, building, saved>>

\* Ticks that find nothing to draw: the count, and whether to stop.
StillTicks ==
    /\ built' = TRUE
    /\ quiet' = IF building THEN 0 ELSE IF quiet > TicksBeforeStop THEN quiet ELSE quiet + 1
    /\ tick' = (building \/ quiet < TicksBeforeStop)
    /\ wake' = (wake \/ (~tick' /\ layer))
    /\ UNCHANGED <<dirty, building, surface, presented, saved>>

\* lk_chart_controller_tick: lookout_frame_next advances what glides, and the
\* verdict is to draw, or to wait, or to wait on the one-shot, or to stop.
Frame(drawn) ==
    /\ tick
    /\ \/ gliding /\ cam' \in Reach /\ gliding' \in BOOLEAN
       \/ ~gliding /\ UNCHANGED <<cam, gliding>>
    /\ IF gliding \/ dirty
       THEN /\ IF drawn THEN RenderDraws ELSE RenderSkips
            /\ quiet' = 0
            /\ UNCHANGED <<tick, wake>>
       ELSE ~drawn /\ StillTicks
    /\ UNCHANGED <<handle, layer, follow, realized, over, object>>

\* lk_chart_controller_wake, with lk_chart_controller_resume: no kick.
Wake ==
    /\ wake
    /\ wake' = FALSE
    /\ tick' = TRUE
    /\ UNCHANGED <<chart, dirty, building, quiet, window, saved, over, object>>

-------------------------------------------------------------------------------
(* the core beside it                                                        *)

\* A plugin posts, from its own thread: its object comes, goes or falls
\* silent, and own ship takes a following camera along.
PluginPosts ==
    /\ layer
    /\ object' \in {"there", "silent", "gone"}
    /\ cam' \in IF follow THEN Reach ELSE {cam}
    /\ dirty' = TRUE
    /\ UNCHANGED <<handle, layer, gliding, follow, building, quiet, tick, wake, window, saved, over>>

Tessellated ==
    /\ building
    /\ building' = FALSE /\ dirty' = TRUE
    /\ UNCHANGED <<chart, quiet, tick, wake, window, saved, over, object>>

-------------------------------------------------------------------------------
(* open and close                                                            *)

\* lookout_close writes the pose down when the handle holds the store.
PoseAtClose == IF handle = "charts" THEN cam ELSE saved

\* lk_chart_controller_close, with stop_tick.
Close ==
    /\ handle' = "none" /\ layer' = FALSE
    /\ gliding' = FALSE /\ follow' = FALSE
    /\ dirty' = FALSE /\ building' = FALSE /\ quiet' = 0
    /\ tick' = FALSE /\ wake' = FALSE
    /\ saved' = PoseAtClose
    /\ object' = "gone"

\* lk_chart_controller_open, over whatever is open: the store's pose for the
\* mariner's charts, the default view while there is none, and the plugins
\* loaded once more.  Nothing that lies over the chart is touched.
OpenChart(kind) ==
    /\ realized
    /\ handle' = kind
    /\ layer' \in BOOLEAN
    /\ saved' = PoseAtClose
    /\ cam' \in IF kind = "empty" THEN {World}
                ELSE IF saved' = None THEN Waters ELSE {saved'}
    /\ gliding' = FALSE /\ follow' = FALSE
    /\ Kick
    /\ building' = FALSE
    /\ surface' = IF surface = "none" THEN "blank" ELSE surface
    /\ built' = FALSE
    /\ object' = "gone"
    /\ UNCHANGED <<realized, presented, over>>

\* lk_chart_controller_open when there is no surface, or no handle comes back.
OpenFails ==
    /\ realized
    /\ Close
    /\ built' = FALSE
    /\ surface' \in {surface, IF surface = "none" THEN "blank" ELSE surface}
    /\ UNCHANGED <<cam, realized, presented, over>>

\* lk_chart_view_realize; what it opens is OpenChart.
Realize ==
    /\ ~realized
    /\ realized' = TRUE
    /\ UNCHANGED <<chart, frame, surface, presented, built, saved, over, object>>

\* lk_chart_view_unrealize: the chart closes before its surface goes.
Unrealize ==
    /\ realized
    /\ Close
    /\ realized' = FALSE
    /\ surface' = "none" /\ presented' = FALSE
    /\ menu' = FALSE
    /\ UNCHANGED <<cam, built, pick, pin, bubble>>

-------------------------------------------------------------------------------
(* what the mariner does to the chart                                        *)

\* lk_chart_controller_retire_pick: the report and the menu belong to the view
\* they were raised in.
Retire == pick' = FALSE /\ menu' = FALSE

\* A pan, zoom, turn or throw, a view that is set: the camera moves, the ease
\* and the coast with it, and a pan hands a followed chart back.
Move ==
    /\ Open
    /\ cam' \in Reach
    /\ gliding' \in BOOLEAN
    /\ follow' \in {follow, FALSE}
    /\ Kick
    /\ Retire
    /\ UNCHANGED <<handle, layer, building, window, saved, pin, bubble, object>>

\* lk_chart_controller_follow_set, course_up_set: with a fresh fix the chart
\* moves at once.
Follow(on) ==
    /\ Open
    /\ follow' = on
    /\ cam' \in IF on /\ layer THEN Reach ELSE {cam}
    /\ Kick
    /\ Retire
    /\ UNCHANGED <<handle, layer, gliding, building, window, saved, pin, bubble, object>>

\* lk_chart_controller_fling_start at rest: a press stops the coast.
Grab ==
    /\ Open
    /\ gliding' = FALSE
    /\ Kick
    /\ UNCHANGED <<handle, layer, cam, follow, building, window, saved, over, object>>

\* What the core draws anew, and the kick that has it drawn.
Change ==
    /\ Open
    /\ Kick
    /\ UNCHANGED <<handle, cam, gliding, follow, building, window, saved, over>>

\* set_mariner, the toggles; raster_add to set_chart_hidden; the chart links'
\* add to refresh, and an answer's last piece; resize and set_scale.
ChangeMariner == Change /\ UNCHANGED <<layer, object>>
ChangePictures == Change /\ UNCHANGED <<layer, object>>
ChangeLinks == Change /\ UNCHANGED <<layer, object>>
Resize == Change /\ UNCHANGED <<layer, object>>

\* plugin_install and uninstall: a layer may come up hot, and what an uninstalled plugin
\* drew goes with it.
ChangePlugins ==
    /\ Change
    /\ layer' \in {layer, TRUE}
    /\ object' \in {object, "gone"}

\* plugin_grant_set takes a revoked plugin's objects off, and kicks nothing.
Grant ==
    /\ layer
    /\ object' \in {object, "gone"}
    /\ dirty' = TRUE
    /\ UNCHANGED <<chart, building, quiet, tick, wake, window, saved, over>>

-------------------------------------------------------------------------------
(* what a click leaves over the chart                                        *)

\* lk_app_model_pin_overlay with the object's id, and lk_overlay_bubble_notify:
\* the id that is pinned already changes nothing.
Pin(p) ==
    IF pin THEN pick' = p /\ UNCHANGED <<pin, bubble>>
    ELSE /\ pin' = TRUE /\ pick' = FALSE
         /\ bubble' = (object = "there")

Unpin == pin' = FALSE /\ bubble' = FALSE

\* lk_chart_view_tap; the menu's popover takes a click outside it.
Tap ==
    /\ ~menu
    /\ \/ object # "gone" /\ Pin(pick)
       \/ Unpin /\ UNCHANGED pick
    /\ UNCHANGED <<chart, frame, window, saved, menu, object>>

\* lk_overlay_bubble_track finds the object gone, or with nothing to say.
Track ==
    /\ bubble /\ object # "there"
    /\ bubble' = FALSE
    /\ UNCHANGED <<chart, frame, window, saved, menu, pick, pin, object>>

\* lk_chart_view_open_menu
OpenMenu ==
    /\ Open
    /\ Unpin
    /\ menu' = TRUE
    /\ UNCHANGED <<chart, frame, window, saved, pick, object>>

\* lk_chart_menu_pick: the report, when there is anything to report.
MenuPick ==
    /\ menu
    /\ menu' = FALSE
    /\ pick' \in IF Open THEN BOOLEAN ELSE {FALSE}
    /\ UNCHANGED <<chart, frame, window, saved, pin, bubble, object>>

\* lk_chart_menu_drop_marker, remove_marker, rename_committed: the core draws it.
MenuMark ==
    /\ menu
    /\ menu' = FALSE
    /\ IF Open THEN Kick ELSE UNCHANGED <<dirty, quiet, tick, wake>>
    /\ UNCHANGED <<chart, building, window, saved, pick, pin, bubble, object>>

\* lk_window_escape, one thing per press.
Escape ==
    /\ \/ menu /\ menu' = FALSE /\ UNCHANGED <<pick, pin, bubble>>
       \/ ~menu /\ pin /\ Unpin /\ UNCHANGED <<menu, pick>>
       \/ ~menu /\ ~pin /\ pick /\ pick' = FALSE /\ UNCHANGED <<menu, pin, bubble>>
    /\ UNCHANGED <<chart, frame, window, saved, object>>

\* The report's own close button, and the popover's click outside.
Dismiss ==
    /\ \/ pick /\ pick' = FALSE /\ UNCHANGED menu
       \/ menu /\ menu' = FALSE /\ UNCHANGED pick
    /\ UNCHANGED <<chart, frame, window, saved, pin, bubble, object>>

\* lk_table_row_activated: follow off, the chart centred on the row, and
\* whatever stands at the centre pinned.
TableRow ==
    /\ Open
    /\ follow' = FALSE
    /\ cam' \in Reach
    /\ Kick
    /\ menu' = FALSE
    /\ \/ object # "gone" /\ Pin(FALSE)
       \/ Unpin /\ pick' = FALSE
    /\ UNCHANGED <<handle, layer, gliding, building, window, saved, object>>

-------------------------------------------------------------------------------

Next ==
    \/ Frame(TRUE) \/ Frame(FALSE) \/ Wake
    \/ PluginPosts \/ Tessellated
    \/ OpenChart("empty") \/ OpenChart("charts") \/ OpenFails
    \/ Realize \/ Unrealize
    \/ Move \/ Follow(TRUE) \/ Follow(FALSE) \/ Grab
    \/ ChangeMariner \/ ChangePictures \/ ChangeLinks \/ Resize \/ ChangePlugins \/ Grant
    \/ Tap \/ Track
    \/ OpenMenu \/ MenuPick \/ MenuMark \/ Escape \/ Dismiss \/ TableRow

Spec == Init /\ [][Next]_vars

\* The frame clock ticks while a callback asks it to and the one-shot fires;
\* the swapchain has an image in the end, and a tessellation ends.
Fairness ==
    /\ WF_vars(Frame(TRUE)) /\ WF_vars(Frame(FALSE))
    /\ WF_vars(Wake)
    /\ WF_vars(Tessellated)

FairSpec == Spec /\ Fairness

-------------------------------------------------------------------------------

TypeOK ==
    /\ handle \in {"none", "empty", "charts"}
    /\ cam \in Places
    /\ quiet \in 0 .. TicksBeforeStop + 1
    /\ surface \in Places \cup {"none", "blank"}
    /\ saved \in Places \cup {None}
    /\ object \in {"there", "silent", "gone"}
    /\ {layer, gliding, follow, dirty, building, tick, wake, realized, presented,
        built, menu, pick, pin, bubble} \subseteq BOOLEAN
    /\ Open => realized /\ surface # "none"

\* The loop never sleeps over something to show: what is dirty, gliding or
\* still filling in has the frame clock or the one-shot behind it, and so has
\* a plugin layer, whose traffic no gesture announces.  A closed chart has
\* neither.
LoopIsAwake ==
    /\ Open /\ (dirty \/ gliding \/ building \/ layer) => tick \/ wake
    /\ tick \/ wake => Open

\* The chart on the screen is the one the core has, in the end.
ChartIsDrawn == Open /\ surface # cam ~> ~Open \/ surface = cam

\* The loader over an open chart comes down, drawn or not.
LoaderEnds == Open /\ ~built ~> built \/ ~Open

\* The widget is a hole only where a frame has landed in the surface below it:
\* the desktop never shows through, a second life of the widget included.
HoleIsFilled == presented => surface \in Places

\* The whole world a chart of no charts opens at is never kept as the
\* mariner's pose, so the next chart does not open at it.
PoseIsOfCharts ==
    /\ saved # World
    /\ handle = "charts" => cam # World

\* One thing under the finger at a time: what is pinned goes when the menu or
\* the report comes, and the report when a symbol is pinned.
OneThing == (pin => ~pick /\ ~menu) /\ (bubble => pin)

\* An object with nothing to show has no bubble, "so the pin is dropped".
PinIsDropped == pin /\ object \in {"gone", "silent"} => bubble

\* The view is alive: the loop has a clock while there is something to show,
\* and the widget is a hole only over a frame.
ViewIsAlive == LoopIsAwake /\ HoleIsFilled

\* What the window shows goes together: the kept pose with the charts it is of,
\* and one thing under the finger.
WindowAgrees == PoseIsOfCharts /\ OneThing

\* An open chart is seen: drawn as the core has it, its loader down.
OpenIsSeen == ChartIsDrawn /\ LoaderEnds
===============================================================================
