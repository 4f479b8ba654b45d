------------------------------ MODULE ChartInput ------------------------------
(***************************************************************************)
(* The chart widget's own reading of touch and mouse,                      *)
(* src/linux/src/ui/chart/view.c: one finger stitched together from the    *)
(* short sequences a resistive panel makes of it, a second finger handing  *)
(* the episode to the pinch and rotate gestures, and two one-shot timers   *)
(* (settle behind a lift, press under a resting finger) that answer it.    *)
(*                                                                         *)
(* Everything runs on GTK's main loop, a handler at a time; what varies is *)
(* which comes next, an event, a timer that is due, or more time.  Time is *)
(* counted in ticks, and a timer that is due may be late.  Distances are   *)
(* what the handlers compare them with.  A chart is open throughout.       *)
(*                                                                         *)
(* fingers and many are what is true of the glass, answers what this       *)
(* stroke has been given: no handler reads them.                           *)
(***************************************************************************)
EXTENDS Naturals, FiniteSets

CONSTANTS Fingers,    \* the fingers there are
          Stitch,     \* LK_TOUCH_STITCH_MS, in ticks
          Double,     \* LK_TOUCH_DOUBLE_MS
          Press,      \* LK_TOUCH_PRESS_MS
          Off,        \* no timer runs
          MaxPoints   \* bound: touch_points that cancelled touches leave behind

ASSUME InputTimes ==
    /\ {Stitch, Double, Press, MaxPoints} \subseteq Nat
    /\ Stitch <= Double
    /\ Off \notin Nat

VARIABLES
    fingers,  \* on the glass now
    many,     \* two were down together, and they have not all lifted since
    points,   \* touch_points
    multi,    \* touch_multi
    taken,    \* touch_taken: a contact that has had its answer
    wasTap,   \* touch_was_tap: the last contact ended without moving
    moved,    \* touch_moved is past LK_TOUCH_SLOP
    since,    \* ticks since touch_us, Double standing for that or more
    settle,   \* ticks left of touch_settle_id, or Off
    press,    \* ticks left of touch_press_id, or Off
    sampled,  \* last_sample_us is set
    fast,     \* the sampled velocity is a throw
    button,   \* what the primary button is doing: dragging and rotating
    strayed,  \* the pointer has left LK_TAP_SLOP since the button went down
    coast,    \* who threw the chart that the core is coasting, if it is
    answers   \* what the stroke in hand has been given

glass == <<fingers, many>>
latches == <<points, multi>>
contact == <<taken, wasTap, moved, since>>
timers == <<settle, press>>
speed == <<sampled, fast>>
mouse == <<button, strayed>>
vars == <<glass, latches, contact, timers, speed, mouse, coast, answers>>

Init ==
    /\ fingers = {} /\ many = FALSE
    /\ points = 0 /\ multi = FALSE
    /\ taken = FALSE /\ wasTap = FALSE /\ moved = FALSE
    /\ since = Double
    /\ settle = Off /\ press = Off
    /\ sampled = FALSE /\ fast = FALSE
    /\ button = "up" /\ strayed = FALSE
    /\ coast = "none"
    /\ answers = {}

-------------------------------------------------------------------------------
(* touch: lk_chart_view_touch                                                *)

ForgetSpeed == sampled' = FALSE /\ fast' = FALSE

\* lk_chart_view_sample_velocity: the first sample only starts the clock.
SampleSpeed ==
    /\ sampled' = TRUE
    /\ fast' \in IF sampled THEN BOOLEAN ELSE {fast}

\* A finger comes down: the glass and the count, whatever becomes of it.
FingerDown(f) ==
    /\ f \in Fingers \ fingers
    /\ points < MaxPoints
    /\ fingers' = fingers \cup {f}
    /\ many' = (many \/ fingers # {})
    /\ points' = points + 1

\* SecondFinger that leaves the first finger's timers running.
SecondFingerTimersRun(f) ==
    /\ FingerDown(f)
    /\ points >= 1 /\ ~multi
    /\ multi' = TRUE
    /\ taken' = TRUE
    /\ coast' = "none"
    /\ UNCHANGED <<wasTap, moved, since, timers, speed, mouse, answers>>

\* A second finger: pan, tap and long press stand off until all have lifted.
SecondFinger(f) ==
    /\ FingerDown(f)
    /\ points >= 1 /\ ~multi
    /\ multi' = TRUE
    /\ taken' = TRUE
    /\ settle' = Off /\ press' = Off
    /\ coast' = "none"
    /\ UNCHANGED <<wasTap, moved, since, speed, mouse, answers>>

FurtherFinger(f) ==
    /\ FingerDown(f)
    /\ multi
    /\ UNCHANGED <<multi, contact, timers, speed, mouse, coast, answers>>

\* Soon after a tap and on top of it: the zoom, in place of what the tap's
\* settle timer would have answered.
DoubleTap(f) ==
    /\ FingerDown(f)
    /\ points = 0 /\ ~multi
    /\ wasTap /\ since < Double
    /\ settle' = Off /\ press' = Off
    /\ wasTap' = FALSE /\ taken' = TRUE /\ moved' = FALSE /\ since' = 0
    /\ coast' = "none"
    /\ answers' = answers \cup {"zoom"}
    /\ UNCHANGED <<multi, speed, mouse>>

\* SameFinger that leaves the lift's settle timer running.
SameFingerUnsettled(f) ==
    /\ FingerDown(f)
    /\ points = 0 /\ ~multi
    /\ ~wasTap /\ since < Stitch
    /\ since' = 0
    /\ UNCHANGED <<multi, taken, wasTap, moved, timers, speed, mouse, coast, answers>>

\* Soon after a drag and near its end: the same finger carrying on.
SameFinger(f) ==
    /\ FingerDown(f)
    /\ points = 0 /\ ~multi
    /\ ~wasTap /\ since < Stitch
    /\ settle' = Off
    /\ since' = 0
    /\ ForgetSpeed
    /\ coast' = "none"
    /\ UNCHANGED <<multi, taken, wasTap, moved, press, mouse, answers>>

\* Any other contact starts a stroke; it may be far enough from the last one
\* at any time, so this is always possible.
FreshContact(f) ==
    /\ FingerDown(f)
    /\ points = 0 /\ ~multi
    /\ settle' = Off /\ press' = Press
    /\ taken' = FALSE /\ moved' = FALSE /\ since' = 0
    /\ ForgetSpeed
    /\ coast' = "none"
    /\ answers' = {}
    /\ UNCHANGED <<multi, wasTap, mouse>>

\* A finger slides.  Under the slop it is still a candidate tap.
TouchUpdateUnderSlop(f) ==
    /\ f \in fingers
    /\ ~multi /\ ~moved
    /\ since' = 0
    /\ UNCHANGED <<glass, latches, taken, wasTap, moved, timers, speed, mouse, coast, answers>>

TouchPan(f) ==
    /\ f \in fingers
    /\ ~multi
    /\ moved' = TRUE
    /\ since' = 0
    /\ press' = Off
    /\ SampleSpeed
    /\ answers' = answers \cup {"pan"}
    /\ UNCHANGED <<glass, latches, taken, wasTap, settle, mouse, coast>>

FingerUp(f) ==
    /\ f \in fingers
    /\ fingers' = fingers \ {f}
    /\ many' = (many /\ fingers' # {})

\* OneLess that takes any lift for the last.
OneLessAll == 0

\* touch_points-- with its guard.
OneLess == IF points = 0 THEN 0 ELSE points - 1

TouchEnd(f) ==
    /\ FingerUp(f)
    /\ ~multi
    /\ points' = OneLess
    /\ wasTap' = (~taken /\ ~moved)
    /\ since' = 0
    /\ press' = Off
    /\ settle' = IF wasTap' THEN Double ELSE Stitch
    /\ UNCHANGED <<multi, taken, moved, speed, mouse, coast, answers>>

\* The episode is over when the count is back at nothing.
MultiEnd(f) ==
    /\ FingerUp(f)
    /\ multi
    /\ points' = OneLess
    /\ IF points' = 0
       THEN /\ multi' = FALSE /\ taken' = FALSE /\ wasTap' = FALSE
            /\ since' = Double
       ELSE UNCHANGED <<multi, taken, wasTap, since>>
    /\ UNCHANGED <<moved, timers, speed, mouse, coast, answers>>

\* The sequence is cancelled (a grab, the compositor): the handler returns at
\* GDK_TOUCH_CANCEL as at any event that is none of its three.
TouchCancel(f) ==
    /\ FingerUp(f)
    /\ UNCHANGED <<latches, contact, timers, speed, mouse, coast, answers>>

\* lk_chart_view_touch_settle: what a lifted contact was, now that no other
\* has carried it on.
TouchSettle ==
    /\ settle = 0
    /\ settle' = Off
    /\ wasTap' = FALSE
    /\ taken' = FALSE
    /\ \/ taken /\ UNCHANGED <<coast, answers>>
       \/ ~taken /\ ~moved /\ answers' = answers \cup {"tap"} /\ UNCHANGED coast
       \/ /\ ~taken /\ moved /\ fast
          /\ coast' = "touch" /\ answers' = answers \cup {"fling"}
       \/ ~taken /\ moved /\ ~fast /\ UNCHANGED <<coast, answers>>
    /\ UNCHANGED <<glass, latches, moved, since, press, speed, mouse>>

\* lk_chart_view_touch_press: a finger held still raises the chart menu.
TouchPress ==
    /\ press = 0
    /\ press' = Off
    /\ IF moved
       THEN UNCHANGED <<taken, answers>>
       ELSE taken' = TRUE /\ answers' = answers \cup {"menu"}
    /\ UNCHANGED <<glass, latches, wasTap, moved, since, settle, speed, mouse, coast>>

-------------------------------------------------------------------------------
(* the mouse, which shares the velocity                                      *)

\* lk_chart_view_pressed.  The grab stops any coast; the second press of a
\* pair zooms and neither drags nor taps.
Pressed(kind) ==
    /\ button = "up"
    /\ button' = kind
    /\ strayed' = FALSE
    /\ ForgetSpeed
    /\ coast' = "none"
    /\ UNCHANGED <<glass, latches, contact, timers, answers>>

\* lk_chart_view_motion
Motion ==
    /\ button = "drag"
    /\ strayed' \in {strayed, TRUE}
    /\ SampleSpeed
    /\ UNCHANGED <<glass, latches, contact, timers, button, coast, answers>>

\* lk_chart_view_released: a throw, when the pointer has strayed; a tap of the
\* mouse is no touch's answer.
Released ==
    /\ button # "up"
    /\ button' = "up"
    /\ coast' = IF button # "drag" \/ ~strayed THEN coast
                ELSE IF fast THEN "mouse" ELSE "none"
    /\ UNCHANGED <<glass, latches, contact, timers, speed, strayed, answers>>

\* The core's coast runs down.
CoastEnds ==
    /\ coast # "none"
    /\ coast' = "none"
    /\ UNCHANGED <<glass, latches, contact, timers, speed, mouse, answers>>

-------------------------------------------------------------------------------

\* lk_chart_view_unrealize: the timers, the count and the latch go, and the
\* chart with its coast.  The fingers that were down are no longer this
\* widget's.  touch_us stays; a widget that is realized again and laid out
\* comes later than a double tap would.
Unrealize ==
    /\ settle' = Off /\ press' = Off
    /\ points' = 0 /\ multi' = FALSE
    /\ fingers' = {} /\ many' = FALSE
    /\ since' = Double
    /\ coast' = "none"
    /\ UNCHANGED <<taken, wasTap, moved, speed, mouse, answers>>

LessTime(t) == IF t \in {0, Off} THEN t ELSE t - 1

Tick ==
    /\ settle \notin {0, Off} \/ press \notin {0, Off} \/ since < Double
    /\ settle' = LessTime(settle)
    /\ press' = LessTime(press)
    /\ since' = IF since < Double THEN since + 1 ELSE since
    /\ UNCHANGED <<glass, latches, taken, wasTap, moved, speed, mouse, coast, answers>>

Touch(f) ==
    \/ SecondFinger(f)
    \/ FurtherFinger(f)
    \/ DoubleTap(f)
    \/ SameFinger(f)
    \/ FreshContact(f)
    \/ TouchUpdateUnderSlop(f)
    \/ TouchPan(f)
    \/ TouchEnd(f)
    \/ MultiEnd(f)
    \/ TouchCancel(f)

Next ==
    \/ \E f \in Fingers : Touch(f)
    \/ TouchSettle
    \/ TouchPress
    \/ \E kind \in {"drag", "rotate", "second"} : Pressed(kind)
    \/ Motion
    \/ Released
    \/ CoastEnds
    \/ Unrealize
    \/ Tick

Spec == Init /\ [][Next]_vars

-------------------------------------------------------------------------------

Timer(limit) == 0 .. limit \cup {Off}

TypeOK ==
    /\ fingers \subseteq Fingers
    /\ points \in Cardinality(fingers) .. MaxPoints
    /\ since \in 0 .. Double
    /\ settle \in Timer(Double)
    /\ press \in Timer(Press)
    /\ button \in {"up", "drag", "rotate", "second"}
    /\ coast \in {"none", "touch", "mouse"}
    /\ answers \subseteq {"pan", "tap", "menu", "zoom", "fling"}
    /\ {many, multi, taken, wasTap, moved, sampled, fast, strayed} \subseteq BOOLEAN

\* A stroke is answered once: it is a tap, a held press or a double tap only
\* while it has been nothing else, and it throws the chart only after a pan,
\* however the panel breaks it up and however late the timers are.
OneAnswer ==
    [][\A d \in answers' \ answers :
          /\ d \in {"tap", "menu", "zoom"} => answers = {}
          /\ d = "fling" => answers = {"pan"}]_vars

\* From the second finger to the last lift, one finger's answers stand off:
\* nothing pans, taps, raises the menu or throws.
PinchStandsOff == [][many /\ many' => answers' = answers]_vars

\* A finger that rests on the chart holds it: no throw of a touch runs on
\* under a contact, the settle of an earlier lift included.
RestStopsCoast == fingers # {} => coast # "touch"

\* The pinch keeps the single finger out until all fingers lift, and no longer.
PinchEnds == fingers = {} => ~multi

\* One contact, one answer: no stroke is answered twice, and none is answered
\* by a single finger while a pinch is on (ui/chart/view.c's settle and press
\* timers, and its multi flag).
StrokeIsAnsweredOnce == OneAnswer /\ PinchStandsOff
===============================================================================
