---------------------------- MODULE ChartWindowProof ----------------------------
(***************************************************************************)
(* For any fingers and times, any places, conditions, caps and vessels:    *)
(* touch and mouse keep their promises (ChartInput), the view is alive and *)
(* its window goes together (ChartWindow), the strip says what the plugins *)
(* raised (AlertStrip) and a table, its plugin and its window agree        *)
(* (TablePanel).                                                           *)
(*                                                                         *)
(* Touch and mouse.  What the handlers read is latches; what the           *)
(* properties speak of is the glass and the answers.  Between them stand   *)
(* two lifetimes.  A contact that is still open, on the glass or lifted    *)
(* with its settle timer running, has had no answer but its pan            *)
(* (LiftedIsOpen, PressIsOpen, TouchIsOpen); and a contact that comes too  *)
(* soon to be a fresh one finds that timer still running, however late it  *)
(* may be (SoonIsUnsettled): since and settle count the same ticks.        *)
(*                                                                         *)
(* The view.  What is checked is inductive as it stands (VInv).            *)
(*                                                                         *)
(* The strip.  The number a copy was taken at is never past the list's,    *)
(* and every step that changes the list moves it on (BookMoves), so equal  *)
(* numbers mean one list; an alarm nobody answered has, where it is the    *)
(* oldest of them, no alert before it, so the strip shows it.              *)
(*                                                                         *)
(* The table.  Numbers begin anew with a table while its window stays.     *)
(* Then nobody has been told that anybody looks (Reborn), so it stays      *)
(* empty and at zero until that window is closed.                          *)
(***************************************************************************)
EXTENDS MCChartWindow, FiniteSetTheorems, WellFoundedInduction, TLAPS

-------------------------------------------------------------------------------
(* Touch and mouse                                                           *)

\* What an open stroke has been given so far.
Due == IF moved THEN {"pan"} ELSE {}

\* The latch stands for two fingers or more, and one finger is counted once.
Counts ==
    /\ IsFiniteSet(fingers)
    /\ ~multi => points <= 1
    /\ many => multi
    /\ multi => coast # "touch"

\* While the settle timer runs, the lifted contact awaits its answer.
LiftedIsOpen ==
    settle # Off => /\ points = 0 /\ ~multi
                    /\ ~taken => answers = Due
                    /\ since + settle >= IF wasTap THEN Double ELSE Stitch

\* While the press timer runs, nothing has been answered and nothing has moved.
PressIsOpen ==
    press # Off => points >= 1 /\ ~multi /\ answers = {} /\ ~moved /\ ~taken

\* One finger down that has had no answer has at most panned.
TouchIsOpen == points >= 1 /\ ~multi /\ ~taken => answers = Due

\* Soon after a lift, the settle timer has not been answered yet.
SoonIsUnsettled ==
    /\ points = 0 /\ since < Stitch => settle # Off
    /\ points = 0 /\ wasTap /\ since < Double => settle # Off /\ ~taken /\ ~moved

\* The inductive invariant.
IInv ==
    /\ TypeOK /\ RestStopsCoast
    /\ Counts /\ LiftedIsOpen /\ PressIsOpen /\ TouchIsOpen /\ SoonIsUnsettled

-------------------------------------------------------------------------------
\* The times are numbers, and each fits its own timer.
LEMMA Times ==
    /\ Stitch \in Nat /\ Double \in Nat /\ Press \in Nat /\ MaxPoints \in Nat
    /\ Stitch <= Double /\ Off \notin Nat
    /\ 0 \in 0 .. Double /\ Double \in 0 .. Double /\ Off \in Timer(Double)
    /\ Off \in Timer(Press) /\ Press \in Timer(Press)
    /\ Double \in Timer(Double) /\ Stitch \in Timer(Double)
<1>1. /\ Stitch \in Nat /\ Double \in Nat /\ Press \in Nat /\ MaxPoints \in Nat
      /\ Stitch <= Double /\ Off \notin Nat
    BY InputTimes
<1> QED
    BY <1>1 DEF Timer

\* touch_points never undercounts the fingers on the glass.
LEMMA CountsFingers ==
    ASSUME IInv
    PROVE  /\ points \in Nat /\ Cardinality(fingers) \in Nat
           /\ Cardinality(fingers) <= points
           /\ MaxPoints \in Nat /\ points <= MaxPoints
           /\ points = 0 => fingers = {}
BY FS_CardinalityType, FS_EmptySet, InputTimes DEF IInv, TypeOK, Counts

\* A finger comes down and is counted.
LEMMA DownCounts ==
    ASSUME IInv, NEW f \in Fingers, FingerDown(f)
    PROVE  /\ fingers' \subseteq Fingers /\ IsFiniteSet(fingers')
           /\ points' = points + 1 /\ points' \in Cardinality(fingers') .. MaxPoints
           /\ many' = (many \/ fingers # {})
<1>1. fingers' = fingers \cup {f} /\ f \notin fingers
    BY DEF FingerDown
<1>2. IsFiniteSet(fingers') /\ Cardinality(fingers') = Cardinality(fingers) + 1
    BY <1>1, FS_AddElement DEF IInv, Counts
<1> QED
    BY <1>1, <1>2, CountsFingers DEF FingerDown, IInv, TypeOK

\* A finger lifts; the last one counted was the last one down.
LEMMA UpCounts ==
    ASSUME IInv, NEW f \in Fingers, FingerUp(f)
    PROVE  /\ fingers' \subseteq Fingers /\ IsFiniteSet(fingers') /\ points >= 1
           /\ OneLess = points - 1 /\ OneLess \in Cardinality(fingers') .. MaxPoints
           /\ points \in Cardinality(fingers') .. MaxPoints
           /\ OneLess = 0 => fingers' = {}
           /\ many' = (many /\ fingers' # {})
<1>1. fingers' = fingers \ {f} /\ f \in fingers
    BY DEF FingerUp
<1>2. IsFiniteSet(fingers') /\ Cardinality(fingers') = Cardinality(fingers) - 1
    BY <1>1, FS_RemoveElement DEF IInv, Counts
<1>3. points >= 1
    BY <1>1, CountsFingers
<1>4. OneLess = points - 1
    BY <1>3, CountsFingers DEF OneLess
<1>5. Cardinality(fingers') \in Nat /\ (Cardinality(fingers') = 0 => fingers' = {})
    BY <1>2, FS_CardinalityType, FS_EmptySet
<1> QED
    BY <1>1, <1>2, <1>3, <1>4, <1>5, CountsFingers DEF FingerUp, IInv, TypeOK

\* A widget just realized satisfies the inductive invariant.
LEMMA InitIInv == Init => IInv
<1> SUFFICES ASSUME Init PROVE IInv
    OBVIOUS
<1>1. IsFiniteSet(fingers) /\ Cardinality(fingers) = 0
    BY FS_EmptySet DEF Init
<1>2. TypeOK
    <2>1. points \in Cardinality(fingers) .. MaxPoints /\ since \in 0 .. Double
        BY <1>1, InputTimes DEF Init
    <2> QED
        BY <2>1 DEF Init, TypeOK, Timer
<1> QED
    BY <1>1, <1>2, InputTimes DEF Init, IInv, RestStopsCoast, Counts, LiftedIsOpen,
        PressIsOpen, TouchIsOpen, SoonIsUnsettled

-------------------------------------------------------------------------------
\* A second finger comes down.
LEMMA SecondFingerKeeps == ASSUME IInv, NEW f \in Fingers, SecondFinger(f) PROVE IInv'
<1>1. /\ fingers' \subseteq Fingers /\ IsFiniteSet(fingers')
      /\ points' = points + 1 /\ points' \in Cardinality(fingers') .. MaxPoints
      /\ many' = (many \/ fingers # {})
    BY DownCounts DEF SecondFinger
<1>2. TypeOK'
    BY <1>1 DEF SecondFinger, speed, mouse, IInv, TypeOK, Timer
<1> QED
    BY <1>1, <1>2, CountsFingers DEF SecondFinger, IInv, RestStopsCoast, Counts,
        LiftedIsOpen, PressIsOpen, TouchIsOpen, SoonIsUnsettled

\* One more finger in a pinch.
LEMMA FurtherFingerKeeps == ASSUME IInv, NEW f \in Fingers, FurtherFinger(f) PROVE IInv'
<1>1. /\ fingers' \subseteq Fingers /\ IsFiniteSet(fingers')
      /\ points' = points + 1 /\ points' \in Cardinality(fingers') .. MaxPoints
      /\ many' = (many \/ fingers # {})
    BY DownCounts DEF FurtherFinger
<1>2. TypeOK'
    BY <1>1 DEF FurtherFinger, contact, timers, speed, mouse, IInv, TypeOK
<1> QED
    BY <1>1, <1>2, CountsFingers DEF FurtherFinger, contact, timers, IInv, RestStopsCoast,
        Counts, LiftedIsOpen, PressIsOpen, TouchIsOpen, SoonIsUnsettled

\* A contact on top of a tap.
LEMMA DoubleTapKeeps == ASSUME IInv, NEW f \in Fingers, DoubleTap(f) PROVE IInv'
<1>1. /\ fingers' \subseteq Fingers /\ IsFiniteSet(fingers')
      /\ points' = points + 1 /\ points' \in Cardinality(fingers') .. MaxPoints
      /\ many' = (many \/ fingers # {})
    BY DownCounts DEF DoubleTap
<1>2. TypeOK'
    BY <1>1, Times, CountsFingers DEF DoubleTap, speed, mouse, IInv, TypeOK
<1> QED
    BY <1>1, <1>2, CountsFingers, Times DEF DoubleTap, speed, mouse, IInv, RestStopsCoast,
        Counts, LiftedIsOpen, PressIsOpen, TouchIsOpen, SoonIsUnsettled, Due, TypeOK, Timer

\* A contact that carries a drag on.
LEMMA SameFingerKeeps == ASSUME IInv, NEW f \in Fingers, SameFinger(f) PROVE IInv'
<1>1. /\ fingers' \subseteq Fingers /\ IsFiniteSet(fingers')
      /\ points' = points + 1 /\ points' \in Cardinality(fingers') .. MaxPoints
      /\ many' = (many \/ fingers # {})
    BY DownCounts DEF SameFinger
<1>2. TypeOK'
    BY <1>1, Times, CountsFingers DEF SameFinger, ForgetSpeed, mouse, IInv, TypeOK
<1> QED
    BY <1>1, <1>2, CountsFingers, Times DEF SameFinger, ForgetSpeed, mouse, IInv,
        RestStopsCoast, Counts, LiftedIsOpen, PressIsOpen, TouchIsOpen, SoonIsUnsettled,
        Due, TypeOK, Timer

\* Any other contact.
LEMMA FreshContactKeeps == ASSUME IInv, NEW f \in Fingers, FreshContact(f) PROVE IInv'
<1>1. /\ fingers' \subseteq Fingers /\ IsFiniteSet(fingers')
      /\ points' = points + 1 /\ points' \in Cardinality(fingers') .. MaxPoints
      /\ many' = (many \/ fingers # {})
    BY DownCounts DEF FreshContact
<1>2. TypeOK'
    BY <1>1, Times, CountsFingers DEF FreshContact, ForgetSpeed, mouse, IInv, TypeOK
<1> QED
    BY <1>1, <1>2, CountsFingers, Times DEF FreshContact, ForgetSpeed, mouse, IInv,
        RestStopsCoast, Counts, LiftedIsOpen, PressIsOpen, TouchIsOpen, SoonIsUnsettled,
        Due, TypeOK, Timer

\* A finger slides under the slop.
LEMMA TouchUpdateUnderSlopKeeps ==
    ASSUME IInv, NEW f \in Fingers, TouchUpdateUnderSlop(f)
    PROVE  IInv'
<1>2. TypeOK'
    BY Times, CountsFingers DEF TouchUpdateUnderSlop, glass, latches, timers, speed, mouse,
        IInv, TypeOK
<1> QED
    BY <1>2, CountsFingers, Times DEF TouchUpdateUnderSlop, glass, latches, timers, speed,
        mouse, IInv, RestStopsCoast, Counts, LiftedIsOpen, PressIsOpen, TouchIsOpen,
        SoonIsUnsettled, Due, TypeOK, Timer

\* A finger drags.
LEMMA TouchPanKeeps == ASSUME IInv, NEW f \in Fingers, TouchPan(f) PROVE IInv'
<1>2. TypeOK'
    BY Times, CountsFingers DEF TouchPan, SampleSpeed, glass, latches, mouse, IInv, TypeOK
<1> QED
    BY <1>2, CountsFingers, Times DEF TouchPan, SampleSpeed, glass, latches, mouse, IInv,
        RestStopsCoast, Counts, LiftedIsOpen, PressIsOpen, TouchIsOpen, SoonIsUnsettled,
        Due, TypeOK, Timer

\* One finger lifts.
LEMMA TouchEndKeeps == ASSUME IInv, NEW f \in Fingers, TouchEnd(f) PROVE IInv'
<1>1. /\ fingers' \subseteq Fingers /\ IsFiniteSet(fingers') /\ points >= 1
      /\ OneLess = points - 1 /\ OneLess \in Cardinality(fingers') .. MaxPoints
      /\ points \in Cardinality(fingers') .. MaxPoints
      /\ OneLess = 0 => fingers' = {}
      /\ many' = (many /\ fingers' # {})
    BY UpCounts DEF TouchEnd
<1>2. TypeOK'
    BY <1>1, Times, CountsFingers DEF TouchEnd, speed, mouse, IInv, TypeOK, Timer
<1> QED
    BY <1>1, <1>2, CountsFingers, Times DEF TouchEnd, speed, mouse, IInv, RestStopsCoast,
        Counts, LiftedIsOpen, PressIsOpen, TouchIsOpen, SoonIsUnsettled, Due, TypeOK, Timer

\* A finger of a pinch lifts, the last one or not.
LEMMA MultiEndKeeps == ASSUME IInv, NEW f \in Fingers, MultiEnd(f) PROVE IInv'
<1>1. /\ fingers' \subseteq Fingers /\ IsFiniteSet(fingers') /\ points >= 1
      /\ OneLess = points - 1 /\ OneLess \in Cardinality(fingers') .. MaxPoints
      /\ points \in Cardinality(fingers') .. MaxPoints
      /\ OneLess = 0 => fingers' = {}
      /\ many' = (many /\ fingers' # {})
    BY UpCounts DEF MultiEnd
<1>2. TypeOK'
    BY <1>1, Times, CountsFingers DEF MultiEnd, timers, speed, mouse, IInv, TypeOK
<1>3. CASE points' = 0
    <2>1. /\ fingers' = {} /\ many' = FALSE /\ multi' = FALSE /\ wasTap' = FALSE
          /\ since' = Double /\ UNCHANGED <<settle, press, coast>>
        BY <1>1, <1>3 DEF MultiEnd, timers
    <2>2. settle = Off /\ press = Off /\ coast # "touch"
        BY DEF MultiEnd, IInv, Counts, LiftedIsOpen, PressIsOpen
    <2>3. ~(Double < Stitch)
        BY Times
    <2> QED
        BY <1>1, <1>2, <1>3, <2>1, <2>2, <2>3 DEF IInv, RestStopsCoast, Counts,
            LiftedIsOpen, PressIsOpen, TouchIsOpen, SoonIsUnsettled
<1>4. CASE points' # 0
    BY <1>1, <1>2, <1>4 DEF MultiEnd, timers, IInv, RestStopsCoast, Counts,
        LiftedIsOpen, PressIsOpen, TouchIsOpen, SoonIsUnsettled
<1> QED
    BY <1>3, <1>4

\* The compositor takes the sequence away.
LEMMA TouchCancelKeeps == ASSUME IInv, NEW f \in Fingers, TouchCancel(f) PROVE IInv'
<1>1. /\ fingers' \subseteq Fingers /\ IsFiniteSet(fingers') /\ points >= 1
      /\ OneLess = points - 1 /\ OneLess \in Cardinality(fingers') .. MaxPoints
      /\ points \in Cardinality(fingers') .. MaxPoints
      /\ OneLess = 0 => fingers' = {}
      /\ many' = (many /\ fingers' # {})
    BY UpCounts DEF TouchCancel
<1>2. TypeOK'
    BY <1>1, Times, CountsFingers DEF TouchCancel, latches, contact, timers, speed, mouse,
        IInv, TypeOK
<1> QED
    BY <1>1, <1>2, CountsFingers, Times DEF TouchCancel, latches, contact, timers, speed,
        mouse, IInv, RestStopsCoast, Counts, LiftedIsOpen, PressIsOpen, TouchIsOpen,
        SoonIsUnsettled, Due, TypeOK, Timer

\* The settle timer.
LEMMA TouchSettleKeeps == ASSUME IInv, TouchSettle PROVE IInv'
<1>2. TypeOK'
    BY Times, CountsFingers DEF TouchSettle, glass, latches, speed, mouse, IInv, TypeOK,
        Timer
<1> QED
    BY <1>2, CountsFingers, Times DEF TouchSettle, glass, latches, speed, mouse, IInv,
        RestStopsCoast, Counts, LiftedIsOpen, PressIsOpen, TouchIsOpen, SoonIsUnsettled,
        Due, TypeOK, Timer

\* The press timer.
LEMMA TouchPressKeeps == ASSUME IInv, TouchPress PROVE IInv'
<1>2. TypeOK'
    BY Times, CountsFingers DEF TouchPress, glass, latches, speed, mouse, IInv, TypeOK,
        Timer
<1> QED
    BY <1>2, CountsFingers, Times DEF TouchPress, glass, latches, speed, mouse, IInv,
        RestStopsCoast, Counts, LiftedIsOpen, PressIsOpen, TouchIsOpen, SoonIsUnsettled,
        Due, TypeOK, Timer

\* The primary button goes down.
LEMMA PressedKeeps ==
    ASSUME IInv, NEW kind \in {"drag", "rotate", "second"}, Pressed(kind) PROVE IInv'
<1>2. TypeOK'
    BY Times, CountsFingers DEF Pressed, ForgetSpeed, glass, latches, contact, timers, IInv,
        TypeOK
<1> QED
    BY <1>2, CountsFingers, Times DEF Pressed, ForgetSpeed, glass, latches, contact, timers,
        IInv, RestStopsCoast, Counts, LiftedIsOpen, PressIsOpen, TouchIsOpen,
        SoonIsUnsettled, Due, TypeOK, Timer

\* The pointer moves.
LEMMA MotionKeeps == ASSUME IInv, Motion PROVE IInv'
<1>2. TypeOK'
    BY Times, CountsFingers DEF Motion, SampleSpeed, glass, latches, contact, timers, IInv,
        TypeOK
<1> QED
    BY <1>2, CountsFingers, Times DEF Motion, SampleSpeed, glass, latches, contact, timers,
        IInv, RestStopsCoast, Counts, LiftedIsOpen, PressIsOpen, TouchIsOpen,
        SoonIsUnsettled, Due, TypeOK, Timer

\* The button comes up.
LEMMA ReleasedKeeps == ASSUME IInv, Released PROVE IInv'
<1>2. TypeOK'
    BY Times, CountsFingers DEF Released, glass, latches, contact, timers, speed, IInv,
        TypeOK
<1> QED
    BY <1>2, CountsFingers, Times DEF Released, glass, latches, contact, timers, speed,
        IInv, RestStopsCoast, Counts, LiftedIsOpen, PressIsOpen, TouchIsOpen,
        SoonIsUnsettled, Due, TypeOK, Timer

\* The coast runs down.
LEMMA CoastEndsKeeps == ASSUME IInv, CoastEnds PROVE IInv'
<1>2. TypeOK'
    BY Times, CountsFingers DEF CoastEnds, glass, latches, contact, timers, speed, mouse,
        IInv, TypeOK
<1> QED
    BY <1>2, CountsFingers, Times DEF CoastEnds, glass, latches, contact, timers, speed,
        mouse, IInv, RestStopsCoast, Counts, LiftedIsOpen, PressIsOpen, TouchIsOpen,
        SoonIsUnsettled, Due, TypeOK, Timer

\* The widget is unrealized.
LEMMA UnrealizeKeeps == ASSUME IInv, Unrealize PROVE IInv'
<1>1. IsFiniteSet({}) /\ Cardinality({}) = 0
    BY FS_EmptySet
<1>2. TypeOK'
    <2>1. points' \in Cardinality(fingers') .. MaxPoints
        BY <1>1, Times DEF Unrealize
    <2> QED
        BY <2>1, Times DEF Unrealize, speed, mouse, IInv, TypeOK
<1> QED
    BY <1>1, <1>2, Times DEF Unrealize, speed, mouse, IInv, RestStopsCoast, Counts,
        LiftedIsOpen, PressIsOpen, TouchIsOpen, SoonIsUnsettled, Due, TypeOK, Timer

\* Time passes, a due timer being late.
LEMMA TickKeeps == ASSUME IInv, Tick PROVE IInv'
<1>2. TypeOK'
    BY Times, CountsFingers DEF Tick, glass, latches, speed, mouse, LessTime, IInv, TypeOK,
        Timer
<1> QED
    BY <1>2, CountsFingers, Times DEF Tick, glass, latches, speed, mouse, LessTime, IInv,
        RestStopsCoast, Counts, LiftedIsOpen, PressIsOpen, TouchIsOpen, SoonIsUnsettled,
        Due, TypeOK, Timer

\* Nothing moves.
LEMMA StutterKeeps == ASSUME IInv, UNCHANGED vars PROVE IInv'
BY DEF vars, glass, latches, contact, timers, speed, mouse, IInv, TypeOK, RestStopsCoast,
    Counts, LiftedIsOpen, PressIsOpen, TouchIsOpen, SoonIsUnsettled, Due

\* Every event and timer of the chart widget (ui/chart/view.c) keeps it.
LEMMA NextIInv == IInv /\ [Next]_vars => IInv'
<1> SUFFICES ASSUME IInv, [Next]_vars PROVE IInv'
    OBVIOUS
<1>1. ASSUME NEW f \in Fingers, Touch(f) PROVE IInv'
    BY <1>1, SecondFingerKeeps, FurtherFingerKeeps, DoubleTapKeeps, SameFingerKeeps,
       FreshContactKeeps, TouchUpdateUnderSlopKeeps, TouchPanKeeps, TouchEndKeeps,
       MultiEndKeeps, TouchCancelKeeps DEF Touch
<1>2. CASE TouchSettle \/ TouchPress \/ Motion \/ Released \/ CoastEnds \/ Unrealize \/ Tick
    BY <1>2, TouchSettleKeeps, TouchPressKeeps, MotionKeeps, ReleasedKeeps, CoastEndsKeeps,
       UnrealizeKeeps, TickKeeps
<1>3. ASSUME NEW kind \in {"drag", "rotate", "second"}, Pressed(kind) PROVE IInv'
    BY <1>3, PressedKeeps
<1>4. CASE UNCHANGED vars
    BY <1>4, StutterKeeps
<1> QED
    BY <1>1, <1>2, <1>3, <1>4 DEF Next

\* The inductive invariant holds in every reachable state.
THEOREM IInvHolds == Spec => []IInv
BY InitIInv, NextIInv, PTL DEF Spec

-------------------------------------------------------------------------------
\* The action of OneAnswer.
AnswerIsTheFirst ==
    \A d \in answers' \ answers :
        /\ d \in {"tap", "menu", "zoom"} => answers = {}
        /\ d = "fling" => answers = {"pan"}

\* The action of PinchStandsOff.
PinchAnswersNothing == many /\ many' => answers' = answers

\* From the inductive invariant, every step answers an open stroke only.
LEMMA AnswersAreDue ==
    ASSUME IInv, [Next]_vars
    PROVE  AnswerIsTheFirst
<1> USE DEF AnswerIsTheFirst
<1>1. CASE answers' \subseteq answers \cup {"pan"}
    BY <1>1
<1>2. ASSUME NEW f \in Fingers, DoubleTap(f) PROVE AnswerIsTheFirst
    <2>1. settle # Off /\ ~taken /\ ~moved
        BY <1>2 DEF DoubleTap, IInv, SoonIsUnsettled
    <2>2. answers = {}
        BY <2>1 DEF IInv, LiftedIsOpen, Due
    <2> QED
        BY <1>2, <2>2 DEF DoubleTap
<1>3. CASE TouchSettle
    <2>1. settle # Off
        BY <1>3, Times DEF TouchSettle
    <2>2. ~taken => answers = Due
        BY <2>1 DEF IInv, LiftedIsOpen
    <2> QED
        BY <1>3, <2>2 DEF TouchSettle, Due
<1>4. CASE TouchPress
    <2>1. press # Off
        BY <1>4, Times DEF TouchPress
    <2>2. answers = {}
        BY <2>1 DEF IInv, PressIsOpen
    <2> QED
        BY <1>4, <2>2 DEF TouchPress
<1>5. ASSUME NEW f \in Fingers, Touch(f) PROVE AnswerIsTheFirst
    <2>1. CASE DoubleTap(f)
        BY <1>2, <2>1
    <2>2. CASE ~DoubleTap(f)
        <3>1. answers' \subseteq answers \cup {"pan"}
            BY <1>5, <2>2 DEF Touch, SecondFinger, FurtherFinger, SameFinger, FreshContact,
                TouchUpdateUnderSlop, TouchPan, TouchEnd, MultiEnd, TouchCancel
        <3> QED
            BY <1>1, <3>1
    <2> QED
        BY <2>1, <2>2
<1>6. ASSUME NEW kind \in {"drag", "rotate", "second"}, Pressed(kind) PROVE AnswerIsTheFirst
    BY <1>6 DEF Pressed
<1>7. CASE Motion \/ Released \/ CoastEnds \/ Unrealize \/ Tick \/ UNCHANGED vars
    BY <1>7 DEF Motion, Released, CoastEnds, Unrealize, Tick, vars
<1> QED
    BY <1>3, <1>4, <1>5, <1>6, <1>7 DEF Next

\* In a pinch no handler answers: the latch stands and both timers are off.
LEMMA PinchIsLeftAlone ==
    ASSUME IInv, [Next]_vars
    PROVE  PinchAnswersNothing
<1> SUFFICES ASSUME many, many' PROVE answers' = answers
    BY DEF PinchAnswersNothing
<1>1. multi /\ settle = Off /\ press = Off
    BY DEF IInv, Counts, LiftedIsOpen, PressIsOpen
<1>2. ASSUME NEW f \in Fingers, Touch(f) PROVE answers' = answers
    BY <1>1, <1>2 DEF Touch, SecondFinger, FurtherFinger, DoubleTap, SameFinger,
        FreshContact, TouchUpdateUnderSlop, TouchPan, TouchEnd, MultiEnd, TouchCancel
<1>3. CASE TouchSettle \/ TouchPress
    BY <1>1, <1>3, Times DEF TouchSettle, TouchPress
<1>4. ASSUME NEW kind \in {"drag", "rotate", "second"}, Pressed(kind)
      PROVE  answers' = answers
    BY <1>4 DEF Pressed
<1>5. CASE Motion \/ Released \/ CoastEnds \/ Unrealize \/ Tick \/ UNCHANGED vars
    BY <1>5 DEF Motion, Released, CoastEnds, Unrealize, Tick, vars
<1> QED
    BY <1>2, <1>3, <1>4, <1>5 DEF Next

\* What the two say of every step is said of the behaviour.
LEMMA StrokesAreAnsweredOnce == Spec => StrokeIsAnsweredOnce
<1>1. IInv /\ [Next]_vars => AnswerIsTheFirst
    BY AnswersAreDue
<1>2. IInv /\ [Next]_vars => PinchAnswersNothing
    BY PinchIsLeftAlone
<1>3. Spec => [][AnswerIsTheFirst]_vars
    BY <1>1, IInvHolds, PTL DEF Spec
<1>4. Spec => [][PinchAnswersNothing]_vars
    BY <1>2, IInvHolds, PTL DEF Spec
<1>5. [][AnswerIsTheFirst]_vars => OneAnswer
    BY PTL DEF OneAnswer, AnswerIsTheFirst
<1>6. [][PinchAnswersNothing]_vars => PinchStandsOff
    BY PTL DEF PinchStandsOff, PinchAnswersNothing
<1> QED
    BY <1>3, <1>4, <1>5, <1>6 DEF StrokeIsAnsweredOnce

-------------------------------------------------------------------------------
(* The view                                                                  *)

\* What is up or down.
ViewFlags ==
    {layer, gliding, follow, dirty, building, tick, wake, realized, presented,
     built, menu, pick, pin, bubble} \subseteq BOOLEAN

\* Where everything is, and a chart is open on a surface.
ViewInPlace ==
    /\ handle \in {"none", "empty", "charts"}
    /\ cam \in V!Places
    /\ quiet \in 0 .. V!TicksBeforeStop + 1
    /\ surface \in V!Places \cup {"none", "blank"}
    /\ saved \in V!Places \cup {None}
    /\ object \in {"there", "silent", "gone"}
    /\ V!Open => realized /\ surface # "none"

\* The types of the view are those of its flags and of the rest.
LEMMA ViewTypeIsBoth == V!TypeOK <=> ViewFlags /\ ViewInPlace
BY DEF V!TypeOK, ViewFlags, ViewInPlace

\* The inductive invariant of the view.
VInv ==
    /\ ViewFlags /\ ViewInPlace
    /\ V!LoopIsAwake /\ V!HoleIsFilled /\ V!PoseIsOfCharts /\ V!OneThing

\* A window just built satisfies the invariant.
LEMMA InitVInv == V!Init => VInv
<1> SUFFICES ASSUME V!Init PROVE VInv
    OBVIOUS
<1>1. V!TypeOK
    <2>1. quiet \in 0 .. V!TicksBeforeStop + 1
        BY DEF V!Init, V!TicksBeforeStop
    <2>2. cam \in V!Places /\ saved \in V!Places \cup {None}
        BY DEF V!Init, V!Places
    <2> QED
        BY <2>1, <2>2 DEF V!Init, V!TypeOK, V!Open
<1>2. V!LoopIsAwake /\ V!HoleIsFilled /\ V!OneThing
    BY DEF V!Init, V!LoopIsAwake, V!HoleIsFilled, V!OneThing
<1>3. V!PoseIsOfCharts
    BY PlacesDiffer DEF V!Init, V!PoseIsOfCharts
<1> QED
    BY <1>1, <1>2, <1>3, ViewTypeIsBoth DEF VInv

\* What the verdict on a frame does, and what the frame does before it.
LEMMA FrameSteps ==
    ASSUME VInv, NEW drawn \in BOOLEAN, V!Frame(drawn)
    PROVE  /\ gliding' \in BOOLEAN /\ cam' \in V!Places
           /\ UNCHANGED <<handle, layer, follow, realized, V!over, object>>
           /\ \/ V!RenderDraws /\ quiet' = 0 /\ UNCHANGED <<tick, wake>>
              \/ V!RenderSkips /\ quiet' = 0 /\ UNCHANGED <<tick, wake>>
              \/ V!StillTicks /\ cam' = cam
<1>1. gliding' \in BOOLEAN
    BY Zenon DEF VInv, V!Frame, ViewFlags
<1>2. cam' \in V!Places
    BY DEF VInv, V!Frame, V!Reach, V!Places, ViewInPlace
<1> QED
    BY <1>1, <1>2, Zenon DEF V!Frame

\* The frame loop: drawn, skipped, or a still tick.
LEMMA FrameKeeps ==
    ASSUME VInv, NEW drawn \in BOOLEAN, V!Frame(drawn) PROVE VInv'
<1>1. ViewFlags'
    <2>1. {layer', gliding', follow', realized', menu', pick', pin', bubble'}
              \subseteq BOOLEAN
        BY FrameSteps, Zenon DEF VInv, ViewFlags, V!over
    <2>2. {dirty', building', presented', built', tick', wake'} \subseteq BOOLEAN
        <3>1. CASE V!RenderDraws /\ UNCHANGED <<tick, wake>>
            <4>1. presented' \in BOOLEAN /\ building' \in BOOLEAN
                BY <3>1, Zenon DEF VInv, ViewFlags, V!RenderDraws, V!SurfaceReady
            <4> QED
                BY <3>1, <4>1, Zenon DEF VInv, ViewFlags, V!RenderDraws
        <3>2. CASE V!RenderSkips /\ UNCHANGED <<tick, wake>>
            BY <3>2, Zenon DEF VInv, ViewFlags, V!RenderSkips
        <3>3. CASE V!StillTicks
            BY <3>3, Zenon DEF VInv, ViewFlags, V!StillTicks
        <3> QED
            BY <3>1, <3>2, <3>3, FrameSteps
    <2> QED
        BY <2>1, <2>2, Zenon DEF ViewFlags
<1>2. ViewInPlace'
    <2>1. CASE V!RenderDraws /\ quiet' = 0
        <3>1. surface' = cam' /\ saved' \in {saved, cam'}
            BY <2>1 DEF V!RenderDraws
        <3>2. surface' # "none"
            BY <3>1, FrameSteps, PlacesDiffer DEF V!Places
        <3> QED
            BY <2>1, <3>1, <3>2, FrameSteps DEF VInv, ViewInPlace, V!Open, V!TicksBeforeStop
    <2>2. CASE V!RenderSkips /\ quiet' = 0
        BY <2>2, FrameSteps DEF VInv, ViewInPlace, V!Open, V!TicksBeforeStop, V!RenderSkips
    <2>3. CASE V!StillTicks
        BY <2>3, FrameSteps DEF VInv, ViewInPlace, V!Open, V!TicksBeforeStop, V!StillTicks
    <2> QED
        BY <2>1, <2>2, <2>3, FrameSteps
<1>3. V!LoopIsAwake'
    <2>1. CASE (gliding \/ dirty) /\ drawn
        BY <2>1 DEF VInv, V!Frame, V!Open, V!LoopIsAwake
    <2>2. CASE (gliding \/ dirty) /\ ~drawn
        BY <2>2 DEF VInv, V!Frame, V!Open, V!LoopIsAwake
    <2>3. CASE ~(gliding \/ dirty)
        BY <2>3 DEF VInv, V!Frame, V!StillTicks, V!Open, ViewFlags, V!LoopIsAwake
    <2> QED
        BY <2>1, <2>2, <2>3
<1>4. V!HoleIsFilled'
    BY DEF VInv, V!Frame, V!RenderDraws, V!RenderSkips, V!StillTicks, V!Reach, V!Places,
        ViewInPlace, V!HoleIsFilled
<1>5. V!PoseIsOfCharts'
    BY PlacesDiffer DEF VInv, V!Frame, V!RenderDraws, V!RenderSkips, V!StillTicks, V!Reach,
        V!PoseIsOfCharts
<1>6. V!OneThing'
    BY DEF VInv, V!Frame, V!over, V!OneThing
<1> QED
    BY <1>1, <1>2, <1>3, <1>4, <1>5, <1>6 DEF VInv

\* What wakes the loop from beside it, and the focus that is granted.
LEMMA BesideKeeps ==
    ASSUME VInv, V!Wake \/ V!PluginPosts \/ V!Tessellated \/ V!Grant
    PROVE  VInv'
<1>1. ViewFlags'
    BY Zenon DEF VInv, V!Wake, V!PluginPosts, V!Tessellated, V!Grant, V!over, V!chart,
        V!window, ViewFlags
<1>2. ViewInPlace'
    BY DEF VInv, V!Wake, V!PluginPosts, V!Tessellated, V!Grant, V!Reach, V!Places, V!Open,
        V!chart, V!window, ViewInPlace
<1>3. V!LoopIsAwake'
    BY DEF VInv, V!Wake, V!PluginPosts, V!Tessellated, V!Grant, V!Open, V!chart,
        V!LoopIsAwake
<1>4. V!HoleIsFilled'
    BY DEF VInv, V!Wake, V!PluginPosts, V!Tessellated, V!Grant, V!window, V!HoleIsFilled
<1>5. V!PoseIsOfCharts'
    BY PlacesDiffer DEF VInv, V!Wake, V!PluginPosts, V!Tessellated, V!Grant, V!Reach,
        V!chart, V!PoseIsOfCharts
<1>6. V!OneThing'
    BY DEF VInv, V!Wake, V!PluginPosts, V!Tessellated, V!Grant, V!over, V!OneThing
<1> QED
    BY <1>1, <1>2, <1>3, <1>4, <1>5, <1>6 DEF VInv

\* A chart is opened or is not, and the surface comes and goes.
LEMMA OpenKeeps ==
    ASSUME VInv, NEW kind \in {"empty", "charts"},
           V!OpenChart(kind) \/ V!OpenFails \/ V!Realize \/ V!Unrealize
    PROVE  VInv'
<1>1. ViewFlags'
    BY Zenon DEF VInv, V!OpenChart, V!OpenFails, V!Realize, V!Unrealize, V!Kick, V!Close,
        V!over, V!chart, V!frame, ViewFlags
<1>2. ViewInPlace'
    BY DEF VInv, V!OpenChart, V!OpenFails, V!Realize, V!Unrealize, V!Kick, V!Close,
        V!Places, V!Open, V!PoseAtClose, V!chart, V!frame, ViewInPlace, V!TicksBeforeStop
<1>3. V!LoopIsAwake'
    BY DEF VInv, V!OpenChart, V!OpenFails, V!Realize, V!Unrealize, V!Kick, V!Close, V!Open,
        V!chart, V!frame, V!LoopIsAwake
<1>4. V!HoleIsFilled'
    BY PlacesDiffer DEF VInv, V!OpenChart, V!OpenFails, V!Realize, V!Unrealize, V!Places,
        V!HoleIsFilled
<1>5. V!PoseIsOfCharts'
    BY PlacesDiffer DEF VInv, V!OpenChart, V!OpenFails, V!Realize, V!Unrealize, V!Close,
        V!PoseAtClose, V!chart, V!PoseIsOfCharts
<1>6. V!OneThing'
    BY DEF VInv, V!OpenChart, V!OpenFails, V!Realize, V!Unrealize, V!over, V!OneThing
<1> QED
    BY <1>1, <1>2, <1>3, <1>4, <1>5, <1>6 DEF VInv

\* The mariner moves the chart or changes what is on it.
LEMMA ChartKeeps ==
    ASSUME VInv, NEW on \in BOOLEAN,
           \/ V!Move \/ V!Follow(on) \/ V!Grab \/ V!ChangeMariner
           \/ V!ChangePictures \/ V!ChangeLinks \/ V!Resize \/ V!ChangePlugins \/ V!TableRow
    PROVE  VInv'
<1>1. ViewFlags'
    BY Zenon DEF VInv, V!Move, V!Follow, V!Grab, V!ChangeMariner, V!ChangePictures,
        V!ChangeLinks, V!Resize, V!ChangePlugins, V!TableRow, V!Kick, V!Change, V!Retire,
        V!Pin, V!Unpin, V!over, V!window, ViewFlags
<1>2. ViewInPlace'
    <2>1. CASE V!Move
        BY <2>1 DEF VInv, V!Move, V!Kick, V!Reach, V!Places, V!window, ViewInPlace,
            V!TicksBeforeStop
    <2>2. CASE V!Follow(on)
        BY <2>2 DEF VInv, V!Follow, V!Kick, V!Reach, V!Places, V!window, ViewInPlace,
            V!TicksBeforeStop
    <2>3. CASE V!Grab
        BY <2>3 DEF VInv, V!Grab, V!Kick, V!window, ViewInPlace, V!TicksBeforeStop
    <2>4. CASE V!ChangeMariner
        BY <2>4 DEF VInv, V!ChangeMariner, V!Change, V!Kick, V!window, ViewInPlace,
            V!TicksBeforeStop
    <2>5. CASE V!ChangePictures
        BY <2>5 DEF VInv, V!ChangePictures, V!Change, V!Kick, V!window, ViewInPlace,
            V!TicksBeforeStop
    <2>6. CASE V!ChangeLinks
        BY <2>6 DEF VInv, V!ChangeLinks, V!Change, V!Kick, V!window, ViewInPlace,
            V!TicksBeforeStop
    <2>7. CASE V!Resize
        BY <2>7 DEF VInv, V!Resize, V!Change, V!Kick, V!window, ViewInPlace,
            V!TicksBeforeStop
    <2>8. CASE V!ChangePlugins
        BY <2>8 DEF VInv, V!ChangePlugins, V!Change, V!Kick, V!window, ViewInPlace,
            V!TicksBeforeStop
    <2>9. CASE V!TableRow
        BY <2>9 DEF VInv, V!TableRow, V!Kick, V!Reach, V!Places, V!window, ViewInPlace,
            V!TicksBeforeStop
    <2> QED
        BY <2>1, <2>2, <2>3, <2>4, <2>5, <2>6, <2>7, <2>8, <2>9
<1>3. V!LoopIsAwake'
    BY DEF V!Move, V!Follow, V!Grab, V!ChangeMariner, V!ChangePictures, V!ChangeLinks,
        V!Resize, V!ChangePlugins, V!TableRow, V!Kick, V!Change, V!Open, V!LoopIsAwake
<1>4. V!HoleIsFilled'
    BY DEF VInv, V!Move, V!Follow, V!Grab, V!ChangeMariner, V!ChangePictures, V!ChangeLinks,
        V!Resize, V!ChangePlugins, V!TableRow, V!Change, V!window, V!HoleIsFilled
<1>5. V!PoseIsOfCharts'
    BY PlacesDiffer DEF VInv, V!Move, V!Follow, V!Grab, V!ChangeMariner, V!ChangePictures,
        V!ChangeLinks, V!Resize, V!ChangePlugins, V!TableRow, V!Change, V!Reach,
        V!PoseIsOfCharts
<1>6. V!OneThing'
    <2>1. CASE V!Move
        BY <2>1 DEF VInv, V!Move, V!Retire, V!OneThing
    <2>2. CASE V!Follow(on)
        BY <2>2 DEF VInv, V!Follow, V!Retire, V!OneThing
    <2>3. CASE V!Grab
        BY <2>3 DEF VInv, V!Grab, V!over, V!OneThing
    <2>4. CASE V!ChangeMariner
        BY <2>4 DEF VInv, V!ChangeMariner, V!Change, V!over, V!OneThing
    <2>5. CASE V!ChangePictures
        BY <2>5 DEF VInv, V!ChangePictures, V!Change, V!over, V!OneThing
    <2>6. CASE V!ChangeLinks
        BY <2>6 DEF VInv, V!ChangeLinks, V!Change, V!over, V!OneThing
    <2>7. CASE V!Resize
        BY <2>7 DEF VInv, V!Resize, V!Change, V!over, V!OneThing
    <2>8. CASE V!ChangePlugins
        BY <2>8 DEF VInv, V!ChangePlugins, V!Change, V!over, V!OneThing
    <2>9. CASE V!TableRow
        BY <2>9 DEF V!TableRow, V!Pin, V!Unpin, V!OneThing
    <2> QED
        BY <2>1, <2>2, <2>3, <2>4, <2>5, <2>6, <2>7, <2>8, <2>9
<1> QED
    BY <1>1, <1>2, <1>3, <1>4, <1>5, <1>6 DEF VInv

\* The menu, the report, the pin and what takes them down.
LEMMA ClickKeeps ==
    ASSUME VInv,
           \/ V!Tap \/ V!Track \/ V!OpenMenu
           \/ V!MenuPick \/ V!MenuMark \/ V!Escape \/ V!Dismiss
    PROVE  VInv'
<1>1. ViewFlags'
    BY Zenon DEF VInv, V!Tap, V!Track, V!OpenMenu, V!MenuPick, V!MenuMark, V!Escape,
        V!Dismiss, V!Kick, V!Pin, V!Unpin, V!chart, V!frame, V!window, ViewFlags
<1>2. ViewInPlace'
    <2>1. CASE V!Tap
        BY <2>1 DEF VInv, V!Tap, V!Open, V!chart, V!frame, V!window, ViewInPlace
    <2>2. CASE V!Track
        BY <2>2 DEF VInv, V!Track, V!Open, V!chart, V!frame, V!window, ViewInPlace
    <2>3. CASE V!OpenMenu
        BY <2>3 DEF VInv, V!OpenMenu, V!chart, V!frame, V!window, ViewInPlace
    <2>4. CASE V!MenuPick
        BY <2>4 DEF VInv, V!MenuPick, V!Open, V!chart, V!frame, V!window, ViewInPlace
    <2>5. CASE V!MenuMark
        BY <2>5 DEF VInv, V!MenuMark, V!Kick, V!Open, V!chart, V!window, ViewInPlace,
            V!TicksBeforeStop
    <2>6. CASE V!Escape
        BY <2>6 DEF VInv, V!Escape, V!Open, V!chart, V!frame, V!window, ViewInPlace
    <2>7. CASE V!Dismiss
        BY <2>7 DEF VInv, V!Dismiss, V!Open, V!chart, V!frame, V!window, ViewInPlace
    <2> QED
        BY <2>1, <2>2, <2>3, <2>4, <2>5, <2>6, <2>7
<1>3. V!LoopIsAwake'
    <2>1. CASE V!Tap
        BY <2>1 DEF VInv, V!Tap, V!Open, V!chart, V!frame, V!LoopIsAwake
    <2>2. CASE V!Track
        BY <2>2 DEF VInv, V!Track, V!Open, V!chart, V!frame, V!LoopIsAwake
    <2>3. CASE V!OpenMenu
        BY <2>3 DEF VInv, V!OpenMenu, V!Open, V!chart, V!frame, V!LoopIsAwake
    <2>4. CASE V!MenuPick
        BY <2>4 DEF VInv, V!MenuPick, V!Open, V!chart, V!frame, V!LoopIsAwake
    <2>5. CASE V!MenuMark
        BY <2>5 DEF VInv, V!MenuMark, V!Kick, V!Open, V!chart, V!LoopIsAwake
    <2>6. CASE V!Escape
        BY <2>6 DEF VInv, V!Escape, V!Open, V!chart, V!frame, V!LoopIsAwake
    <2>7. CASE V!Dismiss
        BY <2>7 DEF VInv, V!Dismiss, V!Open, V!chart, V!frame, V!LoopIsAwake
    <2> QED
        BY <2>1, <2>2, <2>3, <2>4, <2>5, <2>6, <2>7
<1>4. V!HoleIsFilled'
    BY DEF VInv, V!Tap, V!Track, V!OpenMenu, V!MenuPick, V!MenuMark, V!Escape, V!Dismiss,
        V!window, V!HoleIsFilled
<1>5. V!PoseIsOfCharts'
    BY DEF VInv, V!Tap, V!Track, V!OpenMenu, V!MenuPick, V!MenuMark, V!Escape, V!Dismiss,
        V!chart, V!PoseIsOfCharts
<1>6. V!OneThing'
    <2>1. CASE V!Tap
        BY <2>1 DEF VInv, V!Tap, V!Pin, V!Unpin, V!OneThing
    <2>2. CASE V!Track
        BY <2>2 DEF VInv, V!Track, V!OneThing
    <2>3. CASE V!OpenMenu
        BY <2>3 DEF V!OpenMenu, V!Unpin, V!OneThing
    <2>4. CASE V!MenuPick
        BY <2>4 DEF VInv, V!MenuPick, V!OneThing
    <2>5. CASE V!MenuMark
        BY <2>5 DEF VInv, V!MenuMark, V!OneThing
    <2>6. CASE V!Escape
        BY <2>6 DEF VInv, V!Escape, V!Unpin, V!OneThing
    <2>7. CASE V!Dismiss
        BY <2>7 DEF VInv, V!Dismiss, V!OneThing
    <2> QED
        BY <2>1, <2>2, <2>3, <2>4, <2>5, <2>6, <2>7
<1> QED
    BY <1>1, <1>2, <1>3, <1>4, <1>5, <1>6 DEF VInv

\* The view rests.
LEMMA ViewRestKeeps == ASSUME VInv, UNCHANGED V!vars PROVE VInv'
<1>1. ViewFlags' /\ ViewInPlace' /\ V!LoopIsAwake' /\ V!HoleIsFilled'
    BY Zenon DEF VInv, V!vars, V!over, V!chart, V!frame, V!window, ViewFlags, ViewInPlace,
        V!LoopIsAwake, V!HoleIsFilled, V!Open
<1>2. V!PoseIsOfCharts' /\ V!OneThing'
    BY DEF VInv, V!vars, V!over, V!chart, V!PoseIsOfCharts, V!OneThing
<1> QED
    BY <1>1, <1>2 DEF VInv

\* Every step of the view keeps the invariant.
LEMMA NextVInv == VInv /\ [V!Next]_V!vars => VInv'
<1> SUFFICES ASSUME VInv, [V!Next]_V!vars PROVE VInv'
    OBVIOUS
<1>1. CASE V!Frame(TRUE) \/ V!Frame(FALSE)
    BY <1>1, FrameKeeps
<1>2. CASE V!Wake \/ V!PluginPosts \/ V!Tessellated \/ V!Grant
    BY <1>2, BesideKeeps
<1>3. CASE \/ V!OpenChart("empty") \/ V!OpenChart("charts") \/ V!OpenFails
           \/ V!Realize \/ V!Unrealize
    BY <1>3, OpenKeeps
<1>4. CASE \/ V!Move \/ V!Follow(TRUE) \/ V!Follow(FALSE) \/ V!Grab \/ V!ChangeMariner
           \/ V!ChangePictures \/ V!ChangeLinks \/ V!Resize \/ V!ChangePlugins \/ V!TableRow
    BY <1>4, ChartKeeps
<1>5. CASE \/ V!Tap \/ V!Track \/ V!OpenMenu
           \/ V!MenuPick \/ V!MenuMark \/ V!Escape \/ V!Dismiss
    BY <1>5, ClickKeeps
<1>6. CASE UNCHANGED V!vars
    BY <1>6, ViewRestKeeps
<1> QED
    BY <1>1, <1>2, <1>3, <1>4, <1>5, <1>6 DEF V!Next

-------------------------------------------------------------------------------
(* The strip of alerts                                                       *)

\* What runs and what does not.
StripFlags == {watched, plugins, watch, siren} \subseteq BOOLEAN

\* Alerts under numbers of their own, all given out.
Numbered(as, n) ==
    /\ as \subseteq A!Alerts
    /\ \A a \in as : a.id < n
    /\ \A a, b \in as : a.id = b.id => a = b

\* The inductive invariant of the strip: the copy is no newer than the list, both are of
\* one handle's numbers, and a handle without plugins has nothing in either.
AInv ==
    /\ shell \in {"linux", "windows"} /\ StripFlags
    /\ Numbered(book, next) /\ Numbered(list, next)
    /\ seq \in Nat /\ next \in 1 .. MaxIds + 1 /\ known \in Nat \cup {-1}
    /\ known <= seq
    /\ plugins => watched
    /\ ~plugins => book = {} /\ list = {} /\ known = -1
    /\ A!CopyIsTheBook /\ A!RowNamesItsAlert /\ A!WatchIsOfTheLayer
    /\ siren = A!Audible(list)

\* The bounds of the strip are numbers.
LEMMA StripNumbers ==
    MaxIds \in Nat /\ MaxVisible \in Nat /\ MaxVisible > 0 /\ MaxAlerts \in Nat
BY StripBounds

\* What an alert is made of.
LEMMA AlertFields ==
    ASSUME NEW a \in A!Alerts
    PROVE  /\ a.id \in Nat /\ a.id \in 1 .. MaxIds
           /\ a.severity \in A!Severities /\ a.ack \in BOOLEAN
<1>1. a.id \in 1 .. MaxIds /\ a.severity \in A!Severities /\ a.ack \in BOOLEAN
    BY DEF A!Alerts
<1> QED
    BY <1>1

\* An alert told again, louder, is the same alert.
LEMMA Restated ==
    ASSUME NEW a \in A!Alerts, NEW s \in A!Severities
    PROVE  LET b == [a EXCEPT !.severity = s, !.ack = FALSE]
           IN  b \in A!Alerts /\ b.id = a.id /\ b.cond = a.cond
BY DEF A!Alerts

\* An alert answered is the same alert.
LEMMA Answered ==
    ASSUME NEW a \in A!Alerts
    PROVE  LET b == [a EXCEPT !.ack = TRUE]
           IN  b \in A!Alerts /\ b.id = a.id /\ b.cond = a.cond
BY DEF A!Alerts

\* A set of naturals that is not empty has a least.
LEMMA Least == ASSUME NEW N \in SUBSET Nat, N # {} PROVE \E x \in N : \A y \in N : x <= y
<1>1. PICK x \in N : \A y \in N : <<y, x>> \notin OpToRel(<, Nat)
    BY NatLessThanWellFounded, WFMin
<1>2. \A y \in N : ~ (y < x)
    BY <1>1 DEF OpToRel
<1>3. \A y \in N : x <= y
    BY <1>2
<1> QED
    BY <1>3

\* The strip's count of a set is the library's.
LEMMA SameCardinality == \A S : A!Cardinality(S) = Cardinality(S)
BY DEF A!Cardinality, Cardinality

\* The oldest of the alarms nobody answered has nothing before it.
LEMMA LoudestIsShown ==
    ASSUME NEW as, as \subseteq A!Alerts, A!Audible(as)
    PROVE  \E a \in A!Shown(as) : a.severity = "alarm"
<1> DEFINE loud == {a \in as : a.severity = "alarm" /\ ~a.ack}
           ids == {a.id : a \in loud}
<1>1. ids \in SUBSET Nat
    <2>1. \A a \in as : a.id \in Nat
        BY AlertFields
    <2> QED
        BY <2>1
<1>6. ids # {}
    BY DEF A!Audible
<1>2. PICK i \in ids : \A j \in ids : i <= j
    BY <1>1, <1>6, Least
<1>3. PICK a \in loud : a.id = i
    OBVIOUS
<1>4. \A b \in as : ~A!Before(b, a)
    <2> SUFFICES ASSUME NEW b \in as, A!Before(b, a) PROVE FALSE
        OBVIOUS
    <2>1. ~b.ack /\ b.severity = "alarm" /\ b.id < a.id
        BY DEF A!Before, A!Louder
    <2>2. b.id \in ids
        BY <2>1
    <2>3. i <= b.id /\ i \in Nat /\ b.id \in Nat
        BY <1>1, <1>2, <2>2
    <2> QED
        BY <1>3, <2>1, <2>3
<1>5. A!Cardinality({b \in as : A!Before(b, a)}) = 0
    BY <1>4, SameCardinality, FS_EmptySet
<1> QED
    BY <1>5, StripNumbers DEF A!Shown

\* Alerts of their own numbers are finitely many.
LEMMA NumberedIsFinite ==
    ASSUME NEW as, NEW n \in Nat, Numbered(as, n)
    PROVE  IsFiniteSet(as)
<1> DEFINE f == [a \in as |-> a.id]
<1>1. f \in Injection(as, 1 .. MaxIds)
    BY DEF Numbered, A!Alerts, Injection, IsInjective
<1>2. IsFiniteSet(1 .. MaxIds)
    BY FS_Interval, StripNumbers
<1> QED
    BY <1>1, <1>2, FS_Injection

\* What is taken out of a list is counted, and none is taken when none is counted.
LEMMA TakenOut ==
    ASSUME NEW as, IsFiniteSet(as), NEW kept \in SUBSET as
    PROVE  /\ A!Cardinality(as \ kept) \in Nat
           /\ A!Cardinality(as \ kept) = 0 => kept = as
<1>1. IsFiniteSet(as \ kept)
    BY FS_Subset
<1>2. Cardinality(as \ kept) \in Nat
    BY <1>1, FS_CardinalityType
<1>3. Cardinality(as \ kept) = 0 => as \ kept = {}
    BY <1>1, FS_EmptySet
<1> QED
    BY <1>2, <1>3, SameCardinality

\* What any step of the broker does to its list: numbers are not given twice, and the
\* list's own moves whenever the list does.
BookMoves ==
    /\ Numbered(book', next')
    /\ seq' \in Nat /\ seq <= seq' /\ (seq' = seq => book' = book)
    /\ next <= next' /\ next' \in 1 .. MaxIds + 1
    /\ \A b \in book' : b.id < next => \E a \in book : a.id = b.id /\ a.cond = b.cond

\* What is kept of a numbered list is numbered.
LEMMA KeptIsNumbered ==
    ASSUME NEW as, NEW n, Numbered(as, n), NEW kept \in SUBSET as
    PROVE  Numbered(kept, n)
BY DEF Numbered

\* Clearing the idle ones keeps the others as they are.
LEMMA ClearedIsKept == ASSUME NEW as, NEW kept \in A!Cleared(as) PROVE kept \in SUBSET as
BY DEF A!Cleared

\* A restatement: a louder one is not answered.
LEMMA RestateMoves ==
    ASSUME AInv, NEW kept \in SUBSET book, NEW a \in kept, NEW severity \in A!Severities,
           A!Restate(a, severity, kept)
    PROVE  BookMoves
<1> DEFINE louder == A!Louder(severity, a.severity)
           now == IF louder THEN [a EXCEPT !.severity = severity, !.ack = FALSE] ELSE a
<1>0. book \subseteq A!Alerts /\ a \in A!Alerts
    BY DEF AInv, Numbered
<1>1. now \in A!Alerts /\ now.id = a.id /\ now.cond = a.cond
    BY <1>0, Restated
<1>2. book' = (kept \ {a}) \cup {now} /\ next' = next
    BY DEF A!Restate
<1>3. Numbered(book', next')
    <2>1. Numbered(book, next) /\ a \in book
        BY DEF AInv
    <2>2. book' \subseteq A!Alerts /\ \A b \in book' : b.id < next'
        BY <1>1, <1>2, <2>1 DEF Numbered
    <2>3. \A b \in kept \ {a} : b.id # a.id
        BY <2>1 DEF Numbered
    <2>4. \A b, c \in book' : b.id = c.id => b = c
        BY <1>1, <1>2, <2>1, <2>3 DEF Numbered
    <2> QED
        BY <2>2, <2>4 DEF Numbered
<1>4. PICK words \in BOOLEAN :
         seq' = seq + A!Cardinality(book \ kept) + (IF words \/ louder THEN 1 ELSE 0)
    BY DEF A!Restate
<1>5. /\ A!Cardinality(book \ kept) \in Nat
      /\ A!Cardinality(book \ kept) = 0 => kept = book
    <2>1. next \in Nat /\ Numbered(book, next)
        BY DEF AInv
    <2>2. IsFiniteSet(book)
        BY <2>1, NumberedIsFinite
    <2> QED
        BY <2>2, TakenOut
<1>6. seq' \in Nat /\ seq <= seq'
    BY <1>4, <1>5 DEF AInv
<1>7. seq' = seq => kept = book /\ ~louder
    BY <1>4, <1>5
<1>8. seq' = seq => book' = book
    BY <1>2, <1>7
<1>9. \A b \in book' : \E c \in book : c.id = b.id /\ c.cond = b.cond
    BY <1>1, <1>2
<1> QED
    BY <1>2, <1>3, <1>6, <1>8, <1>9 DEF BookMoves, AInv

\* A raise that is new, or is refused.
LEMMA RaiseMoves ==
    ASSUME AInv, NEW c \in Conds, NEW severity \in A!Severities, A!Raise(c, severity)
    PROVE  BookMoves
<1>1. PICK kept \in A!Cleared(book) :
         \/ \E a \in kept : a.cond = c /\ A!Restate(a, severity, kept)
         \/ /\ \A a \in kept : a.cond # c
            /\ IF A!Cardinality(A!Room(kept)) < MaxAlerts
               THEN /\ book' = A!Room(kept) \cup
                         {[id |-> next, cond |-> c, severity |-> severity, ack |-> FALSE]}
                    /\ seq' = seq + A!Cardinality(book \ A!Room(kept)) + 1
                    /\ next' = next + 1
               ELSE /\ book' = kept /\ seq' = seq + A!Cardinality(book \ kept)
                    /\ UNCHANGED next
    BY DEF A!Raise
<1>2. kept \in SUBSET book /\ A!Room(kept) \in SUBSET book
    BY ClearedIsKept DEF A!Room
<1>3. IsFiniteSet(book) /\ seq \in Nat /\ next \in Nat /\ next <= MaxIds
    BY NumberedIsFinite DEF AInv, A!Raise
<1>4. CASE \E a \in kept : a.cond = c /\ A!Restate(a, severity, kept)
    BY <1>2, <1>4, RestateMoves
<1>5. CASE /\ book' = A!Room(kept) \cup
                 {[id |-> next, cond |-> c, severity |-> severity, ack |-> FALSE]}
           /\ seq' = seq + A!Cardinality(book \ A!Room(kept)) + 1
           /\ next' = next + 1
    <2> DEFINE new == [id |-> next, cond |-> c, severity |-> severity, ack |-> FALSE]
    <2>1. A!Cardinality(book \ A!Room(kept)) \in Nat
        BY <1>2, <1>3, TakenOut
    <2>2. new \in A!Alerts
        BY <1>3 DEF A!Alerts, AInv
    <2>3. Numbered(A!Room(kept), next)
        BY <1>2, KeptIsNumbered DEF AInv
    <2>4. \A a \in A!Room(kept) : a.id \in Nat
        BY <2>3 DEF Numbered, A!Alerts
    <2>5. Numbered(book', next')
        <3>1. book' \subseteq A!Alerts
            BY <1>5, <2>2, <2>3 DEF Numbered
        <3>2. \A b \in book' : b.id < next'
            BY <1>3, <1>5, <2>3, <2>4 DEF Numbered
        <3>3. \A b \in A!Room(kept) : b.id # next
            BY <2>3, <2>4 DEF Numbered
        <3>4. \A b, d \in A!Room(kept) : b.id = d.id => b = d
            BY <2>3 DEF Numbered
        <3>6. new.id = next
            OBVIOUS
        <3>7. book' = A!Room(kept) \cup {new}
            BY <1>5
        <3>5. \A b, d \in book' : b.id = d.id => b = d
            <4> HIDE DEF new
            <4> QED
                BY <3>3, <3>4, <3>6, <3>7
        <3> QED
            BY <3>1, <3>2, <3>5 DEF Numbered
    <2>6. \A b \in book' : b.id < next => \E a \in book : a.id = b.id /\ a.cond = b.cond
        BY <1>2, <1>3, <1>5
    <2>7. /\ seq' \in Nat /\ seq <= seq' /\ seq' # seq
          /\ next <= next' /\ next' \in 1 .. MaxIds + 1
        BY <1>3, <1>5, <2>1, StripNumbers
    <2> QED
        BY <2>5, <2>6, <2>7 DEF BookMoves
<1>6. CASE book' = kept /\ seq' = seq + A!Cardinality(book \ kept) /\ next' = next
    <2>1. /\ A!Cardinality(book \ kept) \in Nat
          /\ A!Cardinality(book \ kept) = 0 => kept = book
        BY <1>2, <1>3, TakenOut
    <2>2. Numbered(book', next')
        BY <1>2, <1>6, KeptIsNumbered DEF AInv
    <2>3. seq' \in Nat /\ seq <= seq' /\ (seq' = seq => book' = book)
        BY <1>3, <1>6, <2>1
    <2> QED
        BY <1>2, <1>6, <2>2, <2>3 DEF BookMoves, AInv
<1> QED
    BY <1>1, <1>4, <1>5, <1>6

\* The plugin is gone and its alerts with it.
LEMMA DropMoves == ASSUME AInv, A!Drop PROVE BookMoves
<1>1. book' = {} /\ seq' = seq + A!Cardinality(book) /\ next' = next /\ book # {}
    BY DEF A!Drop
<1>2. book \ {} = book
    OBVIOUS
<1>3. A!Cardinality(book) \in Nat /\ A!Cardinality(book) # 0
    <2>1. next \in Nat /\ Numbered(book, next)
        BY DEF AInv
    <2>2. IsFiniteSet(book)
        BY <2>1, NumberedIsFinite
    <2> QED
        BY <1>1, <1>2, <2>2, TakenOut
<1>4. seq' \in Nat /\ seq <= seq' /\ seq' # seq
    BY <1>1, <1>3 DEF AInv
<1> QED
    BY <1>1, <1>4 DEF BookMoves, AInv, Numbered

\* A read, over the list as it is or with one alert answered.
LEMMA ReadMoves ==
    ASSUME AInv, NEW as, Numbered(as, next), UNCHANGED next, A!Read(as),
           \A b \in as : \E a \in book : a.id = b.id /\ a.cond = b.cond,
           A!Cardinality(as \ book) \in Nat,
           A!Cardinality(as \ book) = 0 => as = book
    PROVE  BookMoves
<1>1. /\ book' \in SUBSET as
      /\ seq' = seq + A!Cardinality(as \ book') + A!Cardinality(as \ book)
    BY ClearedIsKept DEF A!Read
<1>2. /\ A!Cardinality(as \ book') \in Nat
      /\ A!Cardinality(as \ book') = 0 => book' = as
    <2>1. next \in Nat
        BY DEF AInv
    <2>2. IsFiniteSet(as)
        BY <2>1, NumberedIsFinite
    <2> QED
        BY <1>1, <2>2, TakenOut
<1>3. Numbered(book', next')
    BY <1>1, KeptIsNumbered
<1>5. seq \in Nat /\ next \in Nat /\ next \in 1 .. MaxIds + 1
    BY DEF AInv
<1>4. seq' \in Nat /\ seq <= seq' /\ (seq' = seq => book' = as /\ as = book)
    <2> DEFINE m == A!Cardinality(as \ book')
               n == A!Cardinality(as \ book)
    <2>1. /\ m \in Nat /\ n \in Nat /\ seq' = seq + m + n
          /\ m = 0 => book' = as
          /\ n = 0 => as = book
        BY <1>1, <1>2
    <2> HIDE DEF m, n
    <2>2. seq' \in Nat /\ seq <= seq' /\ (seq' = seq => m = 0 /\ n = 0)
        BY <1>5, <2>1
    <2> QED
        BY <2>1, <2>2
<1>6. next <= next' /\ next' \in 1 .. MaxIds + 1
    BY <1>5
<1>7. \A b \in book' : b.id < next => \E a \in book : a.id = b.id /\ a.cond = b.cond
    BY <1>1
<1>8. seq' = seq => book' = book
    BY <1>4
<1> QED
    BY <1>3, <1>4, <1>6, <1>7, <1>8 DEF BookMoves

\* The poll of a second reads the list as it is.
LEMMA PollMoves == ASSUME AInv, UNCHANGED next, A!Read(book) PROVE BookMoves
<1>1. A!Cardinality(book \ book) = 0
    BY FS_EmptySet, SameCardinality
<1> QED
    BY <1>1, ReadMoves DEF AInv

\* An acknowledgement reads the list with one alert answered.
LEMMA AckMoves == ASSUME AInv, NEW id, UNCHANGED next, A!Read(A!Acked(id)) PROVE BookMoves
<1> DEFINE as == A!Acked(id)
<1>1. \A b \in as : \E a \in book : b = a \/ b = [a EXCEPT !.ack = TRUE]
    BY DEF A!Acked
<1>2. \A a \in A!Alerts : LET b == [a EXCEPT !.ack = TRUE]
                          IN  b \in A!Alerts /\ b.id = a.id /\ b.cond = a.cond
    BY DEF A!Alerts
<1>7. Numbered(book, next) /\ book \subseteq A!Alerts
    BY DEF AInv, Numbered
<1>3. \A b \in as : b \in A!Alerts /\ \E a \in book : a.id = b.id /\ a.cond = b.cond
    BY <1>1, <1>2, <1>7
<1>4. Numbered(as, next)
    <2>1. ASSUME NEW b \in as, NEW d \in as, b.id = d.id PROVE b = d
        <3>1. PICK a \in book : b = IF a.id = id THEN [a EXCEPT !.ack = TRUE] ELSE a
            BY DEF A!Acked
        <3>2. PICK c \in book : d = IF c.id = id THEN [c EXCEPT !.ack = TRUE] ELSE c
            BY DEF A!Acked
        <3>3. a.id = b.id /\ c.id = d.id
            BY <3>1, <3>2
        <3>4. a = c
            BY <1>7, <2>1, <3>3 DEF Numbered
        <3> QED
            BY <3>1, <3>2, <3>4
    <2> QED
        BY <1>3, <2>1 DEF AInv, Numbered
<1>5. A!Cardinality(as \ book) \in Nat
    <2>1. next \in Nat
        BY DEF AInv
    <2>2. IsFiniteSet(as)
        BY <1>4, <2>1, NumberedIsFinite
    <2>3. IsFiniteSet(as \ book)
        BY <2>2, FS_Subset
    <2> QED
        BY <2>3, FS_CardinalityType, SameCardinality
<1>6. A!Cardinality(as \ book) = 0 => as = book
    <2> SUFFICES ASSUME A!Cardinality(as \ book) = 0 PROVE as = book
        OBVIOUS
    <2>1. as \subseteq book
        <3>1. next \in Nat
            BY DEF AInv
        <3>2. IsFiniteSet(as)
            BY <1>4, <3>1, NumberedIsFinite
        <3>3. IsFiniteSet(as \ book)
            BY <3>2, FS_Subset
        <3> QED
            BY <3>3, FS_EmptySet, SameCardinality
    <2>2. ASSUME NEW a \in book PROVE a \in as
        <3>1. CASE a.id # id
            BY <3>1 DEF A!Acked
        <3>2. CASE a.id = id
            <4>1. [a EXCEPT !.ack = TRUE] \in as
                BY <3>2 DEF A!Acked
            <4>2. [a EXCEPT !.ack = TRUE] = a
                BY <1>2, <2>1, <4>1 DEF AInv, Numbered
            <4> QED
                BY <4>1, <4>2
        <3> QED
            BY <3>1, <3>2
    <2> QED
        BY <2>1, <2>2
<1> QED
    BY <1>3, <1>4, <1>5, <1>6, ReadMoves

\* The list moves and the strip has not looked.
LEMMA StripRests ==
    ASSUME AInv, BookMoves, plugins,
           UNCHANGED <<shell, watched, plugins, watch, known, list, siren>>
    PROVE  AInv'
<1>1. StripFlags' /\ shell' \in {"linux", "windows"} /\ plugins' /\ watched'
    BY Zenon DEF AInv, StripFlags
<1>2. Numbered(book', next')
    BY DEF BookMoves
<1>3. Numbered(list', next')
    <2>1. list \subseteq A!Alerts /\ \A a \in list : a.id < next
        BY DEF AInv, Numbered
    <2>2. next \in Nat /\ next' \in Nat /\ next <= next'
        BY DEF AInv, BookMoves
    <2>3. \A a \in list : a.id < next'
        BY <2>1, <2>2, AlertFields
    <2> QED
        BY <2>3 DEF AInv, Numbered
<1>4. /\ seq \in Nat /\ seq' \in Nat /\ seq <= seq' /\ next' \in 1 .. MaxIds + 1
      /\ known \in Nat \cup {-1} /\ known <= seq /\ known' = known
    BY DEF AInv, BookMoves
<1>5. known' \in Nat \cup {-1} /\ known' <= seq'
    BY <1>4
<1>6. A!CopyIsTheBook'
    <2> SUFFICES ASSUME known' = seq' PROVE list' = book'
        BY DEF A!CopyIsTheBook
    <2>1. seq' = seq /\ known = seq
        BY <1>4
    <2>2. book' = book /\ list = book
        BY <2>1 DEF AInv, A!CopyIsTheBook, BookMoves
    <2> QED
        BY <2>2
<1>7. A!RowNamesItsAlert'
    <2> SUFFICES ASSUME NEW a \in list, NEW b \in book', a.id = b.id PROVE a.cond = b.cond
        BY DEF A!RowNamesItsAlert
    <2>1. b.id < next
        BY DEF AInv, Numbered
    <2>2. PICK c \in book : c.id = b.id /\ c.cond = b.cond
        BY <2>1 DEF BookMoves
    <2> QED
        BY <2>2 DEF AInv, A!RowNamesItsAlert
<1>8. A!WatchIsOfTheLayer'
    BY Zenon DEF AInv, A!WatchIsOfTheLayer
<1>9. siren' = A!Audible(list')
    BY Zenon DEF AInv
<1> QED
    BY Zenon, <1>1, <1>2, <1>3, <1>4, <1>5, <1>6, <1>7, <1>8, <1>9 DEF AInv

\* The strip takes a copy: whether or not the number moved, it is the list.
LEMMA StripTakes ==
    ASSUME AInv, BookMoves, plugins, NEW at \in {known, -1}, A!Take(at),
           UNCHANGED <<shell, watched, plugins, watch>>
    PROVE  AInv'
<1>1. /\ seq \in Nat /\ seq' \in Nat /\ seq <= seq' /\ next' \in 1 .. MaxIds + 1
      /\ known \in Nat \cup {-1} /\ known <= seq /\ known' = seq'
    BY DEF AInv, BookMoves, A!Take
<1>2. list' = book'
    <2>1. CASE at # seq'
        BY <2>1 DEF A!Take
    <2>2. CASE at = seq'
        <3>1. known = seq /\ seq' = seq
            BY <1>1, <2>2
        <3>2. book' = book /\ list = book
            BY <3>1 DEF AInv, A!CopyIsTheBook, BookMoves
        <3> QED
            BY <3>2 DEF A!Take
    <2> QED
        BY <2>1, <2>2
<1>3. Numbered(book', next')
    BY DEF BookMoves
<1>4. Numbered(list', next')
    BY <1>2, <1>3
<1>5. known' \in Nat \cup {-1} /\ known' <= seq'
    BY <1>1
<1>6. A!CopyIsTheBook'
    BY <1>2 DEF A!CopyIsTheBook
<1>7. A!RowNamesItsAlert'
    BY <1>2, <1>3 DEF A!RowNamesItsAlert, Numbered
<1>8. A!WatchIsOfTheLayer'
    BY Zenon DEF AInv, A!WatchIsOfTheLayer
<1>9. siren' = A!Audible(list') /\ siren' \in BOOLEAN
    BY Zenon DEF A!Take, A!Audible
<1>10. StripFlags' /\ shell' \in {"linux", "windows"} /\ plugins' /\ watched'
    BY Zenon, <1>9 DEF AInv, StripFlags
<1> QED
    BY Zenon, <1>1, <1>3, <1>4, <1>5, <1>6, <1>7, <1>8, <1>9, <1>10 DEF AInv

\* A strip over a handle that has said nothing.
LEMMA StripBegins ==
    ASSUME AInv, UNCHANGED shell, {watched', plugins', watch'} \subseteq BOOLEAN,
           plugins' => watched', book' = {}, seq' = 0, next' = 1,
           list' = {}, siren' = FALSE,
           known' \in {0, -1}, ~plugins' => known' = -1,
           shell = "linux" => (watch' <=> plugins')
    PROVE  AInv'
<1>1. StripFlags' /\ shell' \in {"linux", "windows"}
    BY Zenon DEF AInv, StripFlags
<1>2. Numbered(book', next') /\ Numbered(list', next')
    BY DEF Numbered
<1>3. /\ seq' \in Nat /\ next' \in 1 .. MaxIds + 1 /\ known' \in Nat \cup {-1}
      /\ known' <= seq'
    BY StripNumbers
<1>4. A!CopyIsTheBook' /\ A!RowNamesItsAlert'
    BY DEF A!CopyIsTheBook, A!RowNamesItsAlert
<1>5. A!WatchIsOfTheLayer'
    BY Zenon DEF A!WatchIsOfTheLayer
<1>6. siren' = A!Audible(list')
    BY Zenon DEF A!Audible
<1> QED
    BY Zenon, <1>1, <1>2, <1>3, <1>4, <1>5, <1>6 DEF AInv

\* Nothing readable, nothing shown.
LEMMA BlankKeeps ==
    ASSUME AInv, A!Blank, UNCHANGED <<shell, watched, plugins, book, seq, next, watch>>
    PROVE  AInv'
<1>1. /\ list' = {} /\ siren' = FALSE
      /\ list = {} => known' = known
      /\ list # {} => known' = -1
    BY DEF A!Blank
<1>2. StripFlags' /\ shell' \in {"linux", "windows"} /\ (plugins' => watched')
    BY Zenon, <1>1 DEF AInv, StripFlags
<1>3. Numbered(book', next') /\ Numbered(list', next')
    BY <1>1 DEF AInv, Numbered
<1>4. /\ seq' \in Nat /\ next' \in 1 .. MaxIds + 1 /\ known' \in Nat \cup {-1}
      /\ known' <= seq' /\ (~plugins' => book' = {} /\ known' = -1)
    BY <1>1 DEF AInv
<1>5. A!CopyIsTheBook'
    <2>1. CASE list = {}
        BY <1>1 DEF AInv, A!CopyIsTheBook
    <2>2. CASE list # {}
        BY <1>1 DEF AInv, A!CopyIsTheBook
    <2> QED
        BY <2>1, <2>2
<1>6. A!RowNamesItsAlert'
    BY <1>1 DEF A!RowNamesItsAlert
<1>7. A!WatchIsOfTheLayer'
    BY Zenon DEF AInv, A!WatchIsOfTheLayer
<1>8. siren' = A!Audible(list')
    BY Zenon, <1>1 DEF A!Audible
<1> QED
    BY Zenon, <1>1, <1>2, <1>3, <1>4, <1>5, <1>6, <1>7, <1>8 DEF AInv

\* The layer comes up over the handle there is.
LEMMA InstallKeeps ==
    ASSUME AInv, watched, plugins' = TRUE,
           UNCHANGED <<shell, watched, book, seq, next>>,
           \/ shell = "windows" /\ UNCHANGED <<watch, known, list, siren>>
           \/ shell = "linux" /\ watch /\ UNCHANGED <<watch, known, list, siren>>
           \/ shell = "linux" /\ ~watch /\ A!Started
    PROVE  AInv'
<1>1. CASE UNCHANGED <<watch, known, list, siren>> /\ (shell = "linux" => watch)
    <2>1. StripFlags' /\ shell' \in {"linux", "windows"} /\ plugins' /\ watched'
        BY Zenon, <1>1 DEF AInv, StripFlags
    <2>2. Numbered(book', next') /\ Numbered(list', next')
        BY <1>1 DEF AInv
    <2>3. /\ seq' \in Nat /\ next' \in 1 .. MaxIds + 1 /\ known' \in Nat \cup {-1}
          /\ known' <= seq'
        BY <1>1 DEF AInv
    <2>4. A!CopyIsTheBook'
        <3>1. ~plugins => known' # seq'
            BY <1>1 DEF AInv
        <3> QED
            BY <1>1, <3>1 DEF AInv, A!CopyIsTheBook
    <2>5. A!RowNamesItsAlert'
        BY <1>1 DEF AInv, A!RowNamesItsAlert
    <2>6. A!WatchIsOfTheLayer'
        BY Zenon, <1>1 DEF A!WatchIsOfTheLayer
    <2>7. siren' = A!Audible(list')
        BY Zenon, <1>1 DEF AInv
    <2> QED
        BY Zenon, <2>1, <2>2, <2>3, <2>4, <2>5, <2>6, <2>7 DEF AInv
<1>2. CASE shell = "linux" /\ ~watch /\ A!Started
    <2>1. ~plugins /\ book = {}
        BY <1>2 DEF AInv, A!WatchIsOfTheLayer
    <2>2. watch' = TRUE /\ list' = {} /\ known' = 0 /\ siren' = FALSE
        BY <1>2 DEF A!Started
    <2>3. StripFlags' /\ shell' \in {"linux", "windows"} /\ plugins' /\ watched'
        BY Zenon, <2>2 DEF StripFlags
    <2>4. Numbered(book', next') /\ Numbered(list', next')
        BY <2>2 DEF AInv, Numbered
    <2>5. /\ seq' \in Nat /\ next' \in 1 .. MaxIds + 1 /\ known' \in Nat \cup {-1}
          /\ known' <= seq'
        BY <2>2 DEF AInv
    <2>6. A!CopyIsTheBook' /\ A!RowNamesItsAlert'
        BY <2>1, <2>2 DEF A!CopyIsTheBook, A!RowNamesItsAlert
    <2>7. A!WatchIsOfTheLayer'
        BY Zenon, <2>2 DEF A!WatchIsOfTheLayer
    <2>8. siren' = A!Audible(list')
        BY Zenon, <2>2 DEF A!Audible
    <2> QED
        BY Zenon, <2>3, <2>4, <2>5, <2>6, <2>7, <2>8 DEF AInv
<1> QED
    BY <1>1, <1>2

\* No handle, nothing raised, nothing shown.
LEMMA InitAInv == A!Init => AInv
<1> SUFFICES ASSUME A!Init PROVE AInv
    OBVIOUS
<1>1. StripFlags /\ shell \in {"linux", "windows"}
    BY Zenon DEF A!Init, StripFlags
<1>2. Numbered(book, next) /\ Numbered(list, next)
    BY DEF A!Init, Numbered
<1>3. seq \in Nat /\ next \in 1 .. MaxIds + 1 /\ known \in Nat \cup {-1} /\ known <= seq
    BY StripNumbers DEF A!Init
<1>4. A!CopyIsTheBook /\ A!RowNamesItsAlert
    BY DEF A!Init, A!CopyIsTheBook, A!RowNamesItsAlert
<1>5. A!WatchIsOfTheLayer
    BY Zenon DEF A!Init, A!WatchIsOfTheLayer
<1>6. siren = A!Audible(list)
    BY Zenon DEF A!Init, A!Audible
<1>7. watched = FALSE /\ plugins = FALSE /\ book = {} /\ list = {} /\ known = -1
    BY DEF A!Init
<1> QED
    BY Zenon, <1>1, <1>2, <1>3, <1>4, <1>5, <1>6, <1>7 DEF AInv

\* Every step of the strip and its broker keeps the invariant.
LEMMA NextAInv == AInv /\ [A!Next]_(A!vars) => AInv'
<1> SUFFICES ASSUME AInv, [A!Next]_(A!vars) PROVE AInv'
    OBVIOUS
<1>1. CASE UNCHANGED A!vars
    BY <1>1 DEF A!vars, A!core, A!strip, AInv, StripFlags, A!CopyIsTheBook,
        A!RowNamesItsAlert, A!WatchIsOfTheLayer
<1>2. ASSUME NEW c \in Conds, NEW severity \in A!Severities, A!Raise(c, severity)
      PROVE  AInv'
    <2>1. plugins /\ UNCHANGED <<shell, watched, plugins, watch, known, list, siren>>
        BY <1>2 DEF A!Raise, A!strip
    <2> QED
        BY <1>2, <2>1, RaiseMoves, StripRests
<1>3. CASE A!Drop
    <2>1. plugins /\ UNCHANGED <<shell, watched, plugins, watch, known, list, siren>>
        BY <1>3 DEF A!Drop, A!strip, AInv
    <2> QED
        BY <1>3, <2>1, DropMoves, StripRests
<1>4. CASE A!LinuxPoll \/ A!WindowsPoll
    <2>1. /\ plugins /\ A!Read(book) /\ A!Take(known)
          /\ UNCHANGED <<shell, watched, plugins, next, watch>>
        BY <1>4 DEF A!LinuxPoll, A!WindowsPoll
    <2> QED
        BY <2>1, PollMoves, StripTakes
<1>5. CASE A!LinuxUnread \/ A!WindowsUnread
    <2>1. A!Blank /\ UNCHANGED <<shell, watched, plugins, book, seq, next, watch>>
        BY <1>5 DEF A!LinuxUnread, A!WindowsUnread, A!core
    <2> QED
        BY <2>1, BlankKeeps
<1>6. ASSUME NEW a \in list, A!LinuxAcknowledge(a) \/ A!WindowsAcknowledge(a) PROVE AInv'
    <2>1. /\ A!Read(A!Acked(a.id)) /\ A!Take(-1)
          /\ UNCHANGED <<shell, watched, plugins, next, watch>>
        BY <1>6 DEF A!LinuxAcknowledge, A!WindowsAcknowledge
    <2>2. plugins
        BY DEF AInv
    <2> QED
        BY <2>1, <2>2, AckMoves, StripTakes
<1>7. CASE A!LinuxOpen
    <2>1. /\ shell' = shell /\ watched' = TRUE /\ plugins' \in BOOLEAN
          /\ book' = {} /\ seq' = 0 /\ next' = 1
        BY <1>7 DEF A!LinuxOpen, A!Fresh
    <2>2. /\ list' = {} /\ siren' = FALSE /\ watch' = plugins'
          /\ known' \in {0, -1} /\ (~plugins' => known' = -1)
        BY <1>7, <2>1 DEF A!LinuxOpen, A!Started, A!Stopped
    <2> QED
        BY <2>1, <2>2, StripBegins
<1>8. CASE A!LinuxClose \/ A!WindowsClose
    <2>1. /\ shell' = shell /\ watched' = FALSE /\ plugins' = FALSE
          /\ book' = {} /\ seq' = 0 /\ next' = 1
          /\ list' = {} /\ siren' = FALSE /\ watch' = FALSE /\ known' = -1
        BY <1>8 DEF A!LinuxClose, A!WindowsClose, A!Gone, A!Stopped
    <2> QED
        BY <2>1, StripBegins
<1>9. CASE A!LinuxInstall
    <2>1. /\ shell = "linux" /\ watched /\ plugins' = TRUE
          /\ UNCHANGED <<shell, watched, book, seq, next>>
          /\ \/ watch /\ UNCHANGED <<watch, known, list, siren>>
             \/ ~watch /\ A!Started
        BY <1>9 DEF A!LinuxInstall, A!strip
    <2> QED
        BY <2>1, InstallKeeps
<1>10. CASE A!WindowsOpen \/ A!WindowsOpenForSetup
    <2>1. /\ shell' = shell /\ shell # "linux" /\ watched' = TRUE /\ plugins' \in BOOLEAN
          /\ book' = {} /\ seq' = 0 /\ next' = 1
        BY <1>10 DEF A!WindowsOpen, A!WindowsOpenForSetup, A!Fresh
    <2>2. /\ list' = {} /\ siren' = FALSE /\ watch' \in BOOLEAN
          /\ known' \in {0, -1} /\ (~plugins' => known' = -1)
        BY <1>10 DEF A!WindowsOpen, A!WindowsOpenForSetup, A!Started, A!Stopped
    <2> QED
        BY <2>1, <2>2, StripBegins
<1>11. CASE A!WindowsInstall
    <2>1. /\ shell = "windows" /\ watched /\ plugins' = TRUE
          /\ UNCHANGED <<shell, watched, book, seq, next, watch, known, list, siren>>
        BY <1>11 DEF A!WindowsInstall, A!strip
    <2> QED
        BY <2>1, InstallKeeps
<1> QED
    BY <1>1, <1>2, <1>3, <1>4, <1>5, <1>6, <1>7, <1>8, <1>9, <1>10, <1>11 DEF A!Next, A!Poll

\* From the invariant, what the run checks of the strip.
LEMMA StripFollows == AInv => A!TypeOK /\ A!StripIsTrue
<1> SUFFICES ASSUME AInv PROVE A!TypeOK /\ A!StripIsTrue
    OBVIOUS
<1>1. A!TypeOK
    BY DEF AInv, StripFlags, Numbered, A!TypeOK
<1>2. list \subseteq A!Alerts
    BY DEF AInv, Numbered
<1>3. siren => \E a \in A!Shown(list) : a.severity = "alarm"
    BY <1>2, LoudestIsShown DEF AInv
<1>4. A!SirenCanBeAnswered
    BY <1>3 DEF AInv, A!SirenCanBeAnswered
<1> QED
    BY <1>1, <1>4 DEF AInv, A!StripIsTrue

-------------------------------------------------------------------------------
(* The table                                                                 *)

\* A table that began anew, and of which nobody has been told.
Reborn == table.seq = 0 /\ table.open = FALSE /\ mail = <<>> /\ told = FALSE

\* The inductive invariant of the table: the number a window was read at is not ahead of
\* the table's, unless the table began anew behind its back.
TInv ==
    /\ T!TypeOK /\ T!PanelIsTrue
    /\ T!Up /\ T!Declared => win.seq <= table.seq \/ Reborn
    /\ T!Up /\ win.seq = 0 => win.rows = {}
    /\ T!Declared /\ table.seq = 0 => table.rows = {}
    /\ ~T!Declared => mail = <<>> /\ told = FALSE

\* The bounds of the table are numbers.
LEMMA PanelNumbers == MaxMail \in Nat /\ TableSeq \in Nat
BY PanelBounds

\* A queue with nothing in it.
LEMMA EmptyMail == <<>> \in T!Seq(BOOLEAN) /\ T!Len(<<>>) <= MaxMail
BY PanelNumbers

\* The word put in the queue is the last one.
LEMMA LastAppended ==
    ASSUME NEW s \in T!Seq(BOOLEAN), NEW x \in BOOLEAN
    PROVE  LET r == T!Append(s, x)
           IN  /\ r \in T!Seq(BOOLEAN) /\ r # <<>>
               /\ T!Len(r) = T!Len(s) + 1 /\ r[T!Len(r)] = x
OBVIOUS

\* Reading a word leaves the last one last, or was the reading of it.
LEMMA TailKeepsLast ==
    ASSUME NEW s \in T!Seq(BOOLEAN), s # <<>>
    PROVE  /\ T!Head(s) \in BOOLEAN /\ T!Tail(s) \in T!Seq(BOOLEAN)
           /\ T!Len(T!Tail(s)) = T!Len(s) - 1
           /\ T!Tail(s) = <<>> => T!Head(s) = s[T!Len(s)]
           /\ T!Tail(s) # <<>> => T!Tail(s)[T!Len(T!Tail(s))] = s[T!Len(s)]
<1>1. T!Len(s) \in Nat \ {0}
    OBVIOUS
<1>2. T!Tail(s) \in T!Seq(BOOLEAN) /\ T!Len(T!Tail(s)) = T!Len(s) - 1
    BY <1>1
<1>3. T!Head(s) \in BOOLEAN /\ T!Head(s) = s[1]
    BY <1>1
<1>4. \A i \in 1 .. T!Len(s) - 1 : T!Tail(s)[i] = s[i + 1]
    BY <1>1
<1>5. ASSUME T!Tail(s) = <<>> PROVE T!Len(s) = 1
    BY <1>1, <1>2, <1>5
<1>6. ASSUME T!Tail(s) # <<>> PROVE T!Tail(s)[T!Len(T!Tail(s))] = s[T!Len(s)]
    <2>1. T!Len(T!Tail(s)) # 0
        BY <1>2, <1>6
    <2> QED
        BY <1>1, <1>2, <1>4, <2>1
<1> QED
    BY <1>2, <1>3, <1>5, <1>6

\* What a table is made of, and that it is one.
LEMMA TableFields ==
    ASSUME NEW t \in T!Tables
    PROVE  /\ t # None /\ t.open \in BOOLEAN /\ t.rows \subseteq Vessels
           /\ t.seq \in 0 .. TableSeq /\ t.seq \in Nat
<1>1. t.open \in BOOLEAN /\ t.rows \subseteq Vessels /\ t.seq \in 0 .. TableSeq
    BY DEF T!Tables
<1>2. t # None
    BY NoneIsNoPanel
<1> QED
    BY <1>1, <1>2

\* A table as it is declared.
LEMMA NewTableIs ==
    /\ T!NewTable \in T!Tables /\ T!NewTable # None
    /\ T!NewTable.open = FALSE /\ T!NewTable.rows = {} /\ T!NewTable.seq = 0
<1>1. T!NewTable \in T!Tables
    BY PanelNumbers DEF T!NewTable, T!Tables
<1> QED
    BY <1>1, TableFields DEF T!NewTable

\* What a window is made of, and that it is one.
LEMMA WindowFields ==
    ASSUME NEW w \in T!Windows
    PROVE  w # None /\ w.seq \in Int /\ w.rows \subseteq Vessels /\ w.at \subseteq Vessels
<1>1. w.seq \in -2 .. TableSeq /\ w.rows \subseteq Vessels /\ w.at \subseteq Vessels
    BY DEF T!Windows
<1>2. w # None
    BY NoneIsNoPanel
<1> QED
    BY <1>1, <1>2

\* A reading: what the window shows is the table's, or as it was.
Reading(r, w, t) ==
    /\ r \in T!Windows
    /\ t = None => r.seq < 0
    /\ t # None => r.seq = t.seq /\ (r.rows = t.rows \/ r = w)

\* Both shells' reloads are readings.
LEMMA ReloadReads ==
    ASSUME NEW w \in T!Windows, NEW t \in T!Tables \cup {None}, NEW force \in BOOLEAN
    PROVE  /\ Reading(T!LinuxReload(w, t, force), w, t)
           /\ Reading(T!WindowsReload(w, t, force), w, t)
<1>1. CASE t = None
    <2>1. T!LinuxReload(w, t, force) \in T!Windows /\ T!LinuxReload(w, t, force).seq = -2
        BY <1>1, PanelNumbers DEF T!LinuxReload, T!Windows, T!Dead
    <2>2. /\ T!WindowsReload(w, t, force) \in T!Windows
          /\ T!WindowsReload(w, t, force).seq = -1
        BY <1>1, PanelNumbers DEF T!WindowsReload, T!Windows
    <2> QED
        BY <1>1, <2>1, <2>2 DEF Reading
<1>2. CASE t # None
    <2> DEFINE r == [seq |-> t.seq, rows |-> t.rows, at |-> t.rows]
    <2>1. r \in T!Windows /\ r.seq = t.seq /\ r.rows = t.rows
        BY <1>2, TableFields DEF T!Windows
    <2>2. CASE ~force /\ w.seq = t.seq
        BY <1>2, <2>2 DEF Reading, T!LinuxReload, T!WindowsReload
    <2>3. CASE force \/ w.seq # t.seq
        <3>1. T!LinuxReload(w, t, force) = r /\ T!WindowsReload(w, t, force) = r
            BY <1>2, <2>3 DEF T!LinuxReload, T!WindowsReload
        <3> HIDE DEF r
        <3> QED
            BY <1>2, <2>1, <3>1 DEF Reading
    <2> QED
        BY <2>2, <2>3
<1> QED
    BY <1>1, <1>2

\* The window reads the table.
LEMMA ReadKeeps ==
    ASSUME TInv, T!Up, Reading(win', win, table),
           UNCHANGED <<shell, table, mail, told, sent, real, revealed>>
    PROVE  TInv'
<1>1. win' \in T!Windows /\ T!Up' /\ win \in T!Windows
    BY WindowFields DEF Reading, T!Up, TInv, T!TypeOK
<1>2. T!TypeOK'
    BY <1>1 DEF TInv, T!TypeOK
<1>3. T!Declared' => win'.seq <= table'.seq \/ Reborn'
    <2>1. T!Declared => table \in T!Tables
        BY DEF TInv, T!TypeOK, T!Declared
    <2> QED
        BY <2>1, TableFields DEF Reading, T!Declared
<1>4. win'.seq = 0 => win'.rows = {}
    BY DEF Reading, TInv, T!Declared
<1>5. T!WindowIsTheTable'
    <2> SUFFICES ASSUME T!Declared PROVE win'.rows = table.rows
        BY DEF T!WindowIsTheTable, T!Declared
    <2>1. win'.seq = table.seq /\ (win'.rows = table.rows \/ win' = win)
        BY DEF Reading, T!Declared
    <2> QED
        BY <2>1 DEF TInv, T!PanelIsTrue, T!WindowIsTheTable
<1>6. T!OpenIsForAWindow' /\ T!LastWordIsHeard'
    BY <1>1 DEF TInv, T!PanelIsTrue, T!OpenIsForAWindow, T!LastWordIsHeard, T!Declared
<1>7. /\ T!Declared' /\ table'.seq = 0 => table'.rows = {}
      /\ ~T!Declared' => mail' = <<>> /\ told' = FALSE
    BY DEF TInv, T!Declared
<1> QED
    BY <1>2, <1>3, <1>4, <1>5, <1>6, <1>7 DEF TInv, T!PanelIsTrue

\* A table begins anew, over a window that stays or goes.
LEMMA RebirthKeeps ==
    ASSUME TInv, table' = T!NewTable, mail' = <<>>, told' = FALSE, sent' \subseteq Vessels,
           win' = win \/ win' = None, UNCHANGED <<shell, real, revealed>>
    PROVE  TInv'
<1>1. T!TypeOK'
    BY NewTableIs, EmptyMail DEF TInv, T!TypeOK
<1>2. Reborn'
    BY NewTableIs DEF Reborn
<1>3. T!Up' /\ win'.seq = 0 => win'.rows = {}
    BY DEF TInv, T!Up
<1>4. T!WindowIsTheTable'
    BY <1>3, NewTableIs DEF T!WindowIsTheTable
<1>5. T!OpenIsForAWindow' /\ T!LastWordIsHeard'
    BY NewTableIs DEF T!OpenIsForAWindow, T!LastWordIsHeard
<1>6. /\ T!Declared' /\ table'.rows = {}
    BY NewTableIs DEF T!Declared
<1> QED
    BY <1>1, <1>2, <1>3, <1>4, <1>5, <1>6 DEF TInv, T!PanelIsTrue

\* A window comes up, and the plugin is told before the first read.
LEMMA PresentKeeps ==
    ASSUME TInv, ~T!Up, T!Declared, T!Len(mail) < MaxMail, T!SetTableOpen(TRUE),
           NEW w \in T!Windows, Reading(win', w, table'), w.seq < 0,
           UNCHANGED <<shell, told, sent, real, revealed>>
    PROVE  TInv'
<1>1. table \in T!Tables /\ table.open = FALSE
    BY DEF TInv, T!TypeOK, T!Declared, T!PanelIsTrue, T!OpenIsForAWindow
<1>2. table' = [table EXCEPT !.open = TRUE] /\ mail' = T!Append(mail, TRUE)
    BY <1>1 DEF T!SetTableOpen, T!Declared
<1>3. /\ table' \in T!Tables /\ table'.open = TRUE /\ table'.seq = table.seq
      /\ table'.rows = table.rows
    BY <1>1, <1>2 DEF T!Tables
<1>4. table' # None /\ table'.seq \in Nat
    BY <1>3, TableFields
<1>5. win' \in T!Windows /\ win'.seq = table'.seq /\ win'.rows = table'.rows
    BY <1>4 DEF Reading
<1>6. T!Up'
    BY <1>5, WindowFields DEF T!Up
<1>7. /\ mail' \in T!Seq(BOOLEAN) /\ mail' # <<>> /\ T!Len(mail') = T!Len(mail) + 1
      /\ mail'[T!Len(mail')] = TRUE
    BY <1>2, LastAppended DEF TInv, T!TypeOK
<1>8. T!Len(mail') <= MaxMail
    BY <1>7, PanelNumbers
<1>9. T!TypeOK'
    BY <1>3, <1>5, <1>7, <1>8 DEF TInv, T!TypeOK
<1>10. T!WindowIsTheTable' /\ T!OpenIsForAWindow' /\ T!LastWordIsHeard'
    BY <1>3, <1>5, <1>6, <1>7 DEF T!WindowIsTheTable, T!OpenIsForAWindow, T!LastWordIsHeard
<1>11. table'.seq = 0 => table'.rows = {}
    BY <1>3 DEF TInv
<1> QED
    BY <1>4, <1>5, <1>9, <1>10, <1>11 DEF TInv, T!PanelIsTrue, T!Declared

\* The window goes: the plugin is told, if it had been told of it.
LEMMA CloseKeeps ==
    ASSUME TInv, T!Up, T!Len(mail) < MaxMail, T!Room, T!SetTableOpen(FALSE), win' = None,
           UNCHANGED <<shell, told, sent, real, revealed>>
    PROVE  TInv'
<1>1. ~T!Up'
    BY DEF T!Up
<1>2. CASE UNCHANGED <<table, mail>> /\ (T!Declared => table.open = FALSE)
    <2>1. T!TypeOK'
        BY <1>2 DEF TInv, T!TypeOK
    <2>2. T!WindowIsTheTable' /\ T!OpenIsForAWindow' /\ T!LastWordIsHeard'
        BY <1>1, <1>2 DEF TInv, T!PanelIsTrue, T!WindowIsTheTable, T!OpenIsForAWindow,
            T!LastWordIsHeard, T!Declared
    <2> QED
        BY <1>1, <1>2, <2>1, <2>2 DEF TInv, T!PanelIsTrue, T!Declared
<1>3. CASE /\ T!Declared /\ table' = [open |-> FALSE, rows |-> {}, seq |-> table.seq + 1]
           /\ mail' = T!Append(mail, FALSE)
    <2>1. table \in T!Tables
        BY <1>3 DEF TInv, T!TypeOK, T!Declared
    <2>2. table.seq \in Nat /\ table.seq + 1 \in 0 .. TableSeq
        BY <1>3, <2>1, TableFields, PanelNumbers DEF T!Room
    <2>3. table' \in T!Tables /\ table'.open = FALSE /\ table'.rows = {}
        BY <1>3, <2>2 DEF T!Tables
    <2>4. /\ mail' \in T!Seq(BOOLEAN) /\ mail' # <<>> /\ T!Len(mail') = T!Len(mail) + 1
          /\ mail'[T!Len(mail')] = FALSE
        BY <1>3, LastAppended DEF TInv, T!TypeOK
    <2>5. T!Len(mail') <= MaxMail
        BY <2>4, PanelNumbers
    <2>6. T!TypeOK'
        BY <2>3, <2>4, <2>5 DEF TInv, T!TypeOK
    <2>7. T!WindowIsTheTable' /\ T!OpenIsForAWindow' /\ T!LastWordIsHeard' /\ T!Declared'
        BY <1>1, <2>3, <2>4, TableFields DEF T!WindowIsTheTable, T!OpenIsForAWindow,
            T!LastWordIsHeard, T!Declared
    <2> QED
        BY <1>1, <2>3, <2>6, <2>7 DEF TInv, T!PanelIsTrue
<1> QED
    BY <1>2, <1>3 DEF T!SetTableOpen, T!Declared

\* The plugin reads a word.
LEMMA HearKeeps == ASSUME TInv, T!Hear PROVE TInv'
<1>1. mail \in T!Seq(BOOLEAN) /\ mail # <<>> /\ T!Len(mail) <= MaxMail
    BY DEF TInv, T!TypeOK, T!Hear
<1>2. /\ told' = T!Head(mail) /\ mail' = T!Tail(mail)
      /\ UNCHANGED <<shell, table, real, win, revealed>>
    BY DEF T!Hear
<1>3. /\ told' \in BOOLEAN /\ mail' \in T!Seq(BOOLEAN) /\ T!Len(mail') = T!Len(mail) - 1
      /\ mail' = <<>> => told' = mail[T!Len(mail)]
      /\ mail' # <<>> => mail'[T!Len(mail')] = mail[T!Len(mail)]
    BY <1>1, <1>2, TailKeepsLast
<1>4. sent' \subseteq Vessels
    BY DEF T!Hear, TInv, T!TypeOK
<1>5. T!Len(mail') <= MaxMail
    BY <1>1, <1>3, PanelNumbers
<1>6. T!TypeOK'
    BY <1>2, <1>3, <1>4, <1>5 DEF TInv, T!TypeOK
<1>7. T!WindowIsTheTable' /\ T!OpenIsForAWindow'
    BY <1>2 DEF TInv, T!PanelIsTrue, T!WindowIsTheTable, T!OpenIsForAWindow, T!Up,
        T!Declared
<1>8. T!LastWordIsHeard'
    BY <1>2, <1>3 DEF TInv, T!PanelIsTrue, T!LastWordIsHeard
<1>9. T!Declared /\ ~Reborn
    BY <1>1 DEF TInv, Reborn
<1> QED
    BY <1>2, <1>6, <1>7, <1>8, <1>9 DEF TInv, T!PanelIsTrue, T!Declared, T!Up

\* A batch: the number moves past what any window has.
LEMMA BatchKeeps == ASSUME TInv, T!Batch PROVE TInv'
<1>1. /\ told /\ T!Declared /\ table.seq < TableSeq /\ sent' = real
      /\ UNCHANGED <<shell, mail, told, real, win, revealed>>
      /\ table' = [table EXCEPT !.rows = (@ \ (sent \ real)) \cup (real \ sent),
                                !.seq = @ + 1]
    BY DEF T!Batch
<1>2. /\ table \in T!Tables /\ table.seq \in Nat
      /\ table.rows \subseteq Vessels /\ real \subseteq Vessels
    BY <1>1, TableFields DEF TInv, T!TypeOK, T!Declared
<1>3. table.seq + 1 \in 0 .. TableSeq
    BY <1>1, <1>2, PanelNumbers
<1>4. table' \in T!Tables /\ table'.open = table.open /\ table'.seq = table.seq + 1
    BY <1>1, <1>2, <1>3 DEF T!Tables
<1>5. T!TypeOK'
    BY <1>1, <1>4 DEF TInv, T!TypeOK
<1>6. T!Declared' /\ T!Up' = T!Up
    BY <1>1, <1>4, TableFields DEF T!Declared, T!Up
<1>7. ~Reborn
    BY <1>1 DEF Reborn
<1>8. T!Up => win.seq <= table.seq /\ win.seq \in Int
    BY <1>1, <1>7, WindowFields DEF TInv, T!TypeOK, T!Up
<1>9. T!Up => win'.seq <= table'.seq /\ win'.seq # table'.seq
    BY <1>1, <1>2, <1>8
<1>10. T!WindowIsTheTable'
    BY <1>6, <1>9 DEF T!WindowIsTheTable
<1>11. T!OpenIsForAWindow' /\ T!LastWordIsHeard'
    BY <1>1, <1>4, <1>6 DEF TInv, T!PanelIsTrue, T!OpenIsForAWindow, T!LastWordIsHeard
<1>12. table'.seq # 0
    BY <1>2, <1>4
<1> QED
    BY <1>1, <1>5, <1>6, <1>9, <1>10, <1>11, <1>12 DEF TInv, T!PanelIsTrue

\* A step that is the vessels' alone, or of what the plugin holds or the chart shows.
LEMMA AsideKeeps ==
    ASSUME TInv, UNCHANGED <<shell, table, mail, told, win>>,
           sent' \subseteq Vessels, real' \subseteq Vessels,
           revealed' \in Vessels \cup {None}
    PROVE  TInv'
<1>1. T!TypeOK'
    BY DEF TInv, T!TypeOK
<1>2. T!PanelIsTrue'
    BY DEF TInv, T!PanelIsTrue, T!WindowIsTheTable, T!OpenIsForAWindow, T!LastWordIsHeard,
        T!Up, T!Declared
<1> QED
    BY <1>1, <1>2 DEF TInv, T!Up, T!Declared, Reborn

\* The plugin dies, and the table with it.
LEMMA FaultKeeps == ASSUME TInv, T!Fault PROVE TInv'
<1>1. /\ table' = None /\ mail' = <<>> /\ told' = FALSE /\ sent' = {}
      /\ UNCHANGED <<shell, real, win, revealed>>
    BY DEF T!Fault
<1>2. T!TypeOK'
    BY <1>1, EmptyMail DEF TInv, T!TypeOK
<1>3. ~T!Declared'
    BY <1>1 DEF T!Declared
<1>4. T!PanelIsTrue'
    BY <1>3 DEF T!PanelIsTrue, T!WindowIsTheTable, T!OpenIsForAWindow, T!LastWordIsHeard
<1>5. T!Up' /\ win'.seq = 0 => win'.rows = {}
    BY <1>1 DEF TInv, T!Up
<1> QED
    BY <1>1, <1>2, <1>3, <1>4, <1>5 DEF TInv

\* A table declared, and no window.
LEMMA InitTInv == T!Init => TInv
<1> SUFFICES ASSUME T!Init PROVE TInv
    OBVIOUS
<1>1. T!TypeOK
    BY NewTableIs, EmptyMail DEF T!Init, T!TypeOK
<1>2. ~T!Up
    BY DEF T!Init, T!Up
<1>3. T!PanelIsTrue
    BY <1>2, NewTableIs DEF T!Init, T!PanelIsTrue, T!WindowIsTheTable, T!OpenIsForAWindow,
        T!LastWordIsHeard
<1> QED
    BY <1>1, <1>2, <1>3, NewTableIs DEF T!Init, TInv

\* Every step of table, plugin and window keeps the invariant.
LEMMA NextTInv == TInv /\ [T!Next]_(T!vars) => TInv'
<1> SUFFICES ASSUME TInv, [T!Next]_(T!vars) PROVE TInv'
    OBVIOUS
<1> DEFINE opening == [seq |-> -1, rows |-> {}, at |-> {}]
<1>a. opening \in T!Windows /\ opening.seq < 0
    BY PanelNumbers DEF T!Windows
<1>b. /\ sent \subseteq Vessels /\ real \subseteq Vessels
      /\ revealed \in Vessels \cup {None}
      /\ table \in T!Tables \cup {None} /\ win \in T!Windows \cup {None}
    BY DEF TInv, T!TypeOK
<1>1. CASE UNCHANGED T!vars
    BY <1>1, <1>b, AsideKeeps DEF T!vars, T!plugin
<1>2. CASE T!Hear
    BY <1>2, HearKeeps
<1>3. CASE T!Sail
    BY <1>3, <1>b, AsideKeeps DEF T!Sail
<1>4. CASE T!Batch
    BY <1>4, BatchKeeps
<1>5. CASE T!Refused
    BY <1>5, <1>b, AsideKeeps DEF T!Refused
<1>6. CASE T!Fault
    BY <1>6, FaultKeeps
<1>7. CASE T!Restart
    <2>1. mail' = <<>> /\ told' = FALSE
        BY <1>7 DEF T!Restart, T!plugin, TInv
    <2> QED
        BY <1>7, <1>b, <2>1, RebirthKeeps DEF T!Restart, T!plugin
<1>8. CASE T!LinuxPresent \/ T!WindowsPresent
    <2> HIDE DEF opening
    <2>1. /\ ~T!Up /\ T!Declared /\ T!Len(mail) < MaxMail /\ T!SetTableOpen(TRUE)
          /\ \/ win' = T!LinuxReload(opening, table', TRUE)
             \/ win' = T!WindowsReload(opening, table', TRUE)
          /\ UNCHANGED <<shell, told, sent, real, revealed>>
        BY <1>8 DEF T!LinuxPresent, T!WindowsPresent, opening
    <2>2. table' \in T!Tables \cup {None}
        <3>1. table \in T!Tables
            BY <1>b, <2>1 DEF T!Declared
        <3>2. [table EXCEPT !.open = TRUE] \in T!Tables
            BY <3>1 DEF T!Tables
        <3> QED
            BY <2>1, <3>1, <3>2 DEF T!SetTableOpen
    <2>3. Reading(win', opening, table')
        BY <1>a, <2>1, <2>2, ReloadReads
    <2> QED
        BY <1>a, <2>1, <2>3, PresentKeeps
<1>9. CASE T!LinuxPoll \/ T!LinuxSort \/ T!WindowsPoll \/ T!WindowsSort \/ T!Recolour
    <2>1. /\ T!Up /\ UNCHANGED <<shell, table, mail, told, sent, real, revealed>>
          /\ \E force \in BOOLEAN : \/ win' = T!LinuxReload(win, table, force)
                                    \/ win' = T!WindowsReload(win, table, force)
        BY <1>9 DEF T!LinuxPoll, T!LinuxSort, T!WindowsPoll, T!WindowsSort, T!Recolour,
            T!plugin
    <2>2. win \in T!Windows
        BY <1>b, <2>1 DEF T!Up
    <2>3. Reading(win', win, table)
        BY <1>b, <2>1, <2>2, ReloadReads
    <2> QED
        BY <2>1, <2>3, ReadKeeps
<1>10. CASE T!LinuxCloseWindow \/ T!WindowsCloseWindow
    BY <1>10, CloseKeeps DEF T!LinuxCloseWindow, T!WindowsCloseWindow
<1>11. CASE T!LinuxReopen \/ T!WindowsReopen
    BY <1>11, RebirthKeeps DEF T!LinuxReopen, T!WindowsReopen
<1>12. ASSUME NEW v \in Vessels, T!LinuxActivate(v) \/ T!WindowsActivate(v) PROVE TInv'
    <2>1. revealed' = v /\ UNCHANGED <<shell, table, mail, told, sent, real, win>>
        BY <1>12 DEF T!LinuxActivate, T!WindowsActivate, T!plugin
    <2> QED
        BY <1>b, <2>1, AsideKeeps
<1> QED
    BY <1>1, <1>2, <1>3, <1>4, <1>5, <1>6, <1>7, <1>8, <1>9, <1>10, <1>11, <1>12 DEF T!Next

-------------------------------------------------------------------------------
(* The four together                                                         *)

\* The view's inductive invariant holds of the view.
THEOREM VInvHolds == V!Spec => []VInv
BY InitVInv, NextVInv, PTL DEF V!Spec

\* The strip's inductive invariant holds of the strip.
THEOREM AInvHolds == A!Spec => []AInv
BY InitAInv, NextAInv, PTL DEF A!Spec

\* The table's inductive invariant holds of the table.
THEOREM TInvHolds == T!Spec => []TInv
BY InitTInv, NextTInv, PTL DEF T!Spec

\* A step of the table leaves the shell what it is.
LEMMA ShellStays == T!Next => UNCHANGED shell
BY DEF T!Next, T!Poll, T!Hear, T!Sail, T!Batch, T!Refused, T!Fault, T!Restart,
    T!LinuxPresent, T!LinuxPoll, T!LinuxSort, T!LinuxCloseWindow, T!LinuxReopen,
    T!LinuxActivate, T!WindowsPresent, T!WindowsPoll, T!WindowsSort, T!Recolour,
    T!WindowsCloseWindow, T!WindowsReopen, T!WindowsActivate

\* A step of the strip leaves the shell what it is.
LEMMA StripShellStays == A!Next => UNCHANGED shell
BY DEF A!Next, A!Poll, A!Raise, A!Drop, A!LinuxPoll, A!WindowsPoll, A!LinuxUnread,
    A!WindowsUnread, A!LinuxAcknowledge, A!WindowsAcknowledge, A!LinuxOpen, A!LinuxClose,
    A!LinuxInstall, A!WindowsOpen, A!WindowsOpenForSetup, A!WindowsClose, A!WindowsInstall

\* A behaviour is of one part, while the others rest: it is a behaviour of each.
LEMMA EachIsTheirs == EachSpec => Spec /\ V!Spec /\ A!Spec /\ T!Spec
<1>1. EachInit => Init /\ V!Init /\ A!Init /\ T!Init
    BY DEF EachInit
<1>2. [EachNext]_everything =>
          [Next]_vars /\ [V!Next]_V!vars /\ [A!Next]_A!vars /\ [T!Next]_T!vars
    <2> SUFFICES ASSUME [EachNext]_everything
                 PROVE  [Next]_vars /\ [V!Next]_V!vars /\ [A!Next]_A!vars /\ [T!Next]_T!vars
        OBVIOUS
    <2>1. [Next]_vars
        BY DEF EachNext, everything
    <2>2. UNCHANGED view => UNCHANGED V!vars
        BY DEF view, V!vars, V!chart, V!frame, V!window, V!over
    <2>3. [V!Next]_V!vars
        BY <2>2 DEF EachNext, everything
    <2>4. UNCHANGED <<shell, alerts>> => UNCHANGED A!vars
        BY DEF alerts, A!vars, A!core, A!strip
    <2>5. [A!Next]_A!vars
        BY <2>4, ShellStays DEF EachNext, everything
    <2>6. UNCHANGED <<shell, panel>> => UNCHANGED T!vars
        BY DEF panel, T!vars, T!plugin
    <2>7. [T!Next]_T!vars
        <3>1. part = "alerts" /\ A!Next => UNCHANGED shell
            BY StripShellStays
        <3> QED
            BY <2>6, <3>1 DEF EachNext, everything
    <2> QED
        BY <2>1, <2>3, <2>5, <2>7
<1> QED
    BY <1>1, <1>2, PTL DEF EachSpec, Spec, V!Spec, A!Spec, T!Spec

\* The variables of touch and mouse keep their types.
THEOREM TypeHolds == EachSpec => []TypeOK
BY EachIsTheirs, IInvHolds, PTL DEF IInv

\* A finger that rests on the chart holds it: no coast of touch runs under it.
THEOREM RestHolds == EachSpec => []RestStopsCoast
BY EachIsTheirs, IInvHolds, PTL DEF IInv

\* A stroke is answered once, and none by one finger while a pinch is on, however the
\* panel breaks the touch up and however late the timers are.
THEOREM StrokesHold == EachSpec => StrokeIsAnsweredOnce
BY EachIsTheirs, StrokesAreAnsweredOnce, PTL

\* The view is alive and the window goes together, for any places; the strip says what
\* the plugins raised, for any conditions and any caps, over any number of handles; and
\* the table, the plugin and the window agree, for any vessels and any length of a queue.
THEOREM WindowHolds == EachSpec => []WindowIsTrue
<1>1. VInv => V!TypeOK /\ V!ViewIsAlive /\ V!WindowAgrees
    BY ViewTypeIsBoth DEF VInv, V!ViewIsAlive, V!WindowAgrees
<1>2. AInv => A!TypeOK /\ A!StripIsTrue
    BY StripFollows
<1>3. TInv => T!TypeOK /\ T!PanelIsTrue
    BY DEF TInv
<1>4. VInv /\ AInv /\ TInv => WindowIsTrue
    BY <1>1, <1>2, <1>3 DEF WindowIsTrue
<1> QED
    BY <1>4, EachIsTheirs, VInvHolds, AInvHolds, TInvHolds, PTL
===============================================================================
