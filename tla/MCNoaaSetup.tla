------------------------------ MODULE MCNoaaSetup ------------------------------
(***************************************************************************)
(* Setup and the NOAA picker of the Linux and of the Windows shell.  A     *)
(* behaviour is of one shell and one way in: a first launch with its card, *)
(* or a picker opened from the settings.                                   *)
(***************************************************************************)
EXTENDS NoaaLinux, NoaaWindows

CONSTANT
    PickerRuns   \* bound: of the orders, on the picker of the Windows shell

VARIABLES
    shell,   \* the shell
    way      \* the way in

\* A library that an earlier launch downloaded and prepared.
Held == [Idle EXCEPT !.listed = TRUE, !.charts = TRUE, !.made = TRUE]

WindowsHeld ==
    /\ job = Held /\ owed = FALSE /\ dirty = FALSE
    /\ app = [WinNewApp EXCEPT !.open = TRUE, !.ticks = TRUE]
    /\ setup = [NewSetup EXCEPT !.had = TRUE]

SetupInit ==
    \/ shell = "linux" /\ way \in {"card", "picker"} /\ LinuxLaunch
    \/ shell = "windows" /\ way = "card" /\ WinLaunch
    \/ shell = "windows" /\ way = "picker" /\ WindowsHeld

\* bound: an order of the picker behind another replaces it
Replaces == job'.run # job.run /\ job.run > 0 => job.outcome = "running"

\* bound: the card and the picker are not both used
OneWay ==
    CASE shell = "linux" /\ way = "card"   -> app'.picker = "none"
      [] shell = "linux" /\ way = "picker" -> ~setup'.showing /\ Replaces
      [] shell = "windows" /\ way = "card" -> ~setup'.only
      [] OTHER -> (setup'.showing => setup'.only) /\ job'.run <= PickerRuns

\* bound: a launch that takes an online chart orders none
OneChart == ~(app'.link /\ job'.run > 0)

\* bound: on Linux an update check that has a catalog to check against is not
\* due once an order is placed
EarlyCheck ==
    shell = "linux" /\ job.cat /\ job.run > 0 /\ job.reading = "no" => job'.reading = "no"

WithinBounds == OneWay /\ OneChart /\ EarlyCheck /\ UNCHANGED <<shell, way>>

Linux == shell = "linux"
Windows == shell = "windows"

SetupNext ==
    \/ Linux /\ LinuxOutside /\ WithinBounds
    \/ Linux /\ Loop /\ WithinBounds
    \/ Linux /\ LinuxCard /\ WithinBounds
    \/ Linux /\ LinuxPicker /\ WithinBounds
    \/ Windows /\ WinOutside /\ WithinBounds
    \/ Windows /\ Clocks /\ WithinBounds
    \/ Windows /\ WinCard /\ WithinBounds
    \/ Windows /\ Pane /\ WithinBounds

setupVars == <<job, owed, dirty, app, setup, shell, way>>

SetupSpec == SetupInit /\ [][SetupNext]_setupVars

\* The service's threads come to their ends, a reopen answers, and a wake or a
\* signal that was posted is delivered (on Windows one of its clocks looks for the
\* sets' signal).  The mariner owes nothing.  Each of these is weak fairness of the
\* steps that take a flag down, and every such step does: the flag is down again
\* and again.
SetupFairSpec ==
    /\ SetupSpec
    /\ WF_owed(owed /\ owed' = FALSE)
    /\ []<>(job.reading # "out") /\ []<>(job.cell # "out")
    /\ []<>(~job.listed \/ job.scan # "running")
    /\ []<>(job.bake \notin {"run", "stop"}) /\ []<>(job.retired # "running")
    /\ []<>~(dirty /\ (Windows => app.clock \/ app.ticks))
    /\ []<>~(Linux /\ app.opening)

-------------------------------------------------------------------------------

SetupTypeOK ==
    /\ job \in JobType /\ owed \in BOOLEAN /\ dirty \in BOOLEAN
    /\ app \in IF Linux THEN LinuxAppType ELSE WinAppType
    /\ setup \in SetupType(0..MaxRuns)

\* A run that is told as running is carried by something that will end it: its
\* transfers, the prepare to come, or the prepare of that very run.
RunIsCarried ==
    job.outcome = "running" =>
        \/ job.phase = "downloading" \/ job.end # "none"
        \/ job.stage # "none" /\ job.forRun /\ job.of = job.run

\* No bake of the prepare runs beside one that a replaced order left running.
OneBakeAtATime == job.bake \in {"run", "stop"} => job.retired = "no"

\* No answer lies with the service that neither was adopted nor has a wake on its
\* way.  A stop pressed while the prepare waits for a bake that was let go is taken
\* up at the end of that bake, which wakes the shell.
NothingInHand == Adopt(job) = job \/ owed \/ (job.stopped /\ job.retired = "running")

\* The run whose end a shell follows: on Linux the last, which still runs; on Windows
\* the last or the next, which an apply that orders nothing leaves to a later order.
FollowedRun == IF Linux THEN app.follow ELSE app.watch
FollowIsCurrent ==
    \/ FollowedRun = 0
    \/ Linux /\ FollowedRun = job.run /\ job.outcome = "running"
    \/ Windows /\ FollowedRun \in {job.run, job.run + 1}

\* The copy Windows draws the card from is the service's state, unless a wake is on
\* its way or a read of the catalog is out, which will wake the window.
CopyIsCurrent == Windows => app.st = Published(job) \/ owed \/ job.reading = "out"

\* What setup and the picker show of the service can be relied on: the run shown
\* as under way is, and no answer is left where no one looks.
SetupIsHonest ==
    /\ SetupTypeOK /\ RunIsCarried /\ OneBakeAtATime /\ NothingInHand /\ FollowIsCurrent
    /\ CopyIsCurrent

\* The Preparing step of an order is left: it ends by itself in a button that can
\* be pressed, on or back.  (Not so where the directory could not be made, and no
\* order was numbered.)
CardFacts ==
    IF Linux THEN LinuxFacts(job, app)
    ELSE WinFacts([j |-> job, a |-> app, s |-> setup, d |-> dirty])
CanLeave == PrimaryEnabled(setup, CardFacts) \/ CanGoBack(setup, CardFacts)
Preparing == setup.showing /\ setup.step = "importing"
ImportIsLeft == (Preparing /\ job.run # setup.orderRun) ~> (~Preparing \/ CanLeave)

\* "the order it follows to its end" (library/lk_noaa.h:1): on Linux the order is
\* told, and not followed past that.
OrderIsTold == (Linux /\ FollowedRun # 0) ~> FollowedRun = 0

\* What was begun is brought to an end the mariner can act on.
SetupMovesOn == ImportIsLeft /\ OrderIsTold

\* The same of Windows, whose picker may follow a run that was never ordered.
FollowedIsTold == (Windows /\ FollowedRun # 0) ~> FollowedRun = 0

\* The Preparing card "has no report between two of the bake's ... so the step keeps
\* the last one" (ui/firstrun/importing.c:57-62): on Linux, a phase shown as done
\* does not go back to waiting under the same order.
ShownImport == Phases(job, app).import
DoneStaysDone ==
    [][(Linux /\ Preparing /\ Preparing' /\ job.run' = job.run /\ ShownImport = 2)
         => ShownImport' # 0]_setupVars
===============================================================================
