-------------------------------- MODULE NoaaJob --------------------------------
(***************************************************************************)
(* The core's NOAA service (src/src/noaajob.zig) as its shells meet it:    *)
(* one run at a time is numbered, fetched, unpacked and prepared, and told *)
(* in a snapshot.  The calls are functions of one record, as each runs     *)
(* whole under the service's mutex; the actions are what other threads     *)
(* bring: an answer of the site, the end of a scan or of a bake.  Each of  *)
(* them only posts and wakes the shell, which adopts.                      *)
(*                                                                         *)
(* A run fetches two transfers, one at a time.                             *)
(***************************************************************************)
EXTENDS Naturals

CONSTANT MaxRuns   \* bound: orders numbered

ASSUME MaxRunsBound == MaxRuns \in Nat

VARIABLES
    job,    \* the service, its prepare and the one set it manages
    owed,   \* a wake is on its way to the shell
    dirty,  \* the sets' own signal is on its way to the shell
    app     \* the shell over it: NoaaLinux, NoaaWindows

Ends == {"finished", "empty", "cancelled", "failed", "refused"}

Idle == [
    \* the run: number, how it ended, whether a retry can clear that
    run |-> 0, outcome |-> "none", retry |-> FALSE,
    \* the transfers: phase, catalog, its read, the transfer out, those to come,
    \* whether any arrived, and how they ended when a prepare is to follow
    phase |-> "idle", cat |-> FALSE, reading |-> "no", cell |-> "no", left |-> 0,
    done |-> FALSE, end |-> "none",
    \* the prepare: where it is, for a run and which, stopped, its bake
    stage |-> "none", forRun |-> FALSE, of |-> 0, stopped |-> FALSE,
    stopNext |-> FALSE, bake |-> "none", retired |-> "no", moved |-> FALSE,
    \* the managed set: listed, its scan, what that scan listed and what there is
    listed |-> FALSE, scan |-> "read", todo |-> FALSE, fresh |-> FALSE,
    charts |-> FALSE, made |-> FALSE, noted |-> FALSE]

JobType ==
    [run : 0..MaxRuns, outcome : {"none", "running"} \cup Ends, retry : BOOLEAN,
     phase : {"idle", "reading", "ready", "downloading"}, cat : BOOLEAN,
     reading : {"no", "out", "ok", "bad"}, cell : {"no", "out", "ok", "bad", "full"},
     left : 0..1, done : BOOLEAN, end : {"none", "finished", "cancelled"},
     stage : {"none", "in", "bake", "out"}, forRun : BOOLEAN, of : 0..MaxRuns,
     stopped : BOOLEAN, stopNext : BOOLEAN,
     bake : {"none", "run", "stop", "charts", "nothing", "bad"},
     retired : {"no", "running", "ended"}, moved : BOOLEAN,
     listed : BOOLEAN, scan : {"running", "read"}, todo : BOOLEAN, fresh : BOOLEAN,
     charts : BOOLEAN, made : BOOLEAN, noted : BOOLEAN]

\* What lookout_noaa_poll copies to a shell.
Published(j) ==
    [cat |-> j.cat, phase |-> j.phase, preparing |-> j.stage # "none",
     outcome |-> j.outcome, run |-> j.run, retry |-> j.retry]

\* The regions ticked in a picker, and how many transfers an order comes to.
Picks == {"none", "some"}
Plans == {0, 2}

\* The sets' signal goes out when a prepare ends and when a set is taken off.
Notes(j, k) == (j.stage # "none" /\ k.stage = "none") \/ (j.listed /\ ~k.listed)

-------------------------------------------------------------------------------
(* the run                                                                   *)

AtRest(j) == IF j.cat THEN "ready" ELSE "idle"

CancelAll(j) ==
    LET s == [j EXCEPT !.reading = "no", !.cell = "no", !.left = 0,
                       !.phase = IF @ \in {"downloading", "reading"} THEN AtRest(j) ELSE @]
    IN  CASE j.phase # "downloading" -> s
          [] j.phase = "downloading" /\ j.done -> [s EXCEPT !.end = "cancelled"]
          [] OTHER -> [s EXCEPT !.outcome = "cancelled"]

BeginRun(j) ==
    [j EXCEPT !.run = @ + 1, !.outcome = "running", !.retry = FALSE, !.end = "none"]

\* A running download goes on and keeps its number.
Refuse(j) ==
    IF j.phase = "downloading" THEN j
    ELSE [BeginRun(j) EXCEPT !.outcome = "refused", !.retry = TRUE]

Pump(j) ==
    CASE j.phase # "downloading" \/ j.cell # "no" -> j
      [] j.phase = "downloading" /\ j.cell = "no" /\ j.left > 0 ->
            [j EXCEPT !.cell = "out", !.left = @ - 1]
      [] OTHER -> IF j.done THEN [j EXCEPT !.phase = "ready", !.end = "finished"]
                  ELSE [j EXCEPT !.phase = "ready", !.outcome = "failed"]

\* start and startUpdate, with a plan of that many transfers; `disk` is whether
\* the directory can be made.
BeginOrder(j, plan, disk) ==
    LET s == [BeginRun(CancelAll(j)) EXCEPT !.done = FALSE]
    IN  CASE ~j.cat -> Refuse(j)
          [] j.cat /\ plan = 0 -> [s EXCEPT !.outcome = "empty"]
          [] j.cat /\ plan > 0 /\ ~disk -> [s EXCEPT !.outcome = "refused"]
          [] OTHER -> Pump([s EXCEPT !.phase = "downloading", !.left = plan])

\* refresh; `cached` is whether the disk has a catalog of an earlier run.
RefreshCatalog(j, cached) ==
    IF j.reading # "no" THEN j
    ELSE [j EXCEPT !.cat = @ \/ cached, !.reading = "out",
                   !.phase = IF @ = "downloading" THEN @ ELSE "reading"]

\* Whether the disk has one says nothing to a service that has read its own.
Caches == IF job.cat THEN {FALSE} ELSE BOOLEAN

TookCatalog(j) ==
    IF j.reading \notin {"ok", "bad"} THEN j
    ELSE LET s == [j EXCEPT !.cat = @ \/ j.reading = "ok", !.reading = "no"]
         IN  [s EXCEPT !.phase = IF @ = "downloading" THEN @ ELSE AtRest(s)]

TookCell(j) ==
    CASE j.cell = "ok"   -> [j EXCEPT !.cell = "no", !.done = TRUE]
      [] j.cell = "bad"  -> [j EXCEPT !.cell = "no", !.retry = TRUE]
      [] j.cell = "full" -> [j EXCEPT !.cell = "no"]
      [] OTHER -> j

-------------------------------------------------------------------------------
(* the prepare                                                               *)

Cleared(j) ==
    [j EXCEPT !.stage = "none", !.forRun = FALSE, !.of = 0, !.stopped = FALSE,
              !.bake = "none"]

Waiting(j) == j.forRun /\ j.run = j.of /\ j.outcome = "running"

\* finishPrepare
FinishPrepare(j) ==
    LET how == CASE j.stopped \/ j.end = "cancelled" -> "cancelled"
                 [] j.bake = "bad" -> "failed"
                 [] j.bake = "nothing" -> "empty"
                 [] OTHER -> "finished"
    IN  Cleared(IF Waiting(j) THEN [j EXCEPT !.end = "none", !.outcome = how] ELSE j)

AwaitScanOut(j) ==
    IF j.listed /\ j.scan = "running" THEN j ELSE FinishPrepare(j)

\* AwaitScanIn that does not wait for a bake it let go.
AwaitScanInBesideRetired(j) ==
    CASE ~j.listed -> FinishPrepare([j EXCEPT !.stopped = TRUE])
      [] j.listed /\ j.scan = "running" -> j
      [] j.listed /\ j.scan = "read" /\ j.stopped -> FinishPrepare([j EXCEPT !.noted = TRUE])
      [] OTHER -> IF ~j.todo THEN FinishPrepare(j)
                  ELSE [j EXCEPT !.stage = "bake", !.bake = "run"]

AwaitScanIn(j) ==
    CASE ~j.listed -> FinishPrepare([j EXCEPT !.stopped = TRUE])
      [] j.listed /\ j.scan = "running" -> j
      [] j.listed /\ j.scan = "read" /\ j.stopped -> FinishPrepare([j EXCEPT !.noted = TRUE])
      [] OTHER -> CASE j.retired # "no" -> j
                    [] j.retired = "no" /\ ~j.todo -> FinishPrepare(j)
                    [] OTHER -> [j EXCEPT !.stage = "bake", !.bake = "run"]

\* A run's set is put on the list and read again; a resumed one is on it and read.
BeginPrepare(j, forRun) ==
    AwaitScanIn([j EXCEPT !.stage = "in", !.forRun = forRun, !.of = j.run,
                          !.listed = @ \/ forRun, !.scan = IF forRun THEN "running" ELSE @,
                          !.stopped = forRun /\ j.stopNext, !.stopNext = FALSE])

PollBake(j) ==
    IF j.bake \in {"run", "stop"} THEN j
    ELSE AwaitScanOut([j EXCEPT !.noted = @ \/ j.stopped \/ j.bake = "bad",
                                !.scan = IF j.listed THEN "running" ELSE @, !.stage = "out"])

\* resumePath has the managed set
Resumable(j) == j.listed /\ j.scan = "read" /\ j.todo /\ ~j.noted

StepPrepare(j) ==
    LET s == [j EXCEPT !.retired = IF @ = "ended" THEN "no" ELSE @, !.moved = FALSE]
    IN  CASE j.stage = "in"   -> AwaitScanIn(s)
          [] j.stage = "bake" -> PollBake(s)
          [] j.stage = "out"  -> AwaitScanOut(s)
          [] OTHER ->
                CASE j.phase = "downloading" -> s
                  [] j.phase # "downloading" /\ j.end # "none" -> BeginPrepare(s, TRUE)
                  [] OTHER -> IF j.moved /\ Resumable(j) THEN BeginPrepare(s, FALSE) ELSE s

\* End the prepare with no record on the set; `wait` joins its bake.
DropPrepare(j, wait) ==
    LET baking == j.bake \in {"run", "stop"}
        s == IF Waiting(j) THEN [j EXCEPT !.end = "none", !.outcome = "cancelled"] ELSE j
    IN  IF j.stage = "none" THEN j
        ELSE Cleared([s EXCEPT !.retired = IF baking /\ ~wait THEN "running" ELSE @,
                               !.made = @ \/ (baking /\ wait)])

-------------------------------------------------------------------------------
(* the calls                                                                 *)

Adopt(j) == StepPrepare(Pump(TookCell(TookCatalog(j))))

\* startRun with replacedPrepare
StartRun(j, plan, disk) ==
    LET s == BeginOrder(j, plan, disk)
    IN  IF s.run = j.run \/ s.phase # "downloading" THEN s
        ELSE DropPrepare([s EXCEPT !.stopNext = FALSE], FALSE)

Cancel(j) ==
    LET s == CancelAll(j)
    IN  CASE j.stage = "none" ->
                IF j.phase # "downloading" /\ j.end # "none"
                THEN [s EXCEPT !.end = "cancelled", !.stopNext = TRUE] ELSE s
          [] j.stage = "in"   -> [s EXCEPT !.stopped = TRUE]
          [] j.stage = "bake" ->
                [s EXCEPT !.stopped = TRUE, !.bake = IF @ = "run" THEN "stop" ELSE @]
          [] OTHER -> s

\* apply of a pick: `some` of the water or none, charts given back or not, a
\* running download reached by that or not.
ApplyPicks(j, some, gone, reaches, plan, disk) ==
    LET stop == j.phase = "downloading" /\ reaches
        s1 == IF stop THEN CancelAll(j) ELSE j
        s2 == IF ~some \/ gone THEN DropPrepare(s1, TRUE) ELSE s1
        s3 == IF ~some /\ s2.end # "none"
              THEN [s2 EXCEPT !.end = "none", !.outcome = "cancelled"] ELSE s2
        left == (s3.made \/ s3.fresh) /\ (~some \/ gone)
        s4 == CASE ~some ->
                     [s3 EXCEPT !.listed = FALSE, !.scan = "read", !.todo = FALSE,
                                !.charts = FALSE, !.fresh = FALSE, !.made = FALSE,
                                !.noted = FALSE]
                [] some /\ left ->
                     [s3 EXCEPT !.scan = IF s3.listed THEN "running" ELSE @]
                [] OTHER -> s3
    IN  IF some /\ plan > 0 THEN StartRun(s4, plan, disk) ELSE s4

\* apply's result: directories left the library
GaveBack(j, some, gone) == (j.made \/ j.fresh) /\ (~some \/ gone)

-------------------------------------------------------------------------------
(* what other threads bring                                                  *)

\* A read that fails leaves the catalog of an earlier one.
CatalogAnswers ==
    /\ job.reading = "out"
    /\ \E how \in {"ok", "bad"} :
          /\ job.cat => how = "bad"
          /\ job' = [job EXCEPT !.reading = how]
    /\ owed' = TRUE /\ UNCHANGED dirty

\* A chart that was written is on the disk whether or not its answer is adopted.
CellAnswers ==
    /\ job.cell = "out"
    /\ \E how \in {"ok", "bad", "full"} :
          job' = [job EXCEPT !.cell = how, !.fresh = @ \/ how = "ok",
                             !.noted = @ /\ how # "ok"]
    /\ owed' = TRUE /\ UNCHANGED dirty

ScanEnds ==
    /\ job.listed /\ job.scan = "running"
    /\ job' = [job EXCEPT !.scan = "read", !.todo = job.fresh, !.charts = job.made,
                          !.moved = TRUE]
    /\ owed' = TRUE /\ dirty' = TRUE

\* A bake that was stopped leaves what it made.
BakeEnds ==
    /\ job.bake \in {"run", "stop"}
    /\ \E how \in {"charts", "nothing", "bad"}, part \in BOOLEAN :
          /\ how # "bad" => part = (how = "charts")
          /\ job' = [job EXCEPT !.bake = how, !.made = @ \/ part,
                                !.fresh = @ /\ (how = "bad" \/ job.bake = "stop")]
    /\ owed' = TRUE /\ UNCHANGED dirty

RetiredEnds ==
    /\ job.retired = "running"
    /\ job' = [job EXCEPT !.retired = "ended", !.made = TRUE]
    /\ owed' = TRUE /\ UNCHANGED dirty

Elsewhere ==
    CatalogAnswers \/ CellAnswers \/ ScanEnds \/ BakeEnds \/ RetiredEnds
===============================================================================
