-------------------------------- MODULE FirstRun --------------------------------
(***************************************************************************)
(* Setup's steps and the rules that move between them (src/src/firstrun.zig).  *)
(* Setup acts on facts the shell states with every note, and hands back    *)
(* the source the shell is to act on.                                      *)
(***************************************************************************)
EXTENDS Naturals

VARIABLE setup   \* the state setup is in

Steps == {"welcome", "source", "coverage", "online", "importing", "depths"}

SetupType(runs) ==
    [step : Steps, showing : BOOLEAN, terms : BOOLEAN, only : BOOLEAN, away : BOOLEAN,
     had : BOOLEAN, saw : BOOLEAN, ordered : BOOLEAN, orderRun : runs]

NewSetup ==
    [step |-> "welcome", showing |-> FALSE, terms |-> FALSE, only |-> FALSE,
     away |-> FALSE, had |-> FALSE, saw |-> FALSE, ordered |-> FALSE, orderRun |-> 0]

OrderEnded(s, f) ==
    s.ordered /\ f.run # s.orderRun /\ f.outcome \notin {"none", "running"}

PrimaryEnabled(s, f) ==
    CASE s.step = "online"    -> f.link
      [] s.step = "coverage"  -> f.ready /\ f.picked
      [] s.step = "importing" -> s.saw /\ ~f.loading /\ ~f.work /\ f.open
      [] OTHER -> TRUE

ImportEnded(s, f) ==
    /\ s.showing /\ s.step = "importing" /\ OrderEnded(s, f)
    /\ f.outcome # "finished" /\ ~f.work /\ ~f.loading /\ ~PrimaryEnabled(s, f)

CanGoBack(s, f) ==
    s.showing /\ CASE s.step \in {"source", "coverage", "online"} -> ~s.only
                   [] s.step = "importing" -> ImportEnded(s, f)
                   [] OTHER -> FALSE

ShouldRun(s, f) ==
    ~s.showing /\ ~f.link /\ (s.away => s.had) /\ f.nothing /\ ~f.work

Note(s, f) ==
    LET watched == s.showing /\ s.step = "importing"
    IN  [s EXCEPT !.had = @ \/ f.has,
                  !.saw = @ \/ (watched /\ (f.work \/ (OrderEnded(s, f)
                                                       /\ f.outcome = "finished")))]

ResetImport(s) == [s EXCEPT !.saw = FALSE, !.ordered = FALSE, !.orderRun = 0]

BeginAt(s, f, step, picker) ==
    [ResetImport(s) EXCEPT !.step = step, !.showing = TRUE, !.only = picker,
                           !.terms = FALSE, !.had = IF picker THEN @ ELSE f.has]

Finish(s) ==
    [s EXCEPT !.away = TRUE, !.showing = FALSE, !.step = "welcome", !.only = FALSE,
              !.terms = FALSE]

Agree(s) ==
    [s EXCEPT !.terms = FALSE,
              !.step = IF s.showing /\ @ = "source" THEN "coverage" ELSE @]

Decline(s) == [s EXCEPT !.terms = FALSE]

\* advance with the source picked
Advance(s, f, source) ==
    CASE ~s.showing -> s
      [] s.showing /\ s.step = "welcome" -> [s EXCEPT !.step = "source"]
      [] s.showing /\ s.step = "source" ->
            (CASE source = "noaa"   -> [s EXCEPT !.terms = TRUE]
               [] source = "online" -> [s EXCEPT !.step = "online"]
               [] OTHER -> Finish(s))
      [] s.showing /\ s.step = "coverage" ->
            [ResetImport(s) EXCEPT !.step = "importing", !.ordered = TRUE,
                                   !.orderRun = f.run]
      [] s.showing /\ s.step = "online" -> [s EXCEPT !.step = "depths"]
      [] s.showing /\ s.step = "importing" ->
            IF s.only THEN Finish(s) ELSE [s EXCEPT !.step = "depths"]
      [] OTHER -> Finish(s)

Back(s, f) ==
    IF ~CanGoBack(s, f) THEN s
    ELSE CASE s.step = "source" -> [s EXCEPT !.step = "welcome"]
           [] s.step \in {"coverage", "online"} -> [s EXCEPT !.step = "source"]
           [] OTHER -> [ResetImport(s) EXCEPT !.step = "coverage"]
===============================================================================
