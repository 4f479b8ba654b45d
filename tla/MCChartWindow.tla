---------------------------- MODULE MCChartWindow ----------------------------
(***************************************************************************)
(* The chart window and what stands over it: the Linux widget's reading of *)
(* touch and mouse, with two fingers and 220, 350 and 550 ms as 2, 3 and 4 *)
(* ticks (ChartInput), the view itself over two places (ChartWindow), the  *)
(* strip of alerts (AlertStrip) and a plugin's table (TablePanel) in both  *)
(* shells.  The four meet in the core alone, each through a list or a      *)
(* camera of its own, so a behaviour is of one of them and the other parts *)
(* rest where they began.                                                  *)
(***************************************************************************)
EXTENDS ChartInput, ChartPlaces

CONSTANTS f1, f2, here, there, k1, k2, k3, v1, v2

TwoFingers == {f1, f2}
TwoWaters == {here, there}
ThreeConds == {k1, k2, k3}
TwoVessels == {v1, v2}

CONSTANTS
    Conds, MaxAlerts, MaxVisible, MaxIds, AlertSeq, MaxOpens,   \* as AlertStrip's
    Vessels, Restarts, MaxMail, TableSeq                        \* as TablePanel's

\* The caps of the alerts leave room for one, and the bounds are numbers.
ASSUME StripBounds ==
    /\ {MaxAlerts, MaxVisible, MaxIds, AlertSeq, MaxOpens} \subseteq Nat
    /\ MaxAlerts > 0 /\ MaxVisible > 0

ASSUME PanelBounds == {MaxMail, TableSeq} \subseteq Nat /\ None \notin Vessels

VARIABLES
    part,   \* whose behaviour this is
    shell,  \* whose strip and table
    \* of the view, as ChartWindow names them
    handle, layer, cam, gliding, follow, dirty, building, quiet, tick, wake,
    realized, surface, presented, built, saved, menu, pick, pin, bubble, object,
    \* of the strip, as AlertStrip does but for the handle and layer it watches
    watched, plugins, book, seq, next, watch, known, list, siren, opens,
    \* of the table, as TablePanel does
    table, mail, told, sent, real, win, revealed

V == INSTANCE ChartWindow

A == INSTANCE AlertStrip WITH
    handle <- watched, layer <- plugins, MaxSeq <- AlertSeq

T == INSTANCE TablePanel WITH MaxSeq <- TableSeq

\* None is no table and no window.
ASSUME NoneIsNoPanel == None \notin T!Tables \cup T!Windows

view == <<handle, layer, cam, gliding, follow, dirty, building, quiet, tick, wake,
          realized, surface, presented, built, saved, menu, pick, pin, bubble, object>>
alerts == <<watched, plugins, book, seq, next, watch, known, list, siren, opens>>
panel == <<table, mail, told, sent, real, win, revealed>>

EachInit ==
    /\ Init /\ V!Init /\ A!Init /\ T!Init
    /\ part \in {"input", "view", "alerts", "table"}
    /\ part # "view" => saved = None
    /\ part \in {"input", "view"} => shell = "linux"

EachNext ==
    /\ \/ part = "input" /\ Next /\ UNCHANGED <<shell, view, alerts, panel>>
       \/ part = "view" /\ V!Next /\ UNCHANGED <<shell, vars, alerts, panel>>
       \/ part = "alerts" /\ A!Next /\ UNCHANGED <<vars, view, panel>>
       \/ part = "table" /\ T!Next /\ UNCHANGED <<vars, view, alerts>>
    /\ UNCHANGED part

everything == <<part, shell, vars, view, alerts, panel>>

\* The fairness of a part asks for nothing while it rests.
EachSpec ==
    EachInit /\ [][EachNext]_everything /\ V!Fairness /\ A!Fairness /\ T!Fairness

-------------------------------------------------------------------------------

\* The view is alive and what the window shows goes together (ChartWindow, ViewIsAlive and
\* WindowAgrees); what is read over the chart is what the plugins said: the copies agree
\* with the lists whose numbers they carry, a siren has a row that answers it, a row names
\* the danger it silences, and a table is open just for a window (AlertStrip, StripIsTrue;
\* TablePanel, PanelIsTrue).
WindowIsTrue ==
    /\ V!TypeOK /\ V!ViewIsAlive /\ V!WindowAgrees
    /\ A!TypeOK /\ A!StripIsTrue /\ T!TypeOK /\ T!PanelIsTrue

\* An open chart is seen, its loader down; an alarm is heard; a vessel a plugin knows
\* comes to the window that asked for it (ChartWindow, OpenIsSeen; AlertStrip,
\* AlarmIsHeard; TablePanel, TableIsFed).
SeenAndHeard == V!OpenIsSeen /\ A!AlarmIsHeard /\ T!TableIsFed

\* What the overlay's comment says of a pin, which its code does not keep
\* (ChartWindow, PinIsDropped).
PinIsDropped == V!PinIsDropped
===============================================================================
