------------------------------- MODULE TablePanel -------------------------------
(***************************************************************************)
(* A table a plugin declares and feeds, and the window the mariner reads   *)
(* it in: the plugin's side (plugins/common/lk2.zig), the broker's         *)
(* (src/src/plugin/broker.zig, broker/tables.zig), table-window.c of the   *)
(* Linux shell and Tables.cpp of the Windows shell.                        *)
(*                                                                         *)
(* The plugin hears of the window through its queue, the window of the     *)
(* rows by reading them once a second, and each keeps what it last knew of *)
(* the other.  A row is a vessel; its cells, the order and the columns are *)
(* left out, and a batch is taken whole.                                   *)
(***************************************************************************)
EXTENDS Naturals, Integers, Sequences, FiniteSets

CONSTANTS
    Vessels, None,
    Restarts,   \* bound: a plugin may be restarted, or its handle replaced
    MaxMail,    \* bound: what waits in the plugin's queue about the table
    MaxSeq      \* bound: batches of a table

VARIABLES
    shell,    \* "linux" or "windows"
    table,    \* the broker's: [open, rows, seq], or None while none is declared
    mail,     \* TABLE_OPEN and TABLE_CLOSED in the plugin's queue, as TRUE and FALSE
    told,     \* the plugin's TableState.open
    sent,     \* the rows it takes the host to hold
    real,     \* the vessels it could describe
    win,      \* the window: None, or [seq, rows, at]
    revealed  \* the vessel the chart was last centred on

plugin == <<mail, told, sent, real>>
vars == <<shell, table, plugin, win, revealed>>

Tables == [open : BOOLEAN, rows : SUBSET Vessels, seq : 0 .. MaxSeq]
Windows == [seq : -2 .. MaxSeq, rows : SUBSET Vessels, at : SUBSET Vessels]
Dead == -2   \* LK_TABLE_SEQ_DEAD; -1 on Windows

Declared == table # None
Up == win # None

\* buildTable, as declareTable appends it: closed, empty, its number at zero.
NewTable == [open |-> FALSE, rows |-> {}, seq |-> 0]

\* Bound: what is begun here can still be answered with the two batches it may take.
Room == Declared => table.seq + 3 <= MaxSeq

Init ==
    /\ shell \in {"linux", "windows"}
    /\ table = NewTable
    /\ mail = <<>> /\ told = FALSE /\ sent = {} /\ real = {}
    /\ win = None /\ revealed = None

-------------------------------------------------------------------------------
(* the broker and the plugin                                                 *)

\* setTableOpen, over the table `t` and a queue: what is already so changes and tells
\* nothing, and a table that closes drops its rows.
SetTableOpen(on) ==
    IF table = None \/ table.open = on THEN UNCHANGED <<table, mail>>
    ELSE /\ table' = IF on THEN [table EXCEPT !.open = TRUE]
                     ELSE [open |-> FALSE, rows |-> {}, seq |-> table.seq + 1]
         /\ mail' = Append(mail, on)

\* lkOpen: closed, the plugin forgets what it sent.
Hear ==
    /\ mail # <<>>
    /\ told' = Head(mail) /\ mail' = Tail(mail)
    /\ sent' = IF told' THEN sent ELSE {}
    /\ UNCHANGED <<shell, table, real, win, revealed>>

\* The world moves.
Sail ==
    /\ Room
    /\ real' \in SUBSET Vessels
    /\ UNCHANGED <<shell, table, mail, told, sent, win, revealed>>

\* lkBegin, upsert and lkFlush with updateTable: what changed since the last batch, while
\* the plugin has been told somebody looks.  The broker takes it, its table open or not.
Batch ==
    /\ told /\ Declared /\ real # sent /\ table.seq < MaxSeq
    /\ table' = [table EXCEPT !.rows = (@ \ (sent \ real)) \cup (real \ sent), !.seq = @ + 1]
    /\ sent' = real
    /\ UNCHANGED <<shell, mail, told, real, win, revealed>>

\* A batch that did not fit or was refused: the plugin describes itself again.
Refused ==
    /\ Room /\ told /\ real # sent /\ sent # {}
    /\ sent' = {}
    /\ UNCHANGED <<shell, table, mail, told, real, win, revealed>>

\* dropPlugin takes the table, the queue and the plugin's memory.
Fault ==
    /\ Restarts /\ Declared
    /\ table' = None /\ mail' = <<>> /\ told' = FALSE /\ sent' = {}
    /\ UNCHANGED <<shell, real, win, revealed>>

\* lkDeclare, at the next start.
Restart ==
    /\ ~Declared
    /\ table' = NewTable
    /\ UNCHANGED <<shell, plugin, win, revealed>>

-------------------------------------------------------------------------------
(* Linux                                                                     *)

\* lk_table_reload over the table `t`.
LinuxReload(w, t, force) ==
    IF t = None THEN (IF w.seq = Dead THEN w ELSE [seq |-> Dead, rows |-> {}, at |-> {}])
    ELSE IF ~force /\ w.seq = t.seq THEN w
    ELSE [seq |-> t.seq, rows |-> t.rows, at |-> t.rows]

\* lk_table_window_present: the plugin is told before the first read.  A window that is
\* up is brought forward.
LinuxPresent ==
    /\ shell = "linux" /\ ~Up /\ Declared /\ Len(mail) < MaxMail
    /\ SetTableOpen(TRUE)
    /\ win' = LinuxReload([seq |-> -1, rows |-> {}, at |-> {}], table', TRUE)
    /\ UNCHANGED <<shell, told, sent, real, revealed>>

\* lk_table_poll
LinuxPoll ==
    /\ shell = "linux" /\ Up
    /\ win' = LinuxReload(win, table, FALSE)
    /\ UNCHANGED <<shell, table, plugin, revealed>>

\* lk_table_header_clicked
LinuxSort ==
    /\ shell = "linux" /\ Up
    /\ win' = LinuxReload(win, table, TRUE)
    /\ UNCHANGED <<shell, table, plugin, revealed>>

\* lk_table_row_activated
LinuxActivate(v) ==
    /\ shell = "linux" /\ Up /\ v \in win.at
    /\ revealed' = v
    /\ UNCHANGED <<shell, table, plugin, win>>

\* lk_table_window_free
LinuxCloseWindow ==
    /\ shell = "linux" /\ Up /\ Len(mail) < MaxMail /\ Room
    /\ SetTableOpen(FALSE)
    /\ win' = None
    /\ UNCHANGED <<shell, told, sent, real, revealed>>

\* A handle replaces another, and with it broker and plugin; the windows stay.
LinuxReopen ==
    /\ shell = "linux" /\ Restarts
    /\ table' = NewTable
    /\ mail' = <<>> /\ told' = FALSE /\ sent' = {}
    /\ UNCHANGED <<shell, real, win, revealed>>

-------------------------------------------------------------------------------
(* Windows                                                                   *)

\* ReloadTable: with no answer the rows leave the window, and what Return would
\* reveal stays.
WindowsReload(w, t, force) ==
    IF t = None THEN [seq |-> -1, rows |-> IF w.seq = -1 THEN w.rows ELSE {}, at |-> w.at]
    ELSE IF ~force /\ w.seq = t.seq THEN w
    ELSE [seq |-> t.seq, rows |-> t.rows, at |-> t.rows]

\* OpenPluginTable
WindowsPresent ==
    /\ shell = "windows" /\ ~Up /\ Declared /\ Len(mail) < MaxMail
    /\ SetTableOpen(TRUE)
    /\ win' = WindowsReload([seq |-> -1, rows |-> {}, at |-> {}], table', TRUE)
    /\ UNCHANGED <<shell, told, sent, real, revealed>>

\* The window's one-second timer.
WindowsPoll ==
    /\ shell = "windows" /\ Up
    /\ win' = WindowsReload(win, table, FALSE)
    /\ UNCHANGED <<shell, table, plugin, revealed>>

\* A header's click.
WindowsSort ==
    /\ shell = "windows" /\ Up
    /\ win' = WindowsReload(win, table, TRUE)
    /\ UNCHANGED <<shell, table, plugin, revealed>>

\* ApplyTableTheme: every row's ink was resolved when the row was built.
Recolour ==
    /\ shell = "windows" /\ Up
    /\ win' = WindowsReload(win, table, TRUE)
    /\ UNCHANGED <<shell, table, plugin, revealed>>

\* ActivateRow with RevealOnChart: a double click, or Return on the selected index.
WindowsActivate(v) ==
    /\ shell = "windows" /\ Up /\ v \in win.at
    /\ revealed' = v
    /\ UNCHANGED <<shell, table, plugin, win>>

\* The Closed handler.
WindowsCloseWindow ==
    /\ shell = "windows" /\ Up /\ Len(mail) < MaxMail /\ Room
    /\ SetTableOpen(FALSE)
    /\ win' = None
    /\ UNCHANGED <<shell, told, sent, real, revealed>>

\* CloseVesselWindows with CloseChartHandle: the windows go first.
WindowsReopen ==
    /\ shell = "windows" /\ Restarts
    /\ win' = None
    /\ table' = NewTable
    /\ mail' = <<>> /\ told' = FALSE /\ sent' = {}
    /\ UNCHANGED <<shell, real, revealed>>

-------------------------------------------------------------------------------

Poll == LinuxPoll \/ WindowsPoll

Next ==
    \/ Hear \/ Sail \/ Batch \/ Refused
    \/ Fault \/ Restart
    \/ LinuxPresent \/ LinuxPoll \/ LinuxSort \/ LinuxCloseWindow \/ LinuxReopen
    \/ WindowsPresent \/ WindowsPoll \/ WindowsSort \/ Recolour
    \/ WindowsCloseWindow \/ WindowsReopen
    \/ \E v \in Vessels : LinuxActivate(v) \/ WindowsActivate(v)

Spec == Init /\ [][Next]_vars

\* The queue is served, the plugin's cycle runs, the timer fires, and a plugin that
\* stopped is started again.
Fairness == WF_vars(Hear) /\ WF_vars(Batch) /\ WF_vars(Poll) /\ WF_vars(Restart)

FairSpec == Spec /\ Fairness

-------------------------------------------------------------------------------

TypeOK ==
    /\ shell \in {"linux", "windows"}
    /\ table \in Tables \cup {None}
    /\ mail \in Seq(BOOLEAN) /\ Len(mail) <= MaxMail
    /\ told \in BOOLEAN /\ sent \subseteq Vessels /\ real \subseteq Vessels
    /\ win \in Windows \cup {None}
    /\ revealed \in Vessels \cup {None}

\* The number is honest: a window whose number is the table's shows its rows.
WindowIsTheTable == Up /\ Declared /\ win.seq = table.seq => win.rows = table.rows

\* Rows are asked for by a window: no table is open without one.
OpenIsForAWindow == Declared /\ table.open => Up

\* The plugin hears the last word: with its queue read, it builds rows just while the
\* table is open.
LastWordIsHeard ==
    Declared => (IF mail = <<>> THEN told ELSE mail[Len(mail)]) = table.open

\* The window, the table and the plugin agree on who looks and at what.
PanelIsTrue == WindowIsTheTable /\ OpenIsForAWindow /\ LastWordIsHeard

\* A vessel comes to the window, through the plugin's queue, its batch and the read.
Wanted(v) == Up /\ Declared /\ table.open /\ v \in real
TableIsFed == \A v \in Vessels : Wanted(v) ~> (Up /\ v \in win.rows) \/ ~Wanted(v)

\* "A table nobody is watching keeps no rows" (broker.zig, setTableOpen).
UnwatchedKeepsNoRows == Declared /\ ~table.open => table.rows = {}

\* "the table refills if the plugin restarts" (table-window.c, lk_table_reload).
Missed(v) == Up /\ Declared /\ v \in real
TableRefills == \A v \in Vessels : Missed(v) ~> (Up /\ v \in win.rows) \/ ~Missed(v)

\* What the chart is centred on was a row of the window.
RevealIsOfARow == [][revealed' # revealed => revealed' \in win.rows]_vars
===============================================================================
