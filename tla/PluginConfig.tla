----------------------------- MODULE PluginConfig -----------------------------
(***************************************************************************)
(* What the settings panes of the shells edit: the configuration of the    *)
(* plugins, in the core while a chart is open, and in the shell's store.   *)
(* The bundled plugin "nmea" has a list of connections, each an id the     *)
(* shell minted and a host; the plugin "added" is one the mariner installs *)
(* and has one number.                                                     *)
(***************************************************************************)
EXTENDS Naturals, FiniteSets

CONSTANTS
    Ids,      \* bound: row ids minted in a behaviour
    Hosts,    \* hosts that may answer on the boat's network
    MaxRows,  \* the rows the core keeps of the list
    None

VARIABLES
    core,    \* the plugin layer: whether a chart is open, what is loaded, ...
    store,   \* the configurations the shell saved
    mine,    \* history: what the mariner made of each, and the shell has yet to save
    minted   \* the row ids handed out

Plugins == {"nmea", "added"}
Texts == {""} \cup Hosts
Rows == UNION {[s -> Texts] : s \in SUBSET Ids}
Cfg == [nmea : Rows, added : {0, 1}]
Default == [nmea |-> [i \in {} |-> ""], added |-> 0]
Nothing == [p \in Plugins |-> None]

Held(c) == {c.nmea[i] : i \in DOMAIN c.nmea}
Full(c) == Cardinality(DOMAIN c.nmea) >= MaxRows

ConfigInit ==
    /\ core = [open |-> FALSE, loaded |-> {"nmea"}, cfg |-> Default, grant |-> TRUE,
               said |-> 0, fresh |-> {}]
    /\ store = Nothing /\ mine = Nothing /\ minted = {}

\* Closing ends the plugin layer.
Closed(c) == [c EXCEPT !.open = FALSE, !.cfg = Default, !.fresh = {}]

\* A chart opens: the plugin layer comes up on the manifests' defaults, and the
\* shell hands it what it saved.
Opened(c, s) ==
    [c EXCEPT !.open = TRUE, !.fresh = {},
              !.cfg = [p \in Plugins |-> IF p \in c.loaded /\ s[p] # None THEN s[p]
                                         ELSE Default[p]]]

\* The configurations of ps, as a pane holds them in cfg, are handed to the core;
\* one it cannot take (no chart, no such plugin) is dropped without a word.
Pushed(c, ps, cfg) ==
    LET taken == IF c.open THEN ps \cap c.loaded ELSE {}
    IN [c EXCEPT !.cfg = [p \in Plugins |-> IF p \in taken THEN cfg[p] ELSE @[p]],
                 !.fresh = @ \ taken]

Save(ps, cfg) ==
    /\ store' = [p \in Plugins |-> IF p \in ps THEN cfg[p] ELSE store[p]]
    /\ mine' = [p \in Plugins |-> IF mine[p] = store'[p] THEN None ELSE mine[p]]

\* The mariner makes cfg of p; of what the shell knows as saved nothing is made.
Make(p, cfg, known) == mine' = [mine EXCEPT ![p] = IF cfg[p] \in known THEN None ELSE cfg[p]]

Installed(c) ==
    [c EXCEPT !.loaded = @ \cup {"added"}, !.cfg.added = Default.added,
              !.fresh = @ \cup {"added"}, !.grant = TRUE]
Uninstalled(c) ==
    [c EXCEPT !.loaded = @ \ {"added"}, !.cfg.added = Default.added, !.fresh = @ \ {"added"}]

\* The plugins change what they say of themselves.
Speak == core.open /\ core' = [core EXCEPT !.said = 1 - @] /\ UNCHANGED <<store, mine, minted>>

-------------------------------------------------------------------------------
(* Properties.                                                              *)

\* What the shell saved of a plugin is what the plugin runs on, but for one that was
\* installed on its defaults and not set since.
InForce ==
    core.open => \A p \in core.loaded \ core.fresh : store[p] # None => core.cfg[p] = store[p]

\* A save of the plugin that stays puts down what the mariner made of it, never an
\* older copy over it.
NothingIsUndone ==
    store.nmea # None /\ store'.nmea # store.nmea => store'.nmea = mine.nmea

ConfigTypeOK ==
    /\ core \in [open : BOOLEAN, loaded : SUBSET Plugins, cfg : Cfg, grant : BOOLEAN,
                 said : {0, 1}, fresh : SUBSET Plugins]
    /\ store \in [nmea : Rows \cup {None}, added : {0, 1, None}]
    /\ mine \in [nmea : Rows \cup {None}, added : {0, 1, None}]
    /\ minted \in SUBSET Ids
===============================================================================
