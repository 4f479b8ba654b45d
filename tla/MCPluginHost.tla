---------------------------- MODULE MCPluginHost ----------------------------
(* PluginHost with one plugin.                                             *)
EXTENDS PluginHost

CONSTANT gps

OnePlugin == {gps}

\* bound: one event or one accepted settings change beside the faults.
OneInput == count.events + values[gps].v <= 1
=============================================================================
