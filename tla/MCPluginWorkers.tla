--------------------------- MODULE MCPluginWorkers --------------------------
(* The instance of the run Plugins.                                        *)
EXTENDS PluginWorkers

TwoSlots == 1..2
=============================================================================
