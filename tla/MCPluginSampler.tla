--------------------------- MODULE MCPluginSampler ---------------------------
(* PluginSampler as TLC checks it: up to two subprocess plugins and one        *)
(* builtin, one restart, and enough instances for a relaunch before or after   *)
(* it.                                                                         *)
EXTENDS PluginSampler
==============================================================================
