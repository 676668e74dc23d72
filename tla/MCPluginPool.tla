---------------------------- MODULE MCPluginPool ----------------------------
(* TLC's instance of PluginPool; the constants are given in the cfg files. *)
EXTENDS PluginPool
=============================================================================
