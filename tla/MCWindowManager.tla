-------------------------- MODULE MCWindowManager --------------------------
(* Two taskbars, one for every window and one for those on the first monitor.   *)
EXTENDS WindowManager, TLC

CONSTANTS all, first

Settings == (all :> AnyMonitor) @@ (first :> 1)
=============================================================================
