-------------------------------- MODULE MCWatch --------------------------------
(***************************************************************************)
(* Small instances of WatchDaemon.                                         *)
(***************************************************************************)
EXTENDS WatchDaemon

CONSTANTS d1, d2, h1, h2

OnePid == {d1}
TwoPids == {d1, d2}
OneHook == {h1}
TwoHooks == {h1, h2}
==============================================================================
