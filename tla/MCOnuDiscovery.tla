--------------------------- MODULE MCOnuDiscovery ---------------------------
(* OnuDiscovery for TLC: a board with up to four ONUs (the value in notif.h) *)
(* and two bus connections of the plugin on which they can be found.         *)
EXTENDS OnuDiscovery, TLC

CONSTANTS ubus, other

MCCtx == {ubus, other}

\* The bus connections are interchangeable: no definition names one.
Symmetry == Permutations(MCCtx)
=============================================================================
