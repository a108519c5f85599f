---------------------------- MODULE MCOnuRestart ----------------------------
(* OnuRestart for TLC: as MCOnuDiscovery, with agents that come and go.      *)
EXTENDS OnuRestart, TLC

CONSTANTS ubus, other

MCCtx == {ubus, other}

\* The bus connections are interchangeable: no definition names one.
Symmetry == Permutations(MCCtx)
=============================================================================
