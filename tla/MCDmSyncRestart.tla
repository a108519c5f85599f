-------------------------- MODULE MCDmSyncRestart --------------------------
(* DmSyncRestart for TLC, with the objects of MCDmSync.                      *)
EXTENDS DmSyncRestart

CONSTANTS xpon_onu, transceiver_1, transceiver_2

MCStatic == {xpon_onu, transceiver_1}
MCDynamic == {transceiver_2}
MCChanging == {transceiver_1}
MCEnableable == {xpon_onu}
=============================================================================
