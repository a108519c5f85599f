------------------------------ MODULE MCDmSync ------------------------------
(* DmSync for TLC: the agent of one ONU with a static object whose           *)
(* parameters change (transceiver.1) and one that comes and goes             *)
(* (transceiver.2); the ONU itself can be enabled.                           *)
EXTENDS DmSync

CONSTANTS xpon_onu, transceiver_1, transceiver_2

MCStatic == {xpon_onu, transceiver_1}
MCDynamic == {transceiver_2}
MCChanging == {transceiver_1}
MCEnableable == {xpon_onu}
=============================================================================
