--------------------------- MODULE MCBleCommands ----------------------------
(* Small instances of BleCommands for TLC.                                 *)
EXTENDS BleCommands

MCCurrents == {}
MCIntMin == -4
=============================================================================
