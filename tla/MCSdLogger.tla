----------------------------- MODULE MCSdLogger -----------------------------
(* Small instances of SdLogger for TLC.                                    *)
EXTENDS SdLoggerInv

\* A draw and a regeneration current of different magnitudes.
MCCurrents == {-2, 1}
MCIntMin == -4

\* Three-bit two's complement with its smallest value.
MCEdgeCurrents == {-4, 1}
=============================================================================
