---------------------------- MODULE MCSdoClient ----------------------------
(* Instances of SdoClient for TLC. *)
EXTENDS SdoClient
=============================================================================
