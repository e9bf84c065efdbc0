---------------------------- MODULE MCSdkClient ----------------------------
(* A small instance of SdkClient for TLC. *)
EXTENDS SdkClient
=============================================================================
