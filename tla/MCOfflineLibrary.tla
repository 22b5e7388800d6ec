-------------------------- MODULE MCOfflineLibrary --------------------------
(* A small instance of the offline library for TLC. *)
EXTENDS OfflineLibrary

CONSTANTS v1
=============================================================================
