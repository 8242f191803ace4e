---------------------------- MODULE MCEventLog ------------------------------
(* EventLog for TLC, with the reader r1. *)
EXTENDS EventLog

CONSTANT r1
=============================================================================
