--------------------------- MODULE MCModbusDaemon ---------------------------
(* ModbusDaemon for TLC: two regions, commands, faults and viewers. *)
EXTENDS ModbusDaemon
=============================================================================
