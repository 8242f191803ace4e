--------------------------- MODULE MCDataProvider ---------------------------
(* DataProvider for TLC: the bounds are in the .cfg. *)
EXTENDS DataProvider
=============================================================================
