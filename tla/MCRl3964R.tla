------------------------------ MODULE MCRl3964R ------------------------------
(* Rl3964R for TLC: the bounds are in the .cfg. *)
EXTENDS Rl3964R
=============================================================================
