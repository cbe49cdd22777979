----------------------------- MODULE MCModeList -----------------------------
(* A small instance of ModeList with contacts of every kind. *)
EXTENDS ModeList
=============================================================================
