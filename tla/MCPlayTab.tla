------------------------------- MODULE MCPlayTab -------------------------------
(* An instance of PlayTab.tla for TLC: a player of team A, or of none. *)
EXTENDS PlayTab

CONSTANTS A, B, ga
=============================================================================
