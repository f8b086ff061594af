------------------------------- MODULE MCSession -------------------------------
(* An instance of Session.tla for TLC: pl has an account, pm signs up. *)
EXTENDS Session

CONSTANTS pl, pm, A
=============================================================================
