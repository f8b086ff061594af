----------------------------- MODULE MCBrowseMap -----------------------------
(* Instances of BrowseMap.tla for TLC: two games, two teams. *)
EXTENDS BrowseMap

CONSTANTS ga, gb, H, G
=============================================================================
