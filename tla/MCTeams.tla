------------------------------- MODULE MCTeams -------------------------------
(* Instances of Teams.tla for TLC. *)
EXTENDS Teams, TLC

CONSTANTS ma, mb, pq, pr, c1, c2, c3, c4, T1, T2

(* ma may add mb, who founds a team too, and pq; mb may add pr. *)
InvitesMC == [p \in Players |-> CASE p = ma -> {mb, pq} [] p = mb -> {pr} [] OTHER -> {}]
CodeMC    == ma :> c1 @@ mb :> c2 @@ pq :> c3 @@ pr :> c4

(* ma is told the code of pq, and pr has drawn the same. *)
InvitesOne == [p \in Players |-> IF p = ma THEN {pq} ELSE {}]
CodeTwice  == ma :> c1 @@ pq :> c3 @@ pr :> c3

(* Team ids are random: nothing tells one from another. *)
Ids == Permutations(Teams)
=============================================================================
