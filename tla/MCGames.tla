------------------------------- MODULE MCGames -------------------------------
(* Instances of Games.tla and History.tla for TLC. *)
EXTENDS History

CONSTANTS h1, h2, g1, k1, n1, H, G, K, ga, gb

(* h1 and h2 are two members of team H; g1 plays for G, k1 for K, n1 for none. *)
Membership == [d \in {h1, h2} |-> H] @@ [d \in {g1} |-> G] @@ [d \in {k1} |-> K]
              @@ [d \in {n1} |-> NoTeam]

StoredTeamOf == [d \in Devices |-> Membership[d]]
=============================================================================
