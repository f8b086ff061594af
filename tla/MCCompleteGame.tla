---------------------------- MODULE MCCompleteGame ----------------------------
(* Instances of CompleteGame.tla for TLC: A hosts B in g1, C hosts A in g2. *)
EXTENDS Standings, TLC

CONSTANTS r1, r2, r3, da, db, g1, g2, A, B, C, pa, pb, none

(* r1 and r2 report g2 from one phone of C: the button is tapped again.  r3 *)
(* reports g1 from a phone of A.                                           *)
Phone == r1 :> da @@ r2 :> da @@ r3 :> db

ReportedByMC == [r \in Reports |-> Phone[r]]
GameOfMC     == [r \in Reports |-> IF r = r3 THEN g1 ELSE g2]

HomeMC     == g1 :> A @@ g2 :> C
GuestMC    == g1 :> B @@ g2 :> A
InvolvedMC == g1 :> {pb} @@ g2 :> {pa}
(* pa plays for A; pb has left B since and has no team. *)
TeamOfMC   == pa :> A @@ pb :> none

TeamOrderMC == <<B, A, C>>
=============================================================================
