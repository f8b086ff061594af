------------------------------- MODULE Standings -------------------------------
(***************************************************************************)
(* The Ranking tab (RankingViewController.swift): what renderRankingsLive  *)
(* lists each time its listener is told of the teams, over the records and *)
(* the batches of CompleteGame.tla.                                        *)
(*                                                                         *)
(* The rows are sorted with a comparison of win percentages.  A team that  *)
(* has not played has 0/0, which is no number: it compares false with      *)
(* everything, so that the comparison is not the order sort asks for, and  *)
(* what comes out depends on how the library sorts.  Swift 4.2 sorts fewer *)
(* than twenty elements by insertion, which is modelled here.              *)
(***************************************************************************)
EXTENDS CompleteGame, SequencesExt

CONSTANT TeamOrder  \* the teams in the order of the query's answer, by id

ASSUME TeamOrderAssumption ==
  /\ TeamOrder \in Seq(Teams)
  /\ ToSet(TeamOrder) = Teams /\ Len(TeamOrder) = Cardinality(Teams)

Played(d, t) == Seen(d, t).games > 0

(* Mutant of Ahead: the wins are compared. *)
AheadByWins(d, t, u) == Played(d, t) /\ Played(d, u) /\ Seen(d, t).wins > Seen(d, u).wins

(* t's percentage is greater than u's, as device d sees the records. *)
Ahead(d, t, u) ==
  /\ Played(d, t) /\ Played(d, u)
  /\ Seen(d, t).wins * Seen(d, u).games > Seen(d, u).wins * Seen(d, t).games

(* One step of the insertion: t goes back over the rows it is ahead of. *)
Inserted(d, rows, t) ==
  LET stops == {i \in DOMAIN rows : ~Ahead(d, t, rows[i])}
  IN  InsertAt(rows, Max(stops \cup {0}) + 1, t)

Rankings(d) == FoldLeft(LAMBDA rows, t : Inserted(d, rows, t), <<>>, TeamOrder)

-----------------------------------------------------------------------------
(* Property *)

(* Whatever batches are under way, every team is listed once, and two      *)
(* teams that have played are in the order of their percentages, unless a  *)
(* team that has not played is listed between them (the listing is not     *)
(* "in order of rank", RankingViewController.swift line 82, across one).   *)
RankedBetweenGames ==
  \A d \in Devices :
    LET rows == Rankings(d)
    IN  /\ Len(rows) = Len(TeamOrder) /\ ToSet(rows) = Teams
        /\ \A i, j \in DOMAIN rows :
             (i < j /\ \A k \in i .. j : Seen(d, rows[k]).games > 0) =>
               Seen(d, rows[j]).wins * Seen(d, rows[i]).games
                 <= Seen(d, rows[i]).wins * Seen(d, rows[j]).games
=============================================================================
