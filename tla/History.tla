-------------------------------- MODULE History --------------------------------
(***************************************************************************)
(* What the Team and Profile tabs say of played games: getGamesHistory,    *)
(* getGameTeamResult and getGameOpponentTeamID (dbGame.swift) over the     *)
(* game documents as a device of Games.tla sees them.  A team is taken for *)
(* the guest when it is not the first of the teams array.                  *)
(***************************************************************************)
EXTENDS Games, SequencesExt

(* The scores a device sees are those of its own last unsent result. *)
Score(d, g) ==
  IF Pending(d, g, {"result"}) = {}
  THEN [home |-> server[g].homeWin, guest |-> server[g].guestWin]
  ELSE LET w == queue[d][Latest(d, g, {"result"})]
       IN  [home |-> w.homeWin, guest |-> w.guestWin]

(* What a device reads is what the server's document will be once the      *)
(* device's own writes have been replayed over it, in order (the overlay   *)
(* that documentForKey makes for every getDocument and listener here).     *)
ApplyTo(g, doc, w) == IF w.game = g THEN Apply(doc, w) ELSE doc
Replay(d, g) == FoldLeft(LAMBDA doc, w : ApplyTo(g, doc, w), server[g], queue[d])

(* The completed games whose teams, or whose players, name t. *)
TeamHistory(d, t) == {g \in Games : ViewStatus(d, g) = "completed" /\ Plays(d, g, t)}
PlayerHistory(d, t) == {g \in Games : ViewStatus(d, g) = "completed" /\ t \in ViewRoster(d, g)}

(* Mutant of GameTeamResult: the home score is read for either team. *)
GameTeamResultHome(d, g, t) == IF Score(d, g).home THEN "Win" ELSE "Loss"

GameTeamResult(d, g, t) ==
  LET won == IF ViewHome(d, g) = t THEN Score(d, g).home ELSE Score(d, g).guest
  IN  IF won THEN "Win" ELSE "Loss"

GameOpponent(d, g, t) == IF ViewHome(d, g) = t THEN ViewGuest(d, g) ELSE ViewHome(d, g)

-----------------------------------------------------------------------------
(* Properties *)

(* Every part of a document that a screen reads alone (its status, a place *)
(* of the teams array, the members, the scores) is that part of the one    *)
(* document the replay gives, whatever part of the queue the server has    *)
(* applied before.                                                         *)
ViewIsReplay ==
  \A d \in Devices, g \in Games :
    LET doc == Replay(d, g)
    IN  /\ doc.status = ViewStatus(d, g) /\ doc.named = ViewNamed(d, g)
        /\ doc.home = ViewHome(d, g) /\ doc.guest = ViewGuest(d, g)
        /\ doc.roster = ViewRoster(d, g)
        /\ [home |-> doc.homeWin, guest |-> doc.guestWin] = Score(d, g)

(* Results reported at once by two members, late joins and unsent writes:  *)
(* on every device, a game in a team's history is in its opponent's too,   *)
(* with the opposite result, and in that of a player who does not play for *)
(* the home team, with the guests' result.                                 *)
HistoriesOppose ==
  \A d \in Devices, t \in Teams : \A g \in TeamHistory(d, t) :
    LET u == GameOpponent(d, g, t)
    IN  /\ u \in Teams \ {t} /\ g \in TeamHistory(d, u)
        /\ GameOpponent(d, g, u) = t
        /\ GameTeamResult(d, g, t) # GameTeamResult(d, g, u)
        /\ \E p \in Teams \ {ViewHome(d, g)} :
             /\ g \in PlayerHistory(d, p)
             /\ GameTeamResult(d, g, p) = GameTeamResult(d, g, ViewGuest(d, g))
=============================================================================
