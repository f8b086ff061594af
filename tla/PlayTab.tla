-------------------------------- MODULE PlayTab --------------------------------
(***************************************************************************)
(* The Play tab of one phone: PlayViewController.rerouteActiveView and the *)
(* screens it leads to (NoGame, CreateGame, Listing, LiveGame), composed   *)
(* with the games collection (GameBoard.tla, which Games.tla implements)   *)
(* and with the team the phone stores (StoredTeam.tla, which Session.tla   *)
(* implements).                                                            *)
(*                                                                         *)
(* Every screen attaches its listeners when it appears, with the team      *)
(* stored then, and leads on to a new Play container, which routes again.  *)
(* Listeners are told of the collection as it is when they are told:       *)
(* snapshots overtaken by the next are skipped.  The collection is the     *)
(* one this phone sees, its own posts included; Post and Withdraw may be   *)
(* this phone's (onSaveCreateGameClick, deleteListingClick) or another's.  *)
(***************************************************************************)
EXTENDS Naturals, FiniteSets

CONSTANTS
  Games, NoGame,
  Teams, NoTeam, NotStored,
  OwnTeams,  \* teams the players of this phone may be in
  MaxLeft    \* bound: answers and listeners left behind when a user leaves a screen

VARIABLES
  status, home, guest, named, winner,              \* the board
  inside, udTeam,                                  \* the session
  front,     \* the Play tab is the one shown
  screen,    \* the screen on top of its stack
  alert,     \* the alert on it
  stage,     \* how far the screen's reads and listeners are
  query,     \* the team its first query was made with
  queryLive, \* the team the container's second query was made with
  game,      \* the game Listing or LiveGame follows
  owed,      \* answers that Listing and LiveGame screens that have gone still wait for
  stray,     \* stray[s, g]: a listener on g attached after its screen s had gone
  open       \* history: games open to the stored team since the container appeared

board   == <<status, home, guest, named, winner>>
session == <<inside, udTeam>>
strays  == <<owed, stray>>
tab     == <<front, screen, alert, stage, query, queryLive, game>>
vars    == <<board, session, tab, strays, open>>

Board   == INSTANCE GameBoard
Session == INSTANCE StoredTeam WITH Teams <- OwnTeams

ASSUME PlayAssumption ==
  /\ NoGame \notin Games
  /\ NoTeam \notin Teams /\ OwnTeams \subseteq Teams
  /\ MaxLeft \in Nat

TeamIDs == Teams \cup {NoTeam}
Screens == {"container", "nogame", "create", "listing", "live", "team"}
Alerts  == {"none", "noteam", "posted"}
Stages  == {"listing", "active", "asked", "following", "nothing"}

(* The screens that ask for a game first and follow it by its id then. *)
Followers == {"listing", "live"}

Plays(g, t) == t \in {home[g], guest[g]}

(* The games a query by status and team answers with. *)
Answer(s, t) == {g \in Games : status[g] = s /\ Plays(g, t)}

OpenTo(t) == IF t \in Teams THEN Answer("listing", t) \cup Answer("active", t) ELSE {}

Init ==
  /\ Board!Init /\ Session!Init
  /\ front = FALSE /\ screen = "container" /\ alert = "none" /\ stage = "listing"
  /\ query = NoTeam /\ queryLive = NoTeam /\ game = NoGame
  /\ owed = {} /\ stray = [sg \in Followers \X Games |-> "none"]
  /\ open = {}

-----------------------------------------------------------------------------
(* viewWillAppear of a screen: every screen asks again from the beginning. *)
(* Without a stored team the container says so, and listens all the same.  *)
Appear(s, a) ==
  /\ front' = TRUE /\ screen' = s
  /\ alert' = IF s = "container" /\ udTeam = NoTeam THEN "noteam" ELSE a
  /\ stage' = IF s \in Followers THEN "asked" ELSE "listing"
  /\ query' = udTeam /\ queryLive' = NoTeam /\ game' = NoGame
  /\ open'  = IF s = "container" THEN OpenTo(udTeam) ELSE {}

Away == /\ front' = FALSE /\ alert' = "none" /\ stage' = "listing" /\ query' = NoTeam
        /\ queryLive' = NoTeam /\ game' = NoGame /\ open' = {}

(* Bound: the user leaves a screen that asks only while few have done so. *)
MayLeave ==
  stage = "asked" =>
    Cardinality(owed) + Cardinality({sg \in Followers \X Games : stray[sg] # "none"}) < MaxLeft

(* A screen whose query has not been answered is owed the answer. *)
Owing == IF front /\ stage = "asked" THEN owed \cup {<<screen, query>>} ELSE owed

(* Another screen is shown on top of the present one, or the tab is left. *)
Show(s)   == Appear(s, alert) /\ owed' = Owing /\ UNCHANGED <<board, session, stray>>
ShowFrom(s) == front /\ screen = s

Forgotten == owed' = {} /\ stray' = [sg \in Followers \X Games |-> "none"]

(* A trap ends the app. *)
Trap ==
  /\ Session!End
  /\ Away /\ screen' = "container"
  /\ Forgotten
  /\ UNCHANGED board

-----------------------------------------------------------------------------
(* The user *)

OpenTab ==
  /\ inside /\ ~front
  /\ udTeam # NotStored
  /\ Show(screen)

(* PlayViewController unwraps the stored team. *)
OpenTabTraps ==
  /\ inside /\ ~front
  /\ udTeam = NotStored
  /\ Trap

LeaveTab ==
  /\ front /\ alert = "none" /\ MayLeave
  /\ Away /\ owed' = Owing
  /\ UNCHANGED <<board, session, screen, stray>>

(* The icon of the tab shown is tapped: its stack is popped to the        *)
(* container, which appears as in OpenTab.                                 *)
TapIcon ==
  /\ front /\ alert = "none" /\ screen # "container" /\ MayLeave
  /\ Away /\ screen' = "container" /\ owed' = Owing
  /\ UNCHANGED <<board, session, stray>>

OpenCreate == ShowFrom("nogame") /\ alert = "none" /\ Show("create")

(* onSaveCreateGameClick: the listener is removed first, then the game is  *)
(* posted, then the container is shown.                                    *)
SaveGame(g) ==
  /\ ShowFrom("create") /\ alert = "none"
  /\ Board!Post(g, udTeam)
  /\ Appear("container", "none")
  /\ UNCHANGED <<session, strays>>

DismissAlert ==
  /\ front /\ alert # "none"
  /\ Appear(IF alert = "noteam" THEN "team" ELSE "container", "none")
  /\ owed' = Owing
  /\ UNCHANGED <<board, session, stray>>

-----------------------------------------------------------------------------
(* The container *)

(* Mutant of HearListings: a listing already answered is looked for last. *)
HearListingsLast ==
  /\ ShowFrom("container")
  /\ \/ /\ stage = "listing" /\ Answer("active", query) # {}
        /\ Show("live")
     \/ /\ stage = "listing" /\ Answer("active", query) = {}
        /\ stage' = "active" /\ queryLive' = udTeam
        /\ UNCHANGED <<board, session, front, screen, alert, query, game, strays, open>>
     \/ /\ stage = "active" /\ Answer("listing", queryLive) # {}
        /\ Show("listing")
     \/ /\ stage = "active" /\ Answer("listing", queryLive) = {}
        /\ Show("nogame")

(* The first listener: a listing is shown; without one the second listener *)
(* is attached, and the first stays.                                       *)
HearListings ==
  /\ ShowFrom("container")
  /\ \/ /\ Answer("listing", query) # {}
        /\ Show("listing")
     \/ /\ stage = "listing" /\ Answer("listing", query) = {}
        /\ stage' = "active" /\ queryLive' = udTeam
        /\ UNCHANGED <<board, session, front, screen, alert, query, game, strays, open>>

(* Mutant of HearActive: no game is taken for granted. *)
HearActiveNone ==
  /\ ShowFrom("container") /\ stage = "active"
  /\ Show("nogame")

HearActive ==
  /\ ShowFrom("container") /\ stage = "active"
  /\ Show(IF Answer("active", queryLive) = {} THEN "nogame" ELSE "live")

(* Mutant of HearPosted: CreateGame does not listen. *)
HearPostedNoGame ==
  /\ ShowFrom("nogame") /\ alert = "none"
  /\ Answer("listing", query) # {}
  /\ alert' = "posted"
  /\ UNCHANGED <<board, session, front, screen, stage, query, queryLive, game, strays, open>>

(* NoGame and CreateGame listen to the listings of the team only. *)
HearPosted ==
  /\ front /\ screen \in {"nogame", "create"} /\ alert = "none"
  /\ Answer("listing", query) # {}
  /\ alert' = "posted"
  /\ UNCHANGED <<board, session, front, screen, stage, query, queryLive, game, strays, open>>

-----------------------------------------------------------------------------
(* Listing: the first listing of the answer, followed by its id; an empty  *)
(* answer and an empty id trap.                                            *)
FindListing ==
  /\ ShowFrom("listing") /\ stage = "asked"
  /\ \E g \in Answer("listing", query) \cap named : game' = g
  /\ stage' = "following"
  /\ UNCHANGED <<board, session, front, screen, alert, query, queryLive, strays, open>>

FindListingTraps ==
  /\ ShowFrom("listing") /\ stage = "asked"
  /\ Answer("listing", query) = {} \/ ~(Answer("listing", query) \subseteq named)
  /\ Trap

(* What a screen hears of its game that leads it to a new container. *)
Leads(s, g) == IF s = "listing" THEN status[g] \in {"active", "deleted"}
                                ELSE status[g] # "active"

(* Mutant of HearListing: only a withdrawal is looked for. *)
HearListingDeleted ==
  /\ ShowFrom("listing") /\ stage = "following"
  /\ status[game] = "deleted"
  /\ Show("container")

HearListing ==
  /\ ShowFrom("listing") /\ stage = "following"
  /\ Leads("listing", game)
  /\ Show("container")

(* LiveGame: the first active game, if there still is one. *)
FindActive ==
  /\ ShowFrom("live") /\ stage = "asked"
  /\ \/ \E g \in Answer("active", query) : game' = g /\ stage' = "following"
     \/ Answer("active", query) = {} /\ stage' = "nothing" /\ UNCHANGED game
  /\ UNCHANGED <<board, session, front, screen, alert, query, queryLive, strays, open>>

HearLive ==
  /\ ShowFrom("live") /\ stage = "following"
  /\ Leads("live", game)
  /\ Show("container")

(* The answer comes after the screen has gone: a listener nobody removes,  *)
(* told of the game at once and of its every change.                       *)
Attach(s, g) == stray' = [stray EXCEPT ![<<s, g>>] = "untold"]

FindActiveLate(t) ==
  /\ <<"live", t>> \in owed
  /\ owed' = owed \ {<<"live", t>>}
  /\ \/ \E g \in Answer("active", t) : Attach("live", g)
     \/ Answer("active", t) = {} /\ UNCHANGED stray
  /\ UNCHANGED <<board, session, tab, open>>

FindListingLate(t) ==
  /\ <<"listing", t>> \in owed
  /\ owed' = owed \ {<<"listing", t>>}
  /\ \E g \in Answer("listing", t) \cap named : Attach("listing", g)
  /\ UNCHANGED <<board, session, tab, open>>

FindListingLateTraps(t) ==
  /\ <<"listing", t>> \in owed
  /\ Answer("listing", t) = {} \/ ~(Answer("listing", t) \subseteq named)
  /\ Trap

(* It shows a container once more, on top of whatever the tab shows. *)
HearStray(s, g) ==
  /\ stray[<<s, g>>] = "untold"
  /\ stray' = [stray EXCEPT ![<<s, g>>] = "told"]
  /\ IF ~Leads(s, g) THEN UNCHANGED <<tab, owed, open>>
     ELSE IF front THEN Appear("container", alert) /\ owed' = Owing
     ELSE screen' = "container"
          /\ UNCHANGED <<front, alert, stage, query, queryLive, game, owed, open>>
  /\ UNCHANGED <<board, session>>

-----------------------------------------------------------------------------
(* Elsewhere *)

Content(g) == <<status[g], home[g], guest[g], g \in named, winner[g]>>

BoardMoves ==
  /\ Board!Next
  /\ UNCHANGED <<session, tab, owed>>
  /\ open' = open \cap OpenTo(udTeam)'
  /\ stray' = [sg \in Followers \X Games |->
       IF stray[sg] = "told" /\ Content(sg[2])' # Content(sg[2]) THEN "untold" ELSE stray[sg]]

(* A team stored while any tab is shown, or none. *)
SessionMoves ==
  /\ Session!Store
  /\ open' = IF udTeam' = udTeam THEN open ELSE {}
  /\ UNCHANGED <<board, tab, strays>>

(* Mutant of SessionScreens: the Play tab is not left first. *)
SessionScreensOver ==
  /\ Session!Leave \/ (~inside /\ Session!Enter)
  /\ screen' = "container" /\ Forgotten
  /\ UNCHANGED <<board, front, alert, stage, query, queryLive, game, open>>

(* A user leaves from the Profile tab, or comes in.  The tabs of the next  *)
(* session are new: what those of the last left behind leads nobody on,    *)
(* and its traps are kills.                                                *)
SessionScreens ==
  /\ ~front
  /\ Session!Leave \/ (~inside /\ Session!Enter)
  /\ screen' = "container" /\ Forgotten
  /\ UNCHANGED <<board, front, alert, stage, query, queryLive, game, open>>

Killed == Trap

-----------------------------------------------------------------------------
User == OpenTab \/ OpenTabTraps \/ LeaveTab \/ TapIcon \/ OpenCreate \/ DismissAlert
        \/ \E g \in Games : SaveGame(g)

Heard == HearListings \/ HearActive \/ HearPosted \/ FindListing \/ FindListingTraps
         \/ HearListing \/ FindActive \/ HearLive

Strays == \/ \E t \in TeamIDs : FindActiveLate(t) \/ FindListingLate(t) \/ FindListingLateTraps(t)
          \/ \E s \in Followers, g \in Games : HearStray(s, g)

Next == User \/ Heard \/ Strays \/ BoardMoves \/ SessionMoves \/ SessionScreens \/ Killed

Spec == Init /\ [][Next]_vars

(* The main queue runs what it is given, and an alert leaves its user      *)
(* nothing but its one button.  A listener left behind may push a container *)
(* before a screen has its answer, but not before every answer: games do   *)
(* not change for ever.                                                    *)
Fairness ==
  /\ WF_vars(Heard \/ DismissAlert)
  /\ SF_vars(HearActive) /\ SF_vars(FindActive) /\ SF_vars(FindListing \/ FindListingTraps)

FairSpec == Spec /\ Fairness
-----------------------------------------------------------------------------
(* Properties *)

(* Screens, queries, late answers and listeners left behind are well       *)
(* formed, over a board and a session that are.                            *)
TypeOK ==
  /\ status \in [Games -> {"absent", "listing", "active", "completed", "deleted"}]
  /\ home \in [Games -> TeamIDs] /\ guest \in [Games -> TeamIDs]
  /\ named \subseteq Games
  /\ inside \in BOOLEAN /\ udTeam \in OwnTeams \cup {NoTeam, NotStored}
  /\ front \in BOOLEAN /\ (front => inside) /\ screen \in Screens /\ alert \in Alerts /\ stage \in Stages
  /\ query \in TeamIDs /\ queryLive \in TeamIDs
  /\ game \in Games \cup {NoGame}
  /\ owed \subseteq Followers \X TeamIDs
  /\ stray \in [Followers \X Games -> {"none", "untold", "told"}]
  /\ open \subseteq Games

(* The two listeners are told at different moments, and a game goes from   *)
(* one query to the other between them: the container still never leads to *)
(* NoGame over a game that was open to the stored team all along.          *)
NoGameMeansNone ==
  [][screen = "container" /\ screen' = "nogame" => open = {}]_vars

(* The screen shows what its team is waiting for or playing. *)
Settled == /\ front /\ stage = "following"
           /\ screen = "live" \/ (screen = "listing" /\ status[game] = "listing")

(* Nothing leads on from a listing whose game was over before the screen   *)
(* heard of its start.                                                     *)
Missed == /\ alert = "none" /\ screen = "listing" /\ stage = "following"
          /\ status[game] = "completed"

(* Nor from LiveGame once its query has found no game. *)
Idle == alert = "none" /\ screen = "live" /\ stage = "nothing"

(* The way to game g, with status s to team t, is at its end. *)
Over(s, g, t) == Settled \/ Missed \/ ~front \/ udTeam # t \/ status[g] # s \/ ~Plays(g, t)

Asks(t) == alert = "none" /\ query = t /\ (stage = "active" => queryLive = t)

(* From wherever the team's next step is looked for, an active game leads  *)
(* to LiveGame: over two listeners told apart, a listing that starts while *)
(* it is read (which traps) and screens pushed by listeners left behind.   *)
LedToLive ==
  \A g \in Games, t \in OwnTeams :
    (/\ front /\ screen \in {"container", "listing"} /\ Asks(t)
     /\ status[g] = "active" /\ Plays(g, t) /\ udTeam = t)
      ~> Over("active", g, t)

(* A listing leads there too, from NoGame and CreateGame as well, which    *)
(* announce it and lead to the container.                                  *)
LedToListing ==
  \A g \in Games, t \in OwnTeams :
    (/\ front /\ screen \in {"container", "nogame", "create"} /\ Asks(t)
     /\ status[g] = "listing" /\ Plays(g, t) /\ udTeam = t)
      ~> (Over("listing", g, t) \/ Idle)
=============================================================================
