----------------------------- MODULE PlayTabProofs -----------------------------
(***************************************************************************)
(* Theorems about PlayTab.tla, for any games, teams and listeners left     *)
(* behind: types; that the tab never says there is no game over one that   *)
(* was open to the stored team all along; that it stays on the way to a    *)
(* game of that team, with something still to be told.                     *)
(***************************************************************************)
EXTENDS PlayTab, TLAPS

-----------------------------------------------------------------------------
(* The invariant *)

OwnIDs == OwnTeams \cup {NoTeam}

(* The tab is only shown over a stored team, and only screens that follow a *)
(* game wait for an answer.                                                 *)
Shown == /\ front => udTeam \in OwnIDs
         /\ front /\ stage = "asked" => screen \in Followers

(* A game open all along is one both listeners of the container would hear  *)
(* of.  Once the first has found nothing the game can only be active: what  *)
(* has started is never offered again.                                      *)
Routed == \A g \in open :
  /\ front /\ screen = "container" /\ stage \in {"listing", "active"}
  /\ udTeam \in Teams /\ query = udTeam /\ Plays(g, udTeam)
  /\ status[g] \in {"listing", "active"}
  /\ stage = "active" => status[g] = "active" /\ queryLive = udTeam

Inv == TypeOK /\ Shown /\ Routed

-----------------------------------------------------------------------------
(* The parts of the state *)

BoardTypes ==
  /\ status \in [Games -> {"absent", "listing", "active", "completed", "deleted"}]
  /\ home \in [Games -> TeamIDs] /\ guest \in [Games -> TeamIDs]
  /\ named \subseteq Games

TabTypes ==
  /\ front \in BOOLEAN /\ screen \in Screens /\ alert \in Alerts /\ stage \in Stages
  /\ query \in TeamIDs /\ queryLive \in TeamIDs /\ game \in Games \cup {NoGame}
  /\ open \subseteq Games

StrayTypes ==
  /\ owed \subseteq Followers \X TeamIDs
  /\ stray \in [Followers \X Games -> {"none", "untold", "told"}]

SessionTypes == inside \in BOOLEAN /\ udTeam \in OwnTeams \cup {NoTeam, NotStored}

LEMMA Parts ==
  TypeOK <=> BoardTypes /\ TabTypes /\ StrayTypes /\ SessionTypes /\ (front => inside)
BY DEF TypeOK, BoardTypes, TabTypes, StrayTypes, SessionTypes

LEMMA PartsNext ==
  ASSUME BoardTypes', TabTypes', StrayTypes', SessionTypes', front' => inside'
  PROVE  TypeOK'
BY DEF TypeOK, BoardTypes, TabTypes, StrayTypes, SessionTypes

(* What has started is never a listing again, and only an absent game is    *)
(* posted.                                                                  *)
LEMMA BoardSteps ==
  ASSUME BoardTypes, Board!Next
  PROVE  BoardTypes' /\ \A g \in Games : status[g] = "active" => status'[g] # "listing"
<1>1. PICK g \in Games : \/ \E t \in TeamIDs : Board!Post(g, t)
                         \/ Board!Name(g)
                         \/ \E t \in Teams : Board!Seat(g, t)
                         \/ Board!Start(g)
                         \/ Board!Withdraw(g)
                         \/ \E side \in {"home", "guest"} : Board!Record(g, side)
  BY DEF Board!Next, Board!TeamIDs, TeamIDs
<1>2. CASE \E t \in TeamIDs : Board!Post(g, t)
  BY <1>2 DEF Board!Post, BoardTypes
<1>3. CASE Board!Name(g)
  BY <1>3 DEF Board!Name, BoardTypes
<1>4. CASE \E t \in Teams : Board!Seat(g, t)
  BY <1>4 DEF Board!Seat, BoardTypes, TeamIDs
<1>5. CASE Board!Start(g)
  BY <1>5 DEF Board!Start, BoardTypes
<1>6. CASE Board!Withdraw(g)
  BY <1>6 DEF Board!Withdraw, BoardTypes
<1>7. CASE \E side \in {"home", "guest"} : Board!Record(g, side)
  BY <1>7 DEF Board!Record, BoardTypes
<1> QED
  BY <1>1, <1>2, <1>3, <1>4, <1>5, <1>6, <1>7

(* What is owed to a screen that goes is owed to one that follows a game.   *)
LEMMA OwingTypes ==
  ASSUME TypeOK, Shown
  PROVE  Owing \in SUBSET (Followers \X TeamIDs)
BY DEF TypeOK, Shown, Owing

LEMMA ForgottenTypes ==
  ASSUME Forgotten
  PROVE  StrayTypes'
BY DEF Forgotten, StrayTypes

-----------------------------------------------------------------------------
(* Steps of one kind *)

(* A screen appears, while no game open to the stored team changes.         *)
LEMMA Appears ==
  ASSUME Inv, NEW s \in Screens, NEW a \in Alerts, Appear(s, a), udTeam \in OwnIDs,
         UNCHANGED session, inside, BoardTypes', StrayTypes',
         \A g \in OpenTo(udTeam) : status'[g] = status[g] /\ home'[g] = home[g]
                                                         /\ guest'[g] = guest[g]
  PROVE  Inv'
<1>1. OwnIDs \subseteq TeamIDs /\ OpenTo(udTeam) \in SUBSET Games
  BY PlayAssumption DEF OwnIDs, TeamIDs, OpenTo, Answer
<1>2. TabTypes' /\ SessionTypes' /\ (front => inside)'
  <2>1. open' \in SUBSET Games
    BY <1>1 DEF Appear
  <2>2. alert' \in Alerts
    BY DEF Appear, Alerts
  <2>3. front' \in BOOLEAN /\ screen' \in Screens /\ stage' \in Stages
    BY DEF Appear, Stages
  <2>4. query' \in TeamIDs /\ queryLive' \in TeamIDs /\ game' \in Games \cup {NoGame}
    BY <1>1 DEF Appear, TeamIDs
  <2>5. SessionTypes' /\ inside'
    BY DEF Inv, TypeOK, SessionTypes, session
  <2> QED
    BY <2>1, <2>2, <2>3, <2>4, <2>5 DEF TabTypes
<1>3. Shown'
  BY DEF Appear, Shown, session
<1>4. Routed'
  <2>1. SUFFICES ASSUME NEW g \in open'
                 PROVE  /\ front' /\ screen' = "container" /\ stage' = "listing"
                        /\ udTeam' \in Teams /\ query' = udTeam'
                        /\ udTeam' \in {home'[g], guest'[g]}
                        /\ status'[g] \in {"listing", "active"}
    BY DEF Routed, Plays
  <2>2. s = "container" /\ g \in OpenTo(udTeam)
    BY DEF Appear
  <2>3. udTeam \in Teams /\ status[g] \in {"listing", "active"} /\ udTeam \in {home[g], guest[g]}
    BY <2>2 DEF OpenTo, Answer, Plays
  <2> QED
    BY <2>2, <2>3 DEF Appear, Followers, session
<1> QED
  BY <1>2, <1>3, <1>4, PartsNext DEF Inv

LEMMA Shows ==
  ASSUME Inv, NEW s \in Screens, NEW a \in Alerts, Appear(s, a), udTeam \in OwnIDs,
         UNCHANGED <<board, session>>, inside, StrayTypes'
  PROVE  Inv'
<1>1. BoardTypes'
  BY DEF Inv, TypeOK, BoardTypes, board
<1>2. \A g \in OpenTo(udTeam) : status'[g] = status[g] /\ home'[g] = home[g]
                                                       /\ guest'[g] = guest[g]
  BY DEF board
<1> QED
  BY <1>1, <1>2, Appears

(* The same from a screen that is shown, which may be owed an answer.       *)
LEMMA ShowsNext ==
  ASSUME Inv, front, NEW s \in Screens, NEW a \in Alerts, Appear(s, a), owed' = Owing,
         UNCHANGED <<board, session>>, stray' \in [Followers \X Games -> {"none", "untold", "told"}]
  PROVE  Inv'
<1>1. udTeam \in OwnIDs /\ inside
  BY DEF Inv, Shown, TypeOK
<1>2. StrayTypes'
  BY OwingTypes DEF Inv, StrayTypes
<1> QED
  BY <1>1, <1>2, Shows

(* The tab is left, by its user or with the app.                            *)
LEMMA Leaves ==
  ASSUME Inv, Away, screen' \in Screens, UNCHANGED board, StrayTypes', SessionTypes'
  PROVE  Inv'
<1>1. BoardTypes'
  BY DEF Inv, TypeOK, BoardTypes, board
<1>2. TabTypes' /\ ~front' /\ open' = {}
  BY DEF Away, TabTypes, Alerts, Stages, TeamIDs
<1> QED
  BY <1>1, <1>2, PartsNext DEF Inv, Shown, Routed

LEMMA Traps ==
  ASSUME Inv, Trap
  PROVE  Inv'
<1>1. SessionTypes'
  BY DEF Inv, TypeOK, SessionTypes, Trap, Session!End
<1>2. StrayTypes' /\ Away /\ screen' \in Screens /\ UNCHANGED board
  BY ForgottenTypes DEF Trap, Screens
<1> QED
  BY <1>1, <1>2, Leaves

(* A screen that is no container, or a listener's stage, changes alone.     *)
LEMMA Follows ==
  ASSUME Inv, screen # "container", UNCHANGED <<board, session, strays, open, front, screen>>,
         UNCHANGED <<query, queryLive>>,
         alert' \in Alerts, stage' \in Stages, game' \in Games \cup {NoGame},
         stage' = "asked" => stage = "asked"
  PROVE  Inv'
<1>1. open = {}
  BY DEF Inv, Routed
<1>2. TypeOK'
  BY DEF Inv, TypeOK, board, session, strays
<1>3. Shown'
  BY DEF Inv, Shown, session
<1> QED
  BY <1>1, <1>2, <1>3 DEF Inv, Routed

(* Only listeners left behind are changed.                                  *)
LEMMA Behind ==
  ASSUME Inv, UNCHANGED <<board, session, tab, open>>, StrayTypes'
  PROVE  Inv'
<1>1. BoardTypes' /\ TabTypes' /\ SessionTypes' /\ (front => inside)'
  BY Parts DEF Inv, BoardTypes, TabTypes, SessionTypes, board, session, tab
<1>2. Shown' /\ Routed'
  BY DEF Inv, Shown, Routed, Plays, board, session, tab
<1> QED
  BY <1>1, <1>2, PartsNext DEF Inv

-----------------------------------------------------------------------------
(* The invariant is inductive. *)

LEMMA InvInit == Init => Inv
<1> SUFFICES ASSUME Init PROVE Inv
  OBVIOUS
<1>1. BoardTypes /\ SessionTypes
  BY DEF Init, Board!Init, Session!Init, BoardTypes, SessionTypes, TeamIDs
<1>2. TabTypes /\ StrayTypes /\ ~front /\ open = {}
  BY DEF Init, TabTypes, StrayTypes, Screens, Alerts, Stages, TeamIDs
<1> QED
  BY <1>1, <1>2, Parts DEF Inv, Shown, Routed

LEMMA UserKeeps == Inv /\ User => Inv'
<1> SUFFICES ASSUME Inv, User PROVE Inv'
  OBVIOUS
<1> USE DEF Inv
<1>1. CASE OpenTab
  <2>1. /\ Appear(screen, alert) /\ UNCHANGED <<board, session>> /\ inside
        /\ owed' = Owing /\ UNCHANGED stray
    BY <1>1 DEF OpenTab, Show
  <2>2. udTeam \in OwnIDs /\ screen \in Screens /\ alert \in Alerts
    BY <1>1 DEF OpenTab, TypeOK, OwnIDs
  <2>3. StrayTypes'
    BY <2>1, OwingTypes DEF TypeOK, StrayTypes
  <2> QED
    BY <2>1, <2>2, <2>3, Shows
<1>2. CASE OpenTabTraps
  BY <1>2, Traps DEF OpenTabTraps
<1>3. CASE LeaveTab \/ TapIcon
  <2>1. Away /\ owed' = Owing /\ UNCHANGED <<board, session, stray>> /\ screen' \in Screens
    BY <1>3 DEF LeaveTab, TapIcon, TypeOK, Screens
  <2>2. StrayTypes' /\ SessionTypes'
    BY <2>1, OwingTypes DEF TypeOK, StrayTypes, SessionTypes, session
  <2> QED
    BY <2>1, <2>2, Leaves
<1>4. CASE OpenCreate
  <2>1. Appear("create", alert) /\ front /\ owed' = Owing /\ UNCHANGED <<board, session, stray>>
    BY <1>4 DEF OpenCreate, Show, ShowFrom
  <2>2. alert \in Alerts /\ stray' \in [Followers \X Games -> {"none", "untold", "told"}]
    BY <2>1 DEF TypeOK
  <2> QED
    BY <2>1, <2>2, ShowsNext DEF Screens
<1>5. CASE DismissAlert
  <2>1. PICK s : s = IF alert = "noteam" THEN "team" ELSE "container"
    OBVIOUS
  <2>2. Appear(s, "none") /\ front /\ owed' = Owing /\ UNCHANGED <<board, session, stray>>
    BY <1>5, <2>1 DEF DismissAlert
  <2>3. s \in Screens /\ stray' \in [Followers \X Games -> {"none", "untold", "told"}]
    BY <2>1, <2>2 DEF TypeOK, Screens
  <2> QED
    BY <2>2, <2>3, ShowsNext DEF Alerts
<1>6. ASSUME NEW g \in Games, SaveGame(g) PROVE Inv'
  <2>0. front
    BY <1>6 DEF SaveGame, ShowFrom
  <2>1. Board!Post(g, udTeam) /\ UNCHANGED <<session, strays>>
    BY <1>6 DEF SaveGame
  <2>6. Appear("container", "none")
    BY <1>6 DEF SaveGame
  <2>2. udTeam \in OwnIDs /\ inside /\ OwnIDs \subseteq TeamIDs
    BY <2>0, PlayAssumption DEF Shown, TypeOK, OwnIDs, TeamIDs
  <2>3. BoardTypes'
    BY <2>1, <2>2 DEF Board!Post, TypeOK, BoardTypes
  <2>4. ASSUME NEW h \in OpenTo(udTeam)
        PROVE  status'[h] = status[h] /\ home'[h] = home[h] /\ guest'[h] = guest[h]
    <3>1. h \in Games /\ status[h] # "absent"
      BY DEF OpenTo, Answer
    <3> QED
      BY <2>1, <3>1 DEF Board!Post, TypeOK
  <2>5. StrayTypes'
    BY <2>1 DEF TypeOK, StrayTypes, strays
  <2> QED
    BY <2>1, <2>2, <2>3, <2>4, <2>5, <2>6, Appears DEF Screens, Alerts, strays
<1> QED
  BY <1>1, <1>2, <1>3, <1>4, <1>5, <1>6 DEF User

(* A screen that is shown leads on to another.                              *)
LEMMA LeadsOn ==
  ASSUME Inv, front, NEW s \in Screens, Show(s)
  PROVE  Inv'
<1>1. Appear(s, alert) /\ owed' = Owing /\ UNCHANGED <<board, session, stray>>
  BY DEF Show
<1>2. alert \in Alerts /\ stray' \in [Followers \X Games -> {"none", "untold", "told"}]
  BY <1>1 DEF Inv, TypeOK
<1> QED
  BY <1>1, <1>2, ShowsNext

LEMMA HeardKeeps == Inv /\ Heard => Inv'
<1> SUFFICES ASSUME Inv, Heard PROVE Inv'
  OBVIOUS
<1> USE DEF Inv
<1>1. CASE HearListings
  <2>1. CASE Show("listing")
    BY <1>1, <2>1, LeadsOn DEF HearListings, ShowFrom, Screens
  <2>2. CASE ~Show("listing")
    <3>1. /\ front /\ screen = "container" /\ stage = "listing" /\ Answer("listing", query) = {}
          /\ stage' = "active" /\ queryLive' = udTeam
          /\ UNCHANGED <<board, session, front, screen, alert, query, game, strays, open>>
      BY <1>1, <2>2 DEF HearListings, ShowFrom
    <3>2. udTeam \in TeamIDs
      BY <3>1, PlayAssumption DEF Shown, OwnIDs, TeamIDs
    <3>3. BoardTypes' /\ TabTypes' /\ StrayTypes' /\ SessionTypes' /\ (front => inside)'
      BY <3>1, <3>2, Parts
         DEF BoardTypes, TabTypes, StrayTypes, SessionTypes, board, session, strays, Stages
    <3>4. Shown'
      BY <3>1 DEF Shown, session
    <3>5. \A g \in open : status[g] = "active"
      BY <3>1 DEF Routed, Answer, TypeOK
    <3>6. Routed'
      BY <3>1, <3>5 DEF Routed, Plays, board, session
    <3> QED
      BY <3>3, <3>4, <3>6, PartsNext
  <2> QED
    BY <2>1, <2>2
<1>2. CASE HearActive
  BY <1>2, LeadsOn DEF HearActive, ShowFrom, Screens
<1>3. CASE HearPosted
  BY <1>3, Follows DEF HearPosted, Alerts, TypeOK
<1>4. CASE FindListing
  <2>1. game' \in Games
    BY <1>4 DEF FindListing, Answer
  <2> QED
    BY <1>4, <2>1, Follows DEF FindListing, ShowFrom, Stages, TypeOK
<1>5. CASE FindListingTraps
  BY <1>5, Traps DEF FindListingTraps
<1>6. CASE HearListing \/ HearLive
  BY <1>6, LeadsOn DEF HearListing, HearLive, ShowFrom, Screens
<1>7. CASE FindActive
  <2>1. game' \in Games \cup {NoGame} /\ stage' \in {"following", "nothing"}
    BY <1>7 DEF FindActive, Answer, TypeOK
  <2> QED
    BY <1>7, <2>1, Follows DEF FindActive, ShowFrom, Stages, TypeOK
<1> QED
  BY <1>1, <1>2, <1>3, <1>4, <1>5, <1>6, <1>7 DEF Heard

LEMMA StraysKeep == Inv /\ Strays => Inv'
<1> SUFFICES ASSUME Inv, Strays PROVE Inv'
  OBVIOUS
<1> USE DEF Inv
<1>1. ASSUME NEW s \in Followers, NEW g \in Games, Attach(s, g)
      PROVE  stray' \in [Followers \X Games -> {"none", "untold", "told"}]
  BY <1>1 DEF Attach, TypeOK
<1>2. ASSUME NEW t \in TeamIDs, FindActiveLate(t) \/ FindListingLate(t) PROVE Inv'
  <2>1. StrayTypes'
    <3>1. owed' \in SUBSET (Followers \X TeamIDs)
      BY <1>2 DEF FindActiveLate, FindListingLate, TypeOK
    <3>2. stray' = stray \/ \E s \in Followers, g \in Games : Attach(s, g)
      BY <1>2 DEF FindActiveLate, FindListingLate, Followers, Answer
    <3> QED
      BY <1>1, <3>1, <3>2 DEF TypeOK, StrayTypes
  <2> QED
    BY <1>2, <2>1, Behind DEF FindActiveLate, FindListingLate
<1>3. ASSUME NEW t \in TeamIDs, FindListingLateTraps(t) PROVE Inv'
  BY <1>3, Traps DEF FindListingLateTraps
<1>4. ASSUME NEW s \in Followers, NEW g \in Games, HearStray(s, g) PROVE Inv'
  <2>1. /\ stray' \in [Followers \X Games -> {"none", "untold", "told"}]
        /\ UNCHANGED <<board, session>>
    BY <1>4 DEF HearStray, TypeOK
  <2>2. CASE ~Leads(s, g)
    <3>1. StrayTypes' /\ UNCHANGED <<tab, open>>
      BY <1>4, <2>1, <2>2 DEF HearStray, TypeOK, StrayTypes
    <3> QED
      BY <2>1, <3>1, Behind
  <2>3. CASE Leads(s, g) /\ front
    <3>1. Appear("container", alert) /\ owed' = Owing /\ alert \in Alerts
      BY <1>4, <2>3 DEF HearStray, TypeOK
    <3> QED
      BY <2>1, <2>3, <3>1, ShowsNext DEF Screens
  <2>4. CASE Leads(s, g) /\ ~front
    <3>1. /\ screen' = "container"
          /\ UNCHANGED <<front, alert, stage, query, queryLive, game, owed, open>>
      BY <1>4, <2>4 DEF HearStray
    <3>2. open = {}
      BY <2>4 DEF Routed
    <3>3. TypeOK'
      BY <2>1, <3>1 DEF TypeOK, board, session, Screens
    <3> QED
      BY <2>1, <2>4, <3>1, <3>2, <3>3 DEF Shown, Routed
  <2> QED
    BY <2>2, <2>3, <2>4
<1> QED
  BY <1>2, <1>3, <1>4 DEF Strays

(* The board moves: a game that stays open stays in one of the queries, and *)
(* one that had started is still active.                                    *)
LEMMA BoardKeeps == Inv /\ BoardMoves => Inv'
<1> SUFFICES ASSUME Inv, BoardMoves PROVE Inv'
  OBVIOUS
<1> USE DEF Inv
<1>1. Board!Next /\ UNCHANGED <<session, tab, owed>>
  BY DEF BoardMoves
<1>2. BoardTypes' /\ \A g \in Games : status[g] = "active" => status'[g] # "listing"
  BY <1>1, BoardSteps, Parts
<1>3. StrayTypes'
  <2>1. stray' \in [Followers \X Games -> {"none", "untold", "told"}]
    BY DEF BoardMoves, TypeOK
  <2> QED
    BY <1>1, <2>1 DEF TypeOK, StrayTypes
<1>4. ASSUME NEW g \in open'
      PROVE  /\ g \in open /\ g \in Games
             /\ status'[g] \in {"listing", "active"} /\ udTeam \in {home'[g], guest'[g]}
  <2>1. g \in open /\ g \in OpenTo(udTeam)'
    BY DEF BoardMoves
  <2> QED
    BY <1>1, <2>1 DEF OpenTo, Answer, Plays, session, TypeOK
<1>5. TabTypes' /\ SessionTypes' /\ (front => inside)' /\ Shown'
  BY <1>1, <1>4 DEF TypeOK, TabTypes, SessionTypes, Shown, session, tab
<1>6. Routed'
  <2>1. SUFFICES ASSUME NEW g \in open'
                 PROVE  /\ front /\ screen = "container" /\ stage \in {"listing", "active"}
                        /\ udTeam \in Teams /\ query = udTeam
                        /\ udTeam \in {home'[g], guest'[g]}
                        /\ status'[g] \in {"listing", "active"}
                        /\ stage = "active" => status'[g] = "active" /\ queryLive = udTeam
    BY <1>1 DEF Routed, Plays, session, tab
  <2> QED
    BY <1>2, <1>4 DEF Routed
<1> QED
  BY <1>2, <1>3, <1>5, <1>6, PartsNext

LEMMA InvNext == Inv /\ [Next]_vars => Inv'
<1> SUFFICES ASSUME Inv, [Next]_vars PROVE Inv'
  OBVIOUS
<1>1. CASE SessionMoves
  <2>1. /\ udTeam' \in OwnIDs /\ UNCHANGED <<inside, board, tab, strays>>
        /\ open' = IF udTeam' = udTeam THEN open ELSE {}
    BY <1>1 DEF SessionMoves, Session!Store, Session!TeamIDs, OwnIDs
  <2>2. TypeOK' /\ Shown'
    BY <2>1 DEF Inv, TypeOK, Shown, board, tab, strays, OwnIDs
  <2>3. CASE udTeam' = udTeam
    BY <2>1, <2>2, <2>3 DEF Inv, Routed, Plays, board, tab
  <2>4. CASE udTeam' # udTeam
    BY <2>1, <2>2, <2>4 DEF Inv, Routed
  <2> QED
    BY <2>3, <2>4
<1>2. CASE SessionScreens
  <2>1. /\ ~front /\ screen' = "container" /\ Forgotten
        /\ UNCHANGED <<board, front, alert, stage, query, queryLive, game, open>>
        /\ udTeam' \in {udTeam, NoTeam} /\ inside' \in BOOLEAN
    BY <1>2 DEF SessionScreens, Session!Leave, Session!Enter
  <2>2. open = {}
    BY <2>1 DEF Inv, Routed
  <2>3. StrayTypes'
    BY <2>1, ForgottenTypes
  <2>4. BoardTypes' /\ TabTypes' /\ SessionTypes' /\ (front => inside)'
    BY <2>1 DEF Inv, TypeOK, BoardTypes, TabTypes, SessionTypes, board, Screens
  <2> QED
    BY <2>1, <2>2, <2>3, <2>4, PartsNext DEF Inv, Shown, Routed
<1>3. CASE UNCHANGED vars
  <2>1. UNCHANGED <<board, session, tab, open>> /\ StrayTypes'
    BY <1>3 DEF vars, strays, StrayTypes, Inv, TypeOK
  <2> QED
    BY <2>1, Behind
<1> QED
  BY <1>1, <1>2, <1>3, UserKeeps, HeardKeeps, StraysKeep, BoardKeeps, Traps DEF Next, Killed

LEMMA Invariance == Spec => []Inv
BY InvInit, InvNext, PTL DEF Spec

(* Whatever screens, alerts, late answers and listeners left behind do to   *)
(* the tab, its state keeps its types: the team queried is a team's id, and *)
(* only Listing and LiveGame screens are owed an answer.                    *)
THEOREM TypeCorrect == Spec => []TypeOK
<1>1. Inv => TypeOK
  BY DEF Inv
<1> QED
  BY <1>1, Invariance, PTL

(* rerouteActiveView asks twice, and games and the stored team change in    *)
(* between: NoGame is only shown when no game was open all along.           *)
THEOREM NoneOnlyWhenNone == Spec => NoGameMeansNone
<1> DEFINE Right == screen = "container" /\ screen' = "nogame" => open = {}
<1>1. ASSUME Inv, [Next]_vars, screen = "container", screen' = "nogame" PROVE open = {}
  <2>1. ASSUME NEW s, NEW a, Appear(s, a) PROVE s = "nogame"
    BY <1>1, <2>1 DEF Appear
  <2>2. ~Trap
    BY <1>1 DEF Trap
  <2>3. ~User
    <3>1. ~OpenTab /\ ~OpenTabTraps /\ ~LeaveTab /\ ~TapIcon /\ ~OpenCreate
      BY <1>1, <2>2 DEF OpenTab, OpenTabTraps, LeaveTab, TapIcon, OpenCreate, Show, ShowFrom, Appear
    <3>2. ~DismissAlert /\ \A g \in Games : ~SaveGame(g)
      BY <1>1 DEF DismissAlert, SaveGame, ShowFrom, Appear
    <3> QED
      BY <3>1, <3>2 DEF User
  <2>4. ~Strays
    BY <1>1, <2>2 DEF Strays, FindActiveLate, FindListingLate, FindListingLateTraps, HearStray,
                      tab, Appear
  <2>5. ~BoardMoves /\ ~SessionMoves /\ ~SessionScreens /\ ~Killed /\ ~UNCHANGED vars
    BY <1>1, <2>2 DEF BoardMoves, SessionMoves, SessionScreens, Killed, tab, vars
  <2>6. Heard
    BY <1>1, <2>3, <2>4, <2>5 DEF Next
  <2>7. HearActive
    BY <1>1, <2>2, <2>6 DEF Heard, HearListings, HearPosted, FindListing, FindListingTraps,
                            HearListing, FindActive, HearLive, ShowFrom, Show, Appear
  <2>8. stage = "active" /\ Answer("active", queryLive) = {}
    BY <1>1, <2>7 DEF HearActive, Show, Appear
  <2> QED
    BY <1>1, <2>8 DEF Inv, Routed, TypeOK, Answer
<1>2. Inv /\ [Next]_vars => [Right]_vars
  BY <1>1
<1> QED
  BY <1>2, Invariance, PTL DEF Spec, NoGameMeansNone

-----------------------------------------------------------------------------
(* The way to a game.  What LedToLive and LedToListing rest on, besides     *)
(* fairness: no step leads away from it, and there is always something the  *)
(* screen on top has still to be told.                                      *)

(* Every screen has asked what it asks, and follows a game that was posted. *)
Fits == front =>
  /\ screen = "container" => stage \in {"listing", "active"}
  /\ screen = "listing"   => stage \in {"asked", "following"}
  /\ screen = "live"      => stage \in {"asked", "following", "nothing"}
  /\ stage = "following"  => game \in Games /\ status[game] # "absent"

(* On the way to LiveGame, for an active game g of the stored team t, and   *)
(* to a listing: there an alert may be shown, and any screen but the Team   *)
(* tab's.                                                                   *)
LiveAhead(g, t) ==
  /\ ~Over("active", g, t) /\ alert = "none" /\ query = t
  /\ \/ screen = "container" /\ (stage = "active" => queryLive = t)
     \/ screen = "listing"
     \/ screen = "live" /\ stage # "nothing"

ListingAhead(g, t) ==
  /\ ~Over("listing", g, t) /\ ~Idle
  /\ alert \in {"none", "posted"} /\ query = t /\ screen # "team"

(* Something obliges a step of those Fairness speaks of: their guards.      *)
Hears ==
  \/ alert # "none"
  \/ screen = "container" /\ stage \in {"listing", "active"}
  \/ screen \in {"nogame", "create"} /\ Answer("listing", query) # {}
  \/ screen \in Followers /\ stage = "asked"
  \/ screen = "listing" /\ stage = "following" /\ Leads("listing", game)

NeverDeaf == \A g \in Games, t \in OwnTeams :
               LiveAhead(g, t) \/ ListingAhead(g, t) => front /\ Hears

WayKept ==
  [][\A g \in Games, t \in OwnTeams :
       /\ LiveAhead(g, t) => LiveAhead(g, t)' \/ Over("active", g, t)'
       /\ ListingAhead(g, t) => ListingAhead(g, t)' \/ Over("listing", g, t)' \/ Idle']_vars

LEMMA NeverUnposted ==
  ASSUME BoardTypes, Board!Next, NEW g \in Games, status[g] # "absent"
  PROVE  status'[g] # "absent"
<1>1. PICK h \in Games : \/ \E t \in TeamIDs : Board!Post(h, t)
                         \/ Board!Name(h)
                         \/ \E t \in Teams : Board!Seat(h, t)
                         \/ Board!Start(h)
                         \/ Board!Withdraw(h)
                         \/ \E side \in {"home", "guest"} : Board!Record(h, side)
  BY DEF Board!Next, Board!TeamIDs, TeamIDs
<1>2. \/ status' = status
      \/ \E s \in {"listing", "active", "deleted", "completed"} : status' = [status EXCEPT ![h] = s]
  BY <1>1 DEF Board!Post, Board!Name, Board!Seat, Board!Start, Board!Withdraw, Board!Record
<1> QED
  BY <1>2 DEF BoardTypes

(* A screen that appears has not asked yet, and one that is gone, or in     *)
(* another tab, follows nothing.                                            *)
LEMMA AppearsFit ==
  ASSUME NEW s, NEW a, Appear(s, a)
  PROVE  Fits'
BY DEF Appear, Fits, Followers

LEMMA GoneFits ==
  ASSUME ~front'
  PROVE  Fits'
BY DEF Fits

LEMMA StillFits ==
  ASSUME Fits, UNCHANGED <<front, screen, stage, game>>, UNCHANGED status
  PROVE  Fits'
BY DEF Fits

LEMMA FitsNext == Inv /\ Fits /\ [Next]_vars => Fits'
<1> SUFFICES ASSUME Inv, Fits, [Next]_vars PROVE Fits'
  OBVIOUS
<1>1. CASE \/ OpenTab \/ OpenCreate \/ DismissAlert \/ \E g \in Games : SaveGame(g)
  <2>1. \E s, a : Appear(s, a)
    BY <1>1 DEF OpenTab, OpenCreate, DismissAlert, SaveGame, Show
  <2> QED
    BY <2>1, AppearsFit
<1>2. CASE \/ OpenTabTraps \/ LeaveTab \/ TapIcon \/ FindListingTraps \/ SessionScreens \/ Killed
           \/ \E t \in TeamIDs : FindListingLateTraps(t)
  <2>1. ~front'
    BY <1>2 DEF OpenTabTraps, LeaveTab, TapIcon, FindListingTraps, SessionScreens, Killed,
                FindListingLateTraps, Trap, Away
  <2> QED
    BY <2>1, GoneFits
<1>3. CASE Heard /\ ~FindListingTraps
  <2>1. CASE \E s, a : Appear(s, a)
    BY <2>1, AppearsFit
  <2>2. CASE ~\E s, a : Appear(s, a)
    <3>1. CASE HearListings
      <4>1. screen = "container" /\ stage' = "active" /\ UNCHANGED <<front, screen>>
        BY <2>2, <3>1 DEF HearListings, Show, ShowFrom
      <4> QED
        BY <4>1 DEF Fits
    <3>2. CASE HearPosted
      BY <3>2, StillFits DEF HearPosted, board
    <3>3. CASE FindListing
      <4>1. PICK g \in Answer("listing", query) : game' = g
        BY <3>3 DEF FindListing
      <4>2. game' \in Games /\ status[game'] # "absent"
        BY <4>1 DEF Answer
      <4>3. /\ screen = "listing" /\ stage' = "following" /\ UNCHANGED <<front, screen>>
            /\ UNCHANGED status
        BY <3>3 DEF FindListing, ShowFrom, board
      <4> QED
        BY <4>2, <4>3 DEF Fits
    <3>4. CASE FindActive
      <4>1. screen = "live" /\ UNCHANGED <<front, screen>> /\ UNCHANGED status
        BY <3>4 DEF FindActive, ShowFrom, board
      <4>2. CASE stage' = "nothing"
        BY <4>1, <4>2 DEF Fits
      <4>3. CASE stage' # "nothing"
        <5>1. stage' = "following" /\ \E g \in Answer("active", query) : game' = g
          BY <3>4, <4>3 DEF FindActive
        <5>2. game' \in Games /\ status[game'] # "absent"
          BY <5>1 DEF Answer
        <5> QED
          BY <4>1, <5>1, <5>2 DEF Fits
      <4> QED
        BY <4>2, <4>3
    <3> QED
      BY <1>3, <2>2, <3>1, <3>2, <3>3, <3>4
         DEF Heard, HearActive, HearListing, HearLive, Show
  <2> QED
    BY <2>1, <2>2
<1>4. CASE \E t \in TeamIDs : FindActiveLate(t) \/ FindListingLate(t)
  BY <1>4, StillFits DEF FindActiveLate, FindListingLate, board, tab
<1>5. ASSUME NEW s \in Followers, NEW g \in Games, HearStray(s, g) PROVE Fits'
  <2>1. \/ \E a : Appear("container", a)
        \/ ~front'
        \/ UNCHANGED tab /\ UNCHANGED board
    BY <1>5 DEF HearStray
  <2> QED
    BY <2>1, AppearsFit, GoneFits, StillFits DEF tab, board
<1>6. CASE BoardMoves
  <2>1. Board!Next /\ UNCHANGED tab /\ BoardTypes
    BY <1>6, Parts DEF BoardMoves, Inv
  <2>2. game \in Games /\ status[game] # "absent" => status'[game] # "absent"
    BY <2>1, NeverUnposted
  <2> QED
    BY <2>1, <2>2 DEF Fits, tab
<1>7. CASE SessionMoves \/ UNCHANGED vars
  BY <1>7, StillFits DEF SessionMoves, vars, tab, board
<1> QED
  BY <1>1, <1>2, <1>3, <1>4, <1>5, <1>6, <1>7 DEF Next, User, Strays, Heard

LEMMA FitsInvariance == Spec => []Fits
<1>1. Init => Fits
  BY DEF Init, Fits
<1> QED
  BY <1>1, FitsNext, Invariance, PTL DEF Spec

(* On the way to a game the screen on top has always something still to be  *)
(* told, or an alert to be dismissed.                                       *)
THEOREM TabNeverDeaf == Spec => []NeverDeaf
<1>1. ASSUME Inv, Fits PROVE NeverDeaf
  <2> SUFFICES ASSUME NEW g \in Games, NEW t \in OwnTeams, LiveAhead(g, t) \/ ListingAhead(g, t)
               PROVE  front /\ Hears
    BY DEF NeverDeaf
  <2>1. front /\ ~Settled /\ ~Missed
    BY DEF LiveAhead, ListingAhead, Over
  <2>2. CASE alert # "none"
    BY <2>1, <2>2 DEF Hears
  <2>3. CASE screen = "container"
    BY <1>1, <2>1, <2>3 DEF Fits, Hears
  <2>4. CASE screen = "listing" /\ alert = "none"
    <3>1. CASE stage = "asked"
      BY <2>1, <2>4, <3>1 DEF Hears, Followers
    <3>2. CASE stage = "following"
      <4>1. /\ game \in Games /\ status[game] # "absent" /\ status[game] # "listing"
            /\ status[game] # "completed"
        BY <1>1, <2>1, <2>4, <3>2 DEF Fits, Settled, Missed
      <4>2. status[game] \in {"active", "deleted"}
        BY <1>1, <4>1 DEF Inv, TypeOK
      <4> QED
        BY <2>1, <2>4, <3>2, <4>2 DEF Hears, Leads
    <3> QED
      BY <1>1, <2>1, <2>4, <3>1, <3>2 DEF Fits
  <2>5. CASE screen = "live" /\ alert = "none"
    <3>1. stage = "asked"
      BY <1>1, <2>1, <2>5 DEF Fits, Settled, LiveAhead, ListingAhead, Idle
    <3> QED
      BY <2>1, <2>5, <3>1 DEF Hears, Followers
  <2>6. CASE screen \in {"nogame", "create"} /\ alert = "none"
    <3>1. ListingAhead(g, t)
      BY <2>6 DEF LiveAhead
    <3>2. g \in Answer("listing", query)
      BY <3>1 DEF ListingAhead, Over, Answer
    <3> QED
      BY <2>1, <2>6, <3>2 DEF Hears
  <2>7. screen \in Screens \ {"team"}
    BY <1>1 DEF LiveAhead, ListingAhead, Inv, TypeOK, Screens
  <2> QED
    BY <2>2, <2>3, <2>4, <2>5, <2>6, <2>7 DEF Screens
<1> QED
  BY <1>1, Invariance, FitsInvariance, PTL

(* A screen that appears has asked with the stored team.                    *)
LEMMA AppearsAhead ==
  ASSUME NEW g \in Games, NEW t \in OwnTeams, NEW s, NEW a, Appear(s, a), udTeam = t
  PROVE  /\ a = "none" /\ s \in {"container", "listing", "live"} =>
              LiveAhead(g, t)' \/ Over("active", g, t)'
         /\ a \in {"none", "posted"} /\ s # "team" =>
              ListingAhead(g, t)' \/ Over("listing", g, t)' \/ Idle'
<1>1. t # NoTeam
  BY PlayAssumption
<1>2. /\ screen' = s /\ alert' = a /\ query' = t
      /\ stage' = IF s \in Followers THEN "asked" ELSE "listing"
  BY <1>1 DEF Appear
<1> QED
  BY <1>2 DEF LiveAhead, ListingAhead, Followers

(* As long as the screen is not told anything, it stays on the way.         *)
LEMMA StillAhead ==
  ASSUME NEW g \in Games, NEW t \in OwnTeams,
         UNCHANGED <<screen, alert, stage, query, queryLive>>
  PROVE  /\ LiveAhead(g, t) => LiveAhead(g, t)' \/ Over("active", g, t)'
         /\ ListingAhead(g, t) => ListingAhead(g, t)' \/ Over("listing", g, t)' \/ Idle'
BY DEF LiveAhead, ListingAhead

LEMMA GoneIsOver ==
  ASSUME NEW g \in Games, NEW t \in OwnTeams, ~front'
  PROVE  Over("active", g, t)' /\ Over("listing", g, t)'
BY DEF Over

LEMMA LiveSteps ==
  ASSUME NEW g \in Games, NEW t \in OwnTeams, LiveAhead(g, t), [Next]_vars
  PROVE  LiveAhead(g, t)' \/ Over("active", g, t)'
<1>1. /\ front /\ udTeam = t /\ alert = "none" /\ query = t
      /\ status[g] = "active" /\ Plays(g, t)
  BY DEF LiveAhead, Over
<1>2. g \in Answer("active", t)
  BY <1>1 DEF Answer
<1>3. ASSUME NEW s \in {"container", "listing", "live"}, Appear(s, "none")
      PROVE  LiveAhead(g, t)' \/ Over("active", g, t)'
  BY <1>1, <1>3, AppearsAhead
<1>4. ~OpenTab /\ ~OpenTabTraps /\ ~OpenCreate /\ ~DismissAlert /\ ~HearPosted
      /\ ~SessionScreens /\ \A h \in Games : ~SaveGame(h)
  BY <1>1 DEF OpenTab, OpenTabTraps, OpenCreate, DismissAlert, HearPosted, SessionScreens,
              SaveGame, ShowFrom, LiveAhead
<1>5. CASE \/ LeaveTab \/ TapIcon \/ FindListingTraps \/ Killed
           \/ \E u \in TeamIDs : FindListingLateTraps(u)
  <2>1. ~front'
    BY <1>5 DEF LeaveTab, TapIcon, FindListingTraps, Killed, FindListingLateTraps, Trap, Away
  <2> QED
    BY <2>1, GoneIsOver
<1>6. CASE HearListings
  <2>1. CASE Show("listing")
    BY <1>1, <1>3, <2>1 DEF Show
  <2>2. CASE ~Show("listing")
    <3>1. /\ screen' = "container" /\ queryLive' = t
          /\ UNCHANGED <<alert, query>>
      BY <1>1, <1>6, <2>2 DEF HearListings, ShowFrom
    <3> QED
      BY <1>1, <3>1 DEF LiveAhead
  <2> QED
    BY <2>1, <2>2
<1>7. CASE HearActive
  <2>1. queryLive = t
    BY <1>7 DEF HearActive, ShowFrom, LiveAhead
  <2>2. Show("live")
    BY <1>2, <1>7, <2>1 DEF HearActive
  <2> QED
    BY <1>1, <1>3, <2>2 DEF Show
<1>8. CASE HearListing \/ HearLive
  BY <1>1, <1>3, <1>8 DEF HearListing, HearLive, Show
<1>9. CASE FindListing
  <2>1. screen' = "listing" /\ UNCHANGED <<alert, query>>
    BY <1>9 DEF FindListing, ShowFrom
  <2> QED
    BY <1>1, <2>1 DEF LiveAhead
<1>10. CASE FindActive
  <2>1. screen' = "live" /\ stage' = "following" /\ front'
    BY <1>1, <1>2, <1>10 DEF FindActive, ShowFrom
  <2> QED
    BY <2>1 DEF Over, Settled
<1>11. ASSUME NEW s \in Followers, NEW h \in Games, HearStray(s, h)
       PROVE  LiveAhead(g, t)' \/ Over("active", g, t)'
  <2>1. Appear("container", alert) \/ UNCHANGED tab
    BY <1>1, <1>11 DEF HearStray
  <2> QED
    BY <1>1, <1>3, <2>1, StillAhead DEF tab
<1>12. CASE \/ BoardMoves \/ SessionMoves \/ UNCHANGED vars
            \/ \E u \in TeamIDs : FindActiveLate(u) \/ FindListingLate(u)
  <2>1. UNCHANGED tab
    BY <1>12 DEF BoardMoves, SessionMoves, vars, FindActiveLate, FindListingLate
  <2> QED
    BY <2>1, StillAhead DEF tab
<1> QED
  BY <1>4, <1>5, <1>6, <1>7, <1>8, <1>9, <1>10, <1>11, <1>12 DEF Next, User, Heard, Strays

LEMMA ListingSteps ==
  ASSUME NEW g \in Games, NEW t \in OwnTeams, ListingAhead(g, t), [Next]_vars
  PROVE  ListingAhead(g, t)' \/ Over("listing", g, t)' \/ Idle'
<1>1. /\ front /\ udTeam = t /\ alert \in {"none", "posted"} /\ query = t /\ screen # "team"
  BY DEF ListingAhead, Over
<1>2. ASSUME NEW s, NEW a \in {"none", "posted"}, s # "team", Appear(s, a)
      PROVE  ListingAhead(g, t)' \/ Over("listing", g, t)' \/ Idle'
  BY <1>1, <1>2, AppearsAhead
<1>3. ASSUME NEW s, s # "team", Show(s)
      PROVE  ListingAhead(g, t)' \/ Over("listing", g, t)' \/ Idle'
  BY <1>1, <1>2, <1>3 DEF Show
<1>4. ~OpenTab /\ ~OpenTabTraps /\ ~SessionScreens
  BY <1>1 DEF OpenTab, OpenTabTraps, SessionScreens
<1>5. CASE \/ LeaveTab \/ TapIcon \/ FindListingTraps \/ Killed
           \/ \E u \in TeamIDs : FindListingLateTraps(u)
  <2>1. ~front'
    BY <1>5 DEF LeaveTab, TapIcon, FindListingTraps, Killed, FindListingLateTraps, Trap, Away
  <2> QED
    BY <2>1, GoneIsOver
<1>6. CASE OpenCreate \/ HearActive \/ HearListing \/ HearLive
  BY <1>3, <1>6 DEF OpenCreate, HearActive, HearListing, HearLive
<1>7. CASE DismissAlert \/ \E h \in Games : SaveGame(h)
  <2>1. Appear("container", "none")
    BY <1>1, <1>7 DEF DismissAlert, SaveGame
  <2> QED
    BY <1>2, <2>1
<1>8. CASE HearListings \/ HearPosted \/ FindListing \/ FindActive
  <2>1. CASE Show("listing")
    BY <1>3, <2>1
  <2>2. CASE ~Show("listing")
    <3>1. UNCHANGED <<screen, query>> /\ alert' \in {"none", "posted"}
      BY <1>1, <1>8, <2>2 DEF HearListings, HearPosted, FindListing, FindActive
    <3> QED
      BY <1>1, <3>1 DEF ListingAhead
  <2> QED
    BY <2>1, <2>2
<1>9. ASSUME NEW s \in Followers, NEW h \in Games, HearStray(s, h)
      PROVE  ListingAhead(g, t)' \/ Over("listing", g, t)' \/ Idle'
  <2>1. Appear("container", alert) \/ UNCHANGED tab
    BY <1>1, <1>9 DEF HearStray
  <2> QED
    BY <1>1, <1>2, <2>1, StillAhead DEF tab
<1>10. CASE \/ BoardMoves \/ SessionMoves \/ UNCHANGED vars
            \/ \E u \in TeamIDs : FindActiveLate(u) \/ FindListingLate(u)
  <2>1. UNCHANGED tab
    BY <1>10 DEF BoardMoves, SessionMoves, vars, FindActiveLate, FindListingLate
  <2> QED
    BY <2>1, StillAhead DEF tab
<1> QED
  BY <1>4, <1>5, <1>6, <1>7, <1>8, <1>9, <1>10 DEF Next, User, Heard, Strays

(* Whatever the screen on top is told, whatever is pushed over it by        *)
(* listeners left behind, and however other games change, it stays on the   *)
(* way to the game of its team until the way is at its end.                 *)
THEOREM TabStaysOnWay == Spec => WayKept
<1> DEFINE Kept == \A g \in Games, t \in OwnTeams :
             /\ LiveAhead(g, t) => LiveAhead(g, t)' \/ Over("active", g, t)'
             /\ ListingAhead(g, t) => ListingAhead(g, t)' \/ Over("listing", g, t)' \/ Idle'
<1>1. [Next]_vars => [Kept]_vars
  BY LiveSteps, ListingSteps
<1> QED
  BY <1>1, PTL DEF Spec, WayKept
================================================================================
