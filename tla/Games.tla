-------------------------------- MODULE Games --------------------------------
(***************************************************************************)
(* The life of a game document under many devices: dbGame.swift and the    *)
(* screens that call it (CreateGame, SingleGame, Listing, LiveGame).       *)
(*                                                                         *)
(* A device reads through its Firestore client, which overlays the         *)
(* device's own unsent writes on the server's documents, and it writes by  *)
(* appending to a persistent first-in-first-out queue that the client      *)
(* sends in order (the update, set and batch calls return at once); what   *)
(* was not acknowledged when the stream broke is sent and applied again.   *)
(* Every getDocument(s) and every completion block is a pending callback:  *)
(* it lives in memory only, runs at any later time on the main queue, and  *)
(* is lost when the app is killed or traps.  A read is taken when its      *)
(* callback runs; a read answered from an old cache is such a read whose   *)
(* consequences reach the server late.                                     *)
(*                                                                         *)
(* Players are abstracted to their teams: playersInvolved is the set of    *)
(* teams whose members it lists.  Documents' display fields are left out,  *)
(* and security rules are taken to accept every write.                     *)
(***************************************************************************)
EXTENDS Naturals, Sequences, FiniteSets

CONSTANTS
  Devices,        \* running copies of the app
  Teams,          \* team ids
  NoTeam,         \* the empty string: no team stored, or no guest yet
  Games,          \* ids addDocument may draw (random, so never drawn twice)
  NoGame,         \* a callback that is about no particular game
  StoredTeam,     \* StoredTeam[d]: the team id first stored on d
  MovableDevices, \* devices whose stored team id may change while they run
  Killable,       \* devices whose app may be killed by the system or its user
  Flaky,          \* devices whose stream to the server may break
  ListingViewers, \* devices whose user opens the Listing screen
  MaxCalls,       \* bound: pending callbacks of a device at a click
  MaxPending      \* bound: unsent writes of a device at a click

TeamIDs == Teams \cup {NoTeam}

ASSUME ConstantsAssumption ==
  /\ NoTeam \notin Teams
  /\ NoGame \notin Games
  /\ StoredTeam \in [Devices -> TeamIDs]
  /\ MovableDevices \subseteq Devices
  /\ Killable \subseteq Devices
  /\ Flaky \subseteq Devices
  /\ ListingViewers \subseteq Devices
  /\ MaxCalls \in Nat
  /\ MaxPending \in Nat

VARIABLES
  server,   \* server[g]: the game document on the server
  queue,    \* queue[d]: writes of d not yet acknowledged, oldest first
  sent,     \* sent[d]: how many of them the server has applied all the same
  calls,    \* pending callbacks of all devices
  ud        \* ud[d]: the team id in the device's UserDefaults

vars == <<server, queue, sent, calls, ud>>

-----------------------------------------------------------------------------
(* Documents and writes *)

Statuses == {"absent", "listing", "active", "completed", "deleted"}

GameDoc == [status : Statuses, home : TeamIDs, guest : TeamIDs, named : BOOLEAN,
            roster : SUBSET TeamIDs, homeWin : BOOLEAN, guestWin : BOOLEAN]

Absent == [status |-> "absent", home |-> NoTeam, guest |-> NoTeam, named |-> FALSE,
           roster |-> {}, homeWin |-> FALSE, guestWin |-> FALSE]

(* The document the GameDM initialiser builds for a home team. *)
NewDoc(t) == [Absent EXCEPT !.status = "listing", !.home = t]

WriteOps == {"create", "name", "members", "seat", "start", "withdraw", "result"}

Write == [op : WriteOps, game : Games, home : TeamIDs, guest : TeamIDs,
          roster : SUBSET TeamIDs, homeWin : BOOLEAN, guestWin : BOOLEAN]

Blank(op, g) == [op |-> op, game |-> g, home |-> NoTeam, guest |-> NoTeam,
                 roster |-> {}, homeWin |-> FALSE, guestWin |-> FALSE]

(* Mutant of Apply: a result only writes the winner's score. *)
ApplyWinnerOnly(doc, w) ==
  CASE w.op = "create" -> NewDoc(w.home)
    [] w.op # "create" /\ doc.status = "absent" -> doc
    [] w.op = "result" /\ doc.status # "absent" ->
         [doc EXCEPT !.status = "completed", !.homeWin = @ \/ w.homeWin,
                     !.guestWin = @ \/ w.guestWin]
    [] w.op = "seat" /\ doc.status # "absent" ->
         [doc EXCEPT !.home = w.home, !.guest = w.guest]
    [] w.op = "start" /\ doc.status # "absent" ->
         [doc EXCEPT !.roster = w.roster, !.status = "active"]
    [] OTHER -> [doc EXCEPT !.named = TRUE]

(* Mutant of Apply: the members are stored by writing the document again. *)
ApplyMembersWhole(doc, w) ==
  CASE w.op = "create" -> NewDoc(w.home)
    [] w.op # "create" /\ doc.status = "absent" -> doc
    [] w.op = "members" /\ doc.status # "absent" ->
         [NewDoc(doc.home) EXCEPT !.named = TRUE, !.roster = w.roster]
    [] w.op = "start" /\ doc.status # "absent" -> [doc EXCEPT !.status = "active"]
    [] OTHER -> [doc EXCEPT !.named = TRUE]

(* What a write makes of a document; an update of a missing one fails. *)
Apply(doc, w) ==
  IF w.op = "create" THEN NewDoc(w.home)
  ELSE IF doc.status = "absent" THEN doc
  ELSE CASE w.op = "name"     -> [doc EXCEPT !.named = TRUE]
         [] w.op = "members"  -> [doc EXCEPT !.roster = @ \cup w.roster]
         [] w.op = "seat"     -> [doc EXCEPT !.home = w.home, !.guest = w.guest]
         [] w.op = "start"    -> [doc EXCEPT !.roster = w.roster, !.status = "active"]
         [] w.op = "withdraw" -> [doc EXCEPT !.status = "deleted"]
         [] w.op = "result"   -> [doc EXCEPT !.status = "completed",
                                             !.homeWin = w.homeWin,
                                             !.guestWin = w.guestWin]

-----------------------------------------------------------------------------
(* What a device sees: the server's document under its own unsent writes. *)

Pending(d, g, ops) ==
  {i \in DOMAIN queue[d] : queue[d][i].game = g /\ queue[d][i].op \in ops}

Latest(d, g, ops) ==
  CHOOSE i \in Pending(d, g, ops) : \A j \in Pending(d, g, ops) : j <= i

StatusOps == {"create", "start", "withdraw", "result"}
StatusSetBy == [create |-> "listing", start |-> "active",
                withdraw |-> "deleted", result |-> "completed"]

(* Mutant of ViewStatus: the device's own unsent writes are not seen. *)
ViewStatusServer(d, g) == server[g].status

ViewStatus(d, g) ==
  IF Pending(d, g, StatusOps) = {} THEN server[g].status
  ELSE StatusSetBy[queue[d][Latest(d, g, StatusOps)].op]

ViewHome(d, g) ==
  IF Pending(d, g, {"create", "seat"}) = {} THEN server[g].home
  ELSE queue[d][Latest(d, g, {"create", "seat"})].home

ViewGuest(d, g) ==
  IF Pending(d, g, {"create", "seat"}) = {} THEN server[g].guest
  ELSE queue[d][Latest(d, g, {"create", "seat"})].guest

ViewNamed(d, g) == server[g].named \/ Pending(d, g, {"name"}) # {}

ViewRoster(d, g) ==
  LET whole == Pending(d, g, {"create", "start"})
      base  == IF whole = {} THEN server[g].roster
               ELSE queue[d][Latest(d, g, {"create", "start"})].roster
      added == {i \in Pending(d, g, {"members"}) : \A j \in whole : j < i}
  IN  base \cup UNION {queue[d][i].roster : i \in added}

(* Queries on the teams array and the status. *)
Plays(d, g, t)  == t \in {ViewHome(d, g), ViewGuest(d, g)}
Listings(d, t)  == {g \in Games : ViewStatus(d, g) = "listing" /\ Plays(d, g, t)}

-----------------------------------------------------------------------------
(* Pending callbacks *)

CallKinds == {"posted", "members", "hosting", "listing", "guest", "delete", "commit"}

Call == [dev : Devices, kind : CallKinds, game : Games \cup {NoGame}, team : TeamIDs,
         roster : SUBSET TeamIDs, homeWin : BOOLEAN]

Pend(d, kind, g, t) == [dev |-> d, kind |-> kind, game |-> g, team |-> t,
                        roster |-> {}, homeWin |-> FALSE]

InFlight(d) == {c \in calls : c.dev = d}

(* Bounds: a user clicks only while the device has this little under way. *)
Idle(d) == Cardinality(InFlight(d)) < MaxCalls /\ Len(queue[d]) < MaxPending

Enqueue(d, w) == queue' = [queue EXCEPT ![d] = Append(@, w)]

(* An uncaught exception or a force-unwrap of nil: the process is gone, its *)
(* callbacks with it; the write queue and the UserDefaults are on disk.     *)
LoseCalls(d) == calls' = calls \ InFlight(d)

-----------------------------------------------------------------------------
Init ==
  /\ server = [g \in Games |-> Absent]
  /\ queue  = [d \in Devices |-> <<>>]
  /\ sent   = [d \in Devices |-> 0]
  /\ calls  = {}
  /\ ud     = StoredTeam

(* Mutant of Deliver: the newest write is sent first. *)
DeliverNewest(d) ==
  /\ sent[d] = 0 /\ queue[d] # <<>>
  /\ LET w == queue[d][Len(queue[d])]
     IN  server' = [server EXCEPT ![w.game] = Apply(@, w)]
  /\ queue' = [queue EXCEPT ![d] = SubSeq(@, 1, Len(@) - 1)]
  /\ UNCHANGED <<calls, ud, sent>>

(* The client sends its oldest write; the server applies and acknowledges. *)
Deliver(d) ==
  /\ sent[d] = 0 /\ queue[d] # <<>>
  /\ LET w == Head(queue[d])
     IN  server' = [server EXCEPT ![w.game] = Apply(@, w)]
  /\ queue' = [queue EXCEPT ![d] = Tail(@)]
  /\ UNCHANGED <<sent, calls, ud>>

(* Where the stream may break, the server is ahead: writes are sent one    *)
(* after another without waiting, and acknowledged in their order.         *)
Reach(d) ==
  /\ d \in Flaky /\ sent[d] < Len(queue[d])
  /\ LET w == queue[d][sent[d] + 1]
     IN  server' = [server EXCEPT ![w.game] = Apply(@, w)]
  /\ sent' = [sent EXCEPT ![d] = @ + 1]
  /\ UNCHANGED <<queue, calls, ud>>

Acknowledge(d) ==
  /\ sent[d] > 0
  /\ queue' = [queue EXCEPT ![d] = Tail(@)]
  /\ sent' = [sent EXCEPT ![d] = @ - 1]
  /\ UNCHANGED <<server, calls, ud>>

(* A new stream, also after a restart: the server does not know what the   *)
(* last one brought, and everything not acknowledged is sent once more.    *)
Reconnect(d) ==
  /\ sent[d] > 0
  /\ sent' = [sent EXCEPT ![d] = 0]
  /\ UNCHANGED <<server, queue, calls, ud>>

(***************************************************************************)
(* newGame: onSaveCreateGameClick adds the document; the completion block, *)
(* once the server has it, writes the id into the document and asks for    *)
(* the home team's members; their answer is merged into playersInvolved.   *)
(***************************************************************************)
Drawn(g) ==
  \/ server[g].status # "absent"
  \/ \E d \in Devices : Pending(d, g, {"create"}) # {}

NewGame(d, g) ==
  /\ Idle(d)
  /\ ~Drawn(g)
  /\ Enqueue(d, [Blank("create", g) EXCEPT !.home = ud[d]])
  /\ calls' = calls \cup {Pend(d, "posted", g, NoTeam)}
  /\ UNCHANGED <<server, ud, sent>>

(* Mutant of NewGamePosted: the id is not written back. *)
NewGamePostedNoName(d, g) ==
  /\ Pend(d, "posted", g, NoTeam) \in calls
  /\ Pending(d, g, {"create"}) = {} /\ ud[d] # NoTeam
  /\ calls' = (calls \ {Pend(d, "posted", g, NoTeam)}) \cup {Pend(d, "members", g, ud[d])}
  /\ UNCHANGED <<server, queue, ud, sent>>

NewGamePosted(d, g) ==
  LET c == Pend(d, "posted", g, NoTeam)
  IN  /\ c \in calls
      /\ Pending(d, g, {"create"}) = {}
      /\ ud[d] # NoTeam
      /\ Enqueue(d, Blank("name", g))
      /\ calls' = (calls \ {c}) \cup {Pend(d, "members", g, ud[d])}
      /\ UNCHANGED <<server, ud, sent>>

(* getTeamMembersIDs asks for the document with an empty id and traps. *)
NewGamePostedTraps(d, g) ==
  /\ Pend(d, "posted", g, NoTeam) \in calls
  /\ Pending(d, g, {"create"}) = {}
  /\ ud[d] = NoTeam
  /\ Enqueue(d, Blank("name", g))
  /\ LoseCalls(d)
  /\ UNCHANGED <<server, ud, sent>>

NewGameMembers(d, g) ==
  \E t \in Teams :
    LET c == Pend(d, "members", g, t)
    IN  /\ c \in calls
        /\ Enqueue(d, [Blank("members", g) EXCEPT !.roster = {t}])
        /\ calls' = calls \ {c}
        /\ UNCHANGED <<server, ud, sent>>

(***************************************************************************)
(* onJoinGameClick and joinGame, on the SingleGame screen of a listing's   *)
(* pin.  The checks on the stored team are made at the click, the check    *)
(* for a listing of one's own in a callback, and joinGame takes the stored *)
(* team again there.  The screen stays open while the game moves on: a     *)
(* later click is one whose callbacks have not run yet.                    *)
(***************************************************************************)
(* Mutants of JoinGameClick: an unnamed game, or one's own, is let through. *)
JoinGameClickUnnamed(d, g) ==
  /\ Idle(d)
  /\ ViewStatus(d, g) = "listing"
  /\ ud[d] # NoTeam /\ ~Plays(d, g, ud[d])
  /\ calls' = calls \cup {Pend(d, "hosting", g, ud[d])}
  /\ UNCHANGED <<server, queue, ud, sent>>

JoinGameClickOwn(d, g) ==
  /\ Idle(d)
  /\ ViewStatus(d, g) = "listing" /\ ViewNamed(d, g)
  /\ ud[d] # NoTeam
  /\ calls' = calls \cup {Pend(d, "hosting", g, ud[d])}
  /\ UNCHANGED <<server, queue, ud, sent>>

JoinGameClick(d, g) ==
  /\ Idle(d)
  /\ ViewStatus(d, g) = "listing" /\ ViewNamed(d, g)
  /\ ud[d] # NoTeam
  /\ ~Plays(d, g, ud[d])
  /\ calls' = calls \cup {Pend(d, "hosting", g, ud[d])}
  /\ UNCHANGED <<server, queue, ud, sent>>

CheckedHosting(d, g) ==
  \E t \in Teams :
    LET c == Pend(d, "hosting", g, t)
    IN  /\ c \in calls
        /\ calls' = (calls \ {c}) \cup
             (IF Listings(d, t) # {} THEN {} ELSE {Pend(d, "listing", g, ud[d])})
        /\ UNCHANGED <<server, queue, ud, sent>>

(* Mutants of SeatWrite: the two places swapped; the guest's place not set. *)
SeatWriteSwapped(d, g, t) == [Blank("seat", g) EXCEPT !.home = t, !.guest = ViewHome(d, g)]
SeatWriteOld(d, g, t) ==
  [Blank("seat", g) EXCEPT !.home = ViewHome(d, g), !.guest = ViewGuest(d, g)]

(* The two places of the teams array are rewritten from the one just read. *)
SeatWrite(d, g, t) == [Blank("seat", g) EXCEPT !.home = ViewHome(d, g), !.guest = t]

(* Mutant of JoinGameSeats: the second half is never asked for. *)
JoinGameSeatsOnly(d, g) ==
  \E t \in Teams :
    /\ Pend(d, "listing", g, t) \in calls
    /\ Enqueue(d, SeatWrite(d, g, t))
    /\ calls' = calls \ {Pend(d, "listing", g, t)}
    /\ UNCHANGED <<server, ud, sent>>

JoinGameSeats(d, g) ==
  \E t \in Teams :
    LET c == Pend(d, "listing", g, t)
    IN  /\ c \in calls
        /\ Enqueue(d, SeatWrite(d, g, t))
        /\ calls' = (calls \ {c}) \cup
             {[Pend(d, "guest", g, t) EXCEPT !.roster = ViewRoster(d, g)]}
        /\ UNCHANGED <<server, ud, sent>>

(* The stored team was emptied after the click: the seat is written, then *)
(* getTeamFromID asks for the document with an empty id and traps.        *)
JoinGameSeatsTraps(d, g) ==
  /\ Pend(d, "listing", g, NoTeam) \in calls
  /\ Enqueue(d, SeatWrite(d, g, NoTeam))
  /\ LoseCalls(d)
  /\ UNCHANGED <<server, ud, sent>>

(* Mutants of StartWrite: the joining team is left out; the device is listed. *)
StartWriteHosts(g, c) == [Blank("start", g) EXCEPT !.roster = c.roster]
StartWriteDevice(g, c) == [Blank("start", g) EXCEPT !.roster = c.roster \cup {c.dev}]

StartWrite(g, c) == [Blank("start", g) EXCEPT !.roster = c.roster \cup {c.team}]

JoinGameStarts(d, g) ==
  \E c \in InFlight(d) :
    /\ c.kind = "guest" /\ c.game = g
    /\ Enqueue(d, StartWrite(g, c))
    /\ calls' = calls \ {c}
    /\ UNCHANGED <<server, ud, sent>>

(***************************************************************************)
(* The Listing screen: the first listing with the stored team in its teams *)
(* array, and its Delete button.  An unnamed listing is looked up under an *)
(* empty id, which traps; so does the first element of an empty answer.    *)
(***************************************************************************)
OpenUnnamedListingTraps(d) ==
  /\ d \in ListingViewers
  /\ \E g \in Listings(d, ud[d]) : ~ViewNamed(d, g)
  /\ InFlight(d) # {}
  /\ LoseCalls(d)
  /\ UNCHANGED <<server, queue, ud, sent>>

DeleteListingClick(d) ==
  /\ d \in ListingViewers
  /\ Idle(d)
  /\ \E g \in Listings(d, ud[d]) : ViewNamed(d, g)
  /\ calls' = calls \cup {Pend(d, "delete", NoGame, ud[d])}
  /\ UNCHANGED <<server, queue, ud, sent>>

DeleteListing(d) ==
  \E t \in TeamIDs :
    LET c == Pend(d, "delete", NoGame, t)
    IN  /\ c \in calls
        /\ \E g \in Listings(d, t) :
             /\ ViewNamed(d, g)
             /\ Enqueue(d, Blank("withdraw", g))
        /\ calls' = calls \ {c}
        /\ UNCHANGED <<server, ud, sent>>

DeleteListingTraps(d) ==
  \E t \in TeamIDs :
    /\ Pend(d, "delete", NoGame, t) \in calls
    /\ \/ Listings(d, t) = {}
       \/ \E g \in Listings(d, t) : ~ViewNamed(d, g)
    /\ LoseCalls(d)
    /\ UNCHANGED <<server, queue, ud, sent>>

(***************************************************************************)
(* The LiveGame screen: only the home team is shown the Win and Loss       *)
(* buttons.  completeGame puts the status and both scores in one batch,    *)
(* committed when the records have been read (CompleteGame.tla).  The      *)
(* alert that confirms the click is part of the time the call takes.       *)
(***************************************************************************)
ReportClick(d, g) ==
  /\ Idle(d)
  /\ ViewStatus(d, g) = "active"
  /\ ud[d] = ViewHome(d, g)
  /\ NoTeam \notin {ViewHome(d, g), ViewGuest(d, g)}
  /\ \E win \in BOOLEAN :
       calls' = calls \cup {[Pend(d, "commit", g, NoTeam) EXCEPT !.homeWin = win]}
  /\ UNCHANGED <<server, queue, ud, sent>>

(* completeGame looks up the team with an empty id and traps. *)
ReportClickTraps(d, g) ==
  /\ ViewStatus(d, g) = "active"
  /\ ud[d] = ViewHome(d, g)
  /\ NoTeam \in {ViewHome(d, g), ViewGuest(d, g)}
  /\ InFlight(d) # {}
  /\ LoseCalls(d)
  /\ UNCHANGED <<server, queue, ud, sent>>

(* Mutant of CommitResult: the batch is not committed. *)
CommitResultNever(d, g) ==
  \E c \in InFlight(d) :
    /\ c.kind = "commit" /\ c.game = g
    /\ calls' = calls \ {c}
    /\ UNCHANGED <<server, queue, ud, sent>>

CommitResult(d, g) ==
  \E c \in InFlight(d) :
    /\ c.kind = "commit" /\ c.game = g
    /\ Enqueue(d, [Blank("result", g) EXCEPT !.homeWin = c.homeWin,
                                             !.guestWin = ~c.homeWin])
    /\ calls' = calls \ {c}
    /\ UNCHANGED <<server, ud, sent>>

(***************************************************************************)
(* The stored team id follows the player's document (Team and NoTeam       *)
(* screens) and is emptied at sign-out; the app may be killed.             *)
(***************************************************************************)
TeamChange(d) ==
  /\ d \in MovableDevices
  /\ \E t \in TeamIDs \ {ud[d]} : ud' = [ud EXCEPT ![d] = t]
  /\ UNCHANGED <<server, queue, calls, sent>>

Restart(d) ==
  /\ d \in Killable
  /\ InFlight(d) # {}
  /\ LoseCalls(d)
  /\ UNCHANGED <<server, queue, ud, sent>>

-----------------------------------------------------------------------------
(* One callback answered, whichever way it ends. *)
Callback(d, g) ==
  \/ NewGamePosted(d, g)
  \/ NewGamePostedTraps(d, g)
  \/ NewGameMembers(d, g)
  \/ CheckedHosting(d, g)
  \/ JoinGameSeats(d, g)
  \/ JoinGameSeatsTraps(d, g)
  \/ JoinGameStarts(d, g)
  \/ CommitResult(d, g)

Click(d, g) ==
  \/ NewGame(d, g)
  \/ JoinGameClick(d, g)
  \/ ReportClick(d, g)
  \/ ReportClickTraps(d, g)

DeviceStep(d) ==
  \/ Deliver(d) \/ Reach(d) \/ Acknowledge(d) \/ Reconnect(d)
  \/ OpenUnnamedListingTraps(d)
  \/ DeleteListingClick(d)
  \/ DeleteListing(d)
  \/ DeleteListingTraps(d)
  \/ TeamChange(d)
  \/ Restart(d)

Next == \E d \in Devices :
          \/ DeviceStep(d)
          \/ \E g \in Games : Callback(d, g) \/ Click(d, g)

Spec == Init /\ [][Next]_vars

(* The client keeps sending while it has writes, a write sent again and    *)
(* again is acknowledged in the end, and an answered call's callback is    *)
(* run by the main queue, whether it traps or not; nobody is obliged to    *)
(* click, to kill the app or to change team.                               *)
Fairness ==
  \A d \in Devices :
    /\ WF_vars(Deliver(d)) /\ SF_vars(Acknowledge(d))
    /\ \A g \in Games :
         /\ WF_vars(NewGamePosted(d, g) \/ NewGamePostedTraps(d, g))
         /\ WF_vars(NewGameMembers(d, g))
         /\ WF_vars(CheckedHosting(d, g))
         /\ WF_vars(JoinGameSeats(d, g) \/ JoinGameSeatsTraps(d, g))
         /\ WF_vars(JoinGameStarts(d, g))
         /\ WF_vars(CommitResult(d, g))

FairSpec == Spec /\ Fairness
-----------------------------------------------------------------------------
(* Properties *)

(* Every variable keeps its type: documents, writes and callbacks are well *)
(* formed, every queue belongs to a device, and the server is never ahead  *)
(* of a device by more than is queued there.                               *)
TypeOK ==
  /\ server \in [Games -> GameDoc]
  /\ queue \in [Devices -> Seq(Write)]
  /\ sent \in [Devices -> Nat] /\ \A d \in Devices : sent[d] <= Len(queue[d])
  /\ calls \subseteq Call
  /\ ud \in [Devices -> TeamIDs]

(* joinGame rewrites the whole teams array from a read that may be old by  *)
(* the time the write arrives: the host of a posted game is never changed. *)
HomeFixed ==
  [][\A g \in Games : server[g].status # "absent" =>
                         server'[g].home = server[g].home]_vars

(* The document does not know its own id until the host's second write     *)
(* arrives, and everybody else finds it through that id: nothing happens   *)
(* to a game, through any device's queue, before it is named, so whatever  *)
(* a map or a screen is told of a changed game comes with its id.          *)
OnlyNamedMoves ==
  \A g \in Games :
    \/ server[g].named
    \/ server[g].status \in {"absent", "listing"} /\ server[g].guest = NoTeam
                                                  /\ server[g].roster = {}

(* joinGame seats the guest and starts the game in two separate updates,   *)
(* either of which other devices' updates may fall between: a game under   *)
(* way, or played, always has a guest.                                     *)
StartedHasGuest ==
  \A g \in Games :
    server[g].status \in {"active", "completed"} => server[g].guest # NoTeam

(* onJoinGameClick checks against the screen's copy, joinGame writes much  *)
(* later: no team is ever its own opponent.                                *)
NoSelfPlay ==
  \A g \in Games : server[g].guest # NoTeam => server[g].guest # server[g].home

(* Members of one team may report opposite results at once, and a late     *)
(* join may reopen a played game: a played game has exactly one winner and *)
(* no game, whatever its status, has two.                                  *)
OneWinner ==
  \A g \in Games :
    /\ ~(server[g].homeWin /\ server[g].guestWin)
    /\ server[g].status = "completed" => server[g].homeWin # server[g].guestWin

(* playersInvolved is overwritten whole when a game starts, from a read    *)
(* that may miss anybody: it always lists members of some team other than  *)
(* the home team once the game has started.                                *)
GuestSideListed ==
  \A g \in Games :
    server[g].status \in {"active", "completed"} =>
      \E t \in server[g].roster : t \notin {server[g].home, NoTeam}

(* A game that has been taken off the board (started, played or withdrawn) *)
(* is never offered again, in whatever order the devices' writes arrive.   *)
NeverRelisted ==
  [][\A g \in Games : server[g].status \notin {"absent", "listing"} =>
                         server'[g].status \notin {"absent", "listing"}]_vars

(* The server's documents live the life GameBoard.tla promises. *)
Winner(doc) == IF doc.homeWin THEN "home" ELSE IF doc.guestWin THEN "guest" ELSE "none"

Board == INSTANCE GameBoard WITH
  status <- [g \in Games |-> server[g].status],
  home   <- [g \in Games |-> server[g].home],
  guest  <- [g \in Games |-> server[g].guest],
  named  <- {g \in Games : server[g].named},
  winner <- [g \in Games |-> Winner(server[g])]

BoardSpec == Board!Spec

(* The id written by newGame's completion block reaches the document, as  *)
(* long as the block is not lost: it is when the poster's app is killed,   *)
(* and when the poster opens the Listing screen before the server answers. *)
PostedIsNamed ==
  \A g \in Games : (server[g].status # "absent") ~> server[g].named

(* A guest seated on a listing is not left waiting: joinGame's second     *)
(* update, or a withdrawal, takes the game off the board.                 *)
SeatedStarts ==
  \A g \in Games :
    (server[g].status = "listing" /\ server[g].guest # NoTeam)
      ~> (server[g].status # "listing")

(* PlayViewController.swift line 68: "Assuming only home team has listings *)
(* with teams array containing their team" (refuted: joinGame's first      *)
(* update seats the guest on a game that is still a listing).              *)
OnlyHomeListed ==
  \A g \in Games : server[g].status = "listing" => server[g].guest = NoTeam

(* A reported result reaches the server. *)
ReportArrives ==
  \A g \in Games :
    (\E c \in calls : c.kind = "commit" /\ c.game = g)
      ~> (server[g].status = "completed")
=============================================================================
