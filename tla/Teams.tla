-------------------------------- MODULE Teams --------------------------------
(***************************************************************************)
(* Teams and their members: dbTeam.swift with the Team and NoTeam screens, *)
(* sign-up, and the team id a phone stores.                                *)
(*                                                                         *)
(* Membership is kept twice: teamID in the player's document, which the    *)
(* roster is queried by and the screens listen to, and teamMembers in the  *)
(* team's document.  A manager's phone writes the two one after the other, *)
(* after reads whose answers come later; a phone writes through a queue as *)
(* in Games.tla and sees its unsent writes.                                *)
(*                                                                         *)
(* Every player uses one phone and stays signed in.  Reads are answered,   *)
(* however late; names, profiles and records are left out.                 *)
(***************************************************************************)
EXTENDS Naturals, Sequences, FiniteSets

CONSTANTS
  Players,
  Founders,   \* players who create a team when they have none
  Invites,    \* Invites[p]: players whose add codes p has been told
  Code,       \* Code[p]: the add code drawn for p, not compared with others
  Teams,      \* ids addDocument may draw
  NoTeam,     \* the empty string
  Missing,    \* the team of a player without a document
  NoPlayer,   \* the manager of a team without a document
  Killable,   \* players whose app may be killed
  Viewers,    \* players who open the Team tab
  Flaky,      \* players whose phone's stream to the server may break
  Registered, \* players who have signed up before
  MaxCalls,   \* bound: clicks of a player under way at a click
  MaxPending  \* bound: unsent writes of a player at a click

ASSUME TeamsAssumption ==
  /\ Founders \subseteq Players /\ Killable \subseteq Players /\ Viewers \subseteq Players
  /\ Registered \subseteq Players /\ Flaky \subseteq Players
  /\ Invites \in [Players -> SUBSET Players]
  /\ Players \subseteq DOMAIN Code
  /\ NoTeam \notin Teams /\ Missing \notin Teams /\ Missing # NoTeam
  /\ NoPlayer \notin Players
  /\ MaxCalls \in Nat /\ MaxPending \in Nat

VARIABLES
  teamOf,   \* teamOf[p]: teamID in p's document on the server
  team,     \* team[t]: the team's document on the server
  queue,    \* queue[p]: writes of p's phone not yet acknowledged, oldest first
  sent,     \* sent[p]: how many of them the server has applied all the same
  calls,    \* pending callbacks of all phones
  ud,       \* ud[p]: the team id in the UserDefaults of p's phone
  screen    \* screen[p]: what p's phone shows

vars == <<teamOf, team, queue, sent, calls, ud, screen>>

TeamIDs == Teams \cup {NoTeam}

TeamDoc == [manager : Players \cup {NoPlayer}, members : SUBSET Players, named : BOOLEAN]
NoDoc   == [manager |-> NoPlayer, members |-> {}, named |-> FALSE]

Screens == {"new", "home", "none", "team"}

-----------------------------------------------------------------------------
(* Writes *)

Write == [op : {"signup", "create", "name", "put", "list", "unlist"},
          player : Players, team : TeamIDs]

W(op, p, t) == [op |-> op, player |-> p, team |-> t]

(* What a write makes of a team's document; updates of a missing one fail. *)
Applied(doc, w) ==
  CASE w.op = "create" -> [manager |-> w.player, members |-> {w.player}, named |-> FALSE]
    [] w.op # "create" /\ doc = NoDoc -> doc
    [] w.op = "name"   -> [doc EXCEPT !.named = TRUE]
    [] w.op = "list"   -> [doc EXCEPT !.members = @ \cup {w.player}]
    [] w.op = "unlist" -> [doc EXCEPT !.members = @ \ {w.player}]
    [] OTHER           -> doc

(* What it makes of the teamID of its player. *)
TeamAfter(t, w) ==
  IF w.op = "signup" \/ (w.op = "put" /\ t # Missing) THEN w.team ELSE t

-----------------------------------------------------------------------------
(* What p's phone sees: the server's documents under its unsent writes. *)

Pending(p, ops, q, ts) ==
  {i \in DOMAIN queue[p] : /\ queue[p][i].op \in ops
                           /\ queue[p][i].player = q /\ queue[p][i].team \in ts}

Latest(p, S) == queue[p][CHOOSE i \in S : \A j \in S : j <= i]

SeenTeam(p, q) ==
  LET own == Pending(p, {"signup", "put"}, q, TeamIDs)
  IN  IF own = {} THEN teamOf[q] ELSE Latest(p, own).team

SeenMember(p, t, q) ==
  LET own == Pending(p, {"create", "list", "unlist"}, q, {t})
  IN  IF own = {} THEN q \in team[t].members ELSE Latest(p, own).op # "unlist"

SeenManager(p, t) ==
  IF Pending(p, {"create"}, p, {t}) # {} THEN p ELSE team[t].manager

SeenNamed(p, t) == team[t].named \/ Pending(p, {"name"}, p, {t}) # {}

-----------------------------------------------------------------------------
(* Pending callbacks *)

CallKinds == {"add", "query", "remove", "show", "store"}

Call == [phone : Players, kind : CallKinds, team : TeamIDs, player : Players]

Pend(p, kind, t, q) == [phone |-> p, kind |-> kind, team |-> t, player |-> q]

OnPhone(p, kinds) == {c \in calls : c.phone = p /\ c.kind \in kinds}

(* Bounds: a user clicks only while the phone has this little under way. *)
Ready(p) == /\ Cardinality(OnPhone(p, {"add", "query", "remove"})) < MaxCalls
            /\ Len(queue[p]) < MaxPending

Enqueue(p, ws) == queue' = [queue EXCEPT ![p] = @ \o ws]

(* A trap or a kill ends the app, and with it its callbacks; the next launch *)
(* finds the user signed in and asks for the player's team again.            *)
Restart(p) ==
  /\ calls'  = (calls \ OnPhone(p, CallKinds)) \cup {Pend(p, "store", NoTeam, p)}
  /\ screen' = [screen EXCEPT ![p] = "home"]

-----------------------------------------------------------------------------
Init ==
  /\ teamOf = [p \in Players |-> IF p \in Registered THEN NoTeam ELSE Missing]
  /\ team   = [t \in Teams |-> NoDoc]
  /\ queue  = [p \in Players |-> <<>>]
  /\ sent   = [p \in Players |-> 0]
  /\ calls  = {}
  /\ ud     = [p \in Players |-> NoTeam]
  /\ screen = [p \in Players |-> IF p \in Registered THEN "home" ELSE "new"]

(* The server applies a write. *)
Arrive(w) ==
  /\ teamOf' = [teamOf EXCEPT ![w.player] = TeamAfter(@, w)]
  /\ team'   = [t \in Teams |-> IF t = w.team THEN Applied(team[t], w) ELSE team[t]]

(* The client sends its oldest write; the server applies and acknowledges it. *)
Deliver(p) ==
  /\ sent[p] = 0 /\ queue[p] # <<>>
  /\ Arrive(Head(queue[p]))
  /\ queue' = [queue EXCEPT ![p] = Tail(@)]
  /\ UNCHANGED <<sent, calls, ud, screen>>

(* Where the stream may break, acknowledgements lag behind (Games.tla), and *)
(* the writes that were not acknowledged are sent once more after it has.   *)
Reach(p) ==
  /\ p \in Flaky /\ sent[p] < Len(queue[p])
  /\ Arrive(queue[p][sent[p] + 1])
  /\ sent' = [sent EXCEPT ![p] = @ + 1]
  /\ UNCHANGED <<queue, calls, ud, screen>>

(* Mutant of Acknowledge: the write is forgotten, not its having been sent. *)
AcknowledgeUncounted(p) ==
  /\ sent[p] > 0
  /\ queue' = [queue EXCEPT ![p] = Tail(@)]
  /\ UNCHANGED <<sent, teamOf, team, calls, ud, screen>>

Acknowledge(p) ==
  /\ sent[p] > 0
  /\ queue' = [queue EXCEPT ![p] = Tail(@)]
  /\ sent'  = [sent EXCEPT ![p] = @ - 1]
  /\ UNCHANGED <<teamOf, team, calls, ud, screen>>

Reconnect(p) ==
  /\ sent[p] > 0
  /\ sent' = [sent EXCEPT ![p] = 0]
  /\ UNCHANGED <<teamOf, team, queue, calls, ud, screen>>

(* firebaseSignup: the player's document, without a team. *)
SignUp(p) ==
  /\ screen[p] = "new"
  /\ Enqueue(p, <<W("signup", p, NoTeam)>>)
  /\ ud'     = [ud EXCEPT ![p] = NoTeam]
  /\ screen' = [screen EXCEPT ![p] = "home"]
  /\ UNCHANGED <<sent, teamOf, team, calls>>

(* Mutant of Relaunch: the unsent writes are lost with the app. *)
RelaunchForgets(p) ==
  /\ p \in Killable /\ screen[p] # "new"
  /\ Restart(p)
  /\ queue' = [queue EXCEPT ![p] = <<>>] /\ sent' = [sent EXCEPT ![p] = 0]
  /\ UNCHANGED <<teamOf, team, ud>>

(* The app ends at any moment; what it had not sent is kept on the disk. *)
Relaunch(p) ==
  /\ p \in Killable /\ screen[p] # "new"
  /\ Restart(p)
  /\ UNCHANGED <<sent, teamOf, team, queue, ud>>

(* storeTeamIDUserDefaults: the answer is stored whenever it comes, but for a *)
(* player without a document.                                                 *)
StoreTeam(p) ==
  \E c \in OnPhone(p, {"store"}) :
    /\ ud'    = [ud EXCEPT ![p] = IF SeenTeam(p, p) = Missing THEN @ ELSE SeenTeam(p, p)]
    /\ calls' = calls \ {c}
    /\ UNCHANGED <<sent, teamOf, team, queue, screen>>

-----------------------------------------------------------------------------
(* The Team tab *)

(* TContainer: to NoTeam at once, or to Team when the document is read. *)
OpenTab(p) ==
  /\ p \in Viewers /\ screen[p] = "home"
  /\ IF ud[p] = NoTeam
     THEN screen' = [screen EXCEPT ![p] = "none"] /\ UNCHANGED calls
     ELSE calls' = calls \cup {Pend(p, "show", ud[p], p)} /\ UNCHANGED screen
  /\ UNCHANGED <<sent, teamOf, team, queue, ud>>

(* NoTeam's listener: the player has been put into a team. *)
HearInvited(p) ==
  /\ screen[p] = "none"
  /\ SeenTeam(p, p) \in Teams
  /\ ud'    = [ud EXCEPT ![p] = SeenTeam(p, p)]
  /\ calls' = calls \cup {Pend(p, "show", SeenTeam(p, p), p)}
  /\ UNCHANGED <<sent, teamOf, team, queue, screen>>

(* Team appears; its listeners ask for the stored team's document, and an *)
(* empty path traps.                                                      *)
ShowTeam(p) ==
  \E c \in OnPhone(p, {"show"}) :
    /\ ud[p] # NoTeam
    /\ screen' = [screen EXCEPT ![p] = "team"]
    /\ calls'  = calls \ {c}
    /\ UNCHANGED <<sent, teamOf, team, queue, ud>>

ShowTraps(p) ==
  /\ OnPhone(p, {"show"}) # {} /\ ud[p] = NoTeam
  /\ Restart(p)
  /\ UNCHANGED <<sent, teamOf, team, queue, ud>>

(* Team's listener: the player has no team any more. *)
HearRemoved(p) ==
  /\ screen[p] = "team" /\ SeenTeam(p, p) = NoTeam
  /\ ud'     = [ud EXCEPT ![p] = NoTeam]
  /\ screen' = [screen EXCEPT ![p] = "none"]
  /\ UNCHANGED <<sent, teamOf, team, queue, calls>>

Drawn(t) == team[t] # NoDoc \/ \E p \in Players : Pending(p, {"create"}, p, {t}) # {}

(* Mutants of CreateTeam: the creator is not moved; the id is not stored. *)
CreateTeamAlone(p, t) ==
  /\ p \in Founders /\ screen[p] = "none" /\ Ready(p) /\ ~Drawn(t)
  /\ Enqueue(p, <<W("create", p, t), W("name", p, t)>>)
  /\ ud' = [ud EXCEPT ![p] = t] /\ screen' = [screen EXCEPT ![p] = "team"]
  /\ UNCHANGED <<sent, teamOf, team, calls>>

CreateTeamUnnamed(p, t) ==
  /\ p \in Founders /\ screen[p] = "none" /\ Ready(p) /\ ~Drawn(t)
  /\ Enqueue(p, <<W("create", p, t), W("put", p, t)>>)
  /\ ud' = [ud EXCEPT ![p] = t] /\ screen' = [screen EXCEPT ![p] = "team"]
  /\ UNCHANGED <<sent, teamOf, team, calls>>

(* createNewTeam and newTeam: the document, its id, and the creator's team. *)
CreateTeam(p, t) ==
  /\ p \in Founders /\ screen[p] = "none" /\ Ready(p) /\ ~Drawn(t)
  /\ Enqueue(p, <<W("create", p, t), W("name", p, t), W("put", p, t)>>)
  /\ ud'     = [ud EXCEPT ![p] = t]
  /\ screen' = [screen EXCEPT ![p] = "team"]
  /\ UNCHANGED <<sent, teamOf, team, calls>>

-----------------------------------------------------------------------------
(***************************************************************************)
(* addTeamMember: read the team, check its manager, look for the code, and *)
(* write the player's team as it was read and the list of the team that is *)
(* stored when the answer comes.                                           *)
(***************************************************************************)
AddClick(p, q) ==
  /\ screen[p] = "team" /\ q \in Invites[p] /\ Ready(p)
  /\ ud[p] # NoTeam
  /\ calls' = calls \cup {Pend(p, "add", ud[p], q)}
  /\ UNCHANGED <<sent, teamOf, team, queue, ud, screen>>

(* Without a stored team getTeam answers nil at once; casting it traps. *)
ClickTraps(p) ==
  /\ screen[p] = "team" /\ ud[p] = NoTeam
  /\ Restart(p)
  /\ UNCHANGED <<sent, teamOf, team, queue, ud>>

AddAllowed(p) ==
  \E c \in OnPhone(p, {"add"}) :
    /\ calls' = (calls \ {c}) \cup
         IF SeenManager(p, c.team) # p THEN {}
         ELSE {Pend(p, "query", IF SeenNamed(p, c.team) THEN c.team ELSE NoTeam, c.player)}
    /\ UNCHANGED <<sent, teamOf, team, queue, ud, screen>>

(* The documents with the code; which comes first is left open. *)
Found(p, c) == {q \in Players : Code[q] = Code[c.player] /\ SeenTeam(p, q) # Missing}

AddPlayer(p) ==
  \E c \in OnPhone(p, {"query"}) : \E q \in Found(p, c) :
    /\ SeenTeam(p, q) = NoTeam
    /\ ud[p] # NoTeam
    /\ Enqueue(p, <<W("put", q, c.team), W("list", q, ud[p])>>)
    /\ calls' = calls \ {c}
    /\ UNCHANGED <<sent, teamOf, team, ud, screen>>

(* No team is stored any more: document("") traps after the first write. *)
AddTraps(p) ==
  \E c \in OnPhone(p, {"query"}) : \E q \in Found(p, c) :
    /\ SeenTeam(p, q) = NoTeam
    /\ ud[p] = NoTeam
    /\ Enqueue(p, <<W("put", q, c.team)>>)
    /\ Restart(p)
    /\ UNCHANGED <<sent, teamOf, team, ud>>

AddRefused(p) ==
  \E c \in OnPhone(p, {"query"}) :
    /\ Found(p, c) = {} \/ \E q \in Found(p, c) : SeenTeam(p, q) # NoTeam
    /\ calls' = calls \ {c}
    /\ UNCHANGED <<sent, teamOf, team, queue, ud, screen>>

-----------------------------------------------------------------------------
(* deleteTeamMember: read the team, check its manager, and empty the player's *)
(* team, whatever it is by then.                                              *)
RemoveClick(p, q) ==
  /\ screen[p] = "team" /\ Ready(p)
  /\ ud[p] # NoTeam /\ SeenTeam(p, q) = ud[p]
  /\ calls' = calls \cup {Pend(p, "remove", ud[p], q)}
  /\ UNCHANGED <<sent, teamOf, team, queue, ud, screen>>

(* Mutants of MayRemove: the manager may go; anyone may remove. *)
MayRemoveManager(p, c) == SeenManager(p, c.team) = p
MayRemoveAnyone(p, c) == c.player # p

MayRemove(p, c) == SeenManager(p, c.team) = p /\ c.player # p

RemoveMember(p) ==
  \E c \in OnPhone(p, {"remove"}) :
    /\ MayRemove(p, c)
    /\ ud[p] # NoTeam
    /\ Enqueue(p, <<W("put", c.player, NoTeam), W("unlist", c.player, ud[p])>>)
    /\ calls' = calls \ {c}
    /\ UNCHANGED <<sent, teamOf, team, ud, screen>>

RemoveTraps(p) ==
  \E c \in OnPhone(p, {"remove"}) :
    /\ MayRemove(p, c)
    /\ ud[p] = NoTeam
    /\ Enqueue(p, <<W("put", c.player, NoTeam)>>)
    /\ Restart(p)
    /\ UNCHANGED <<sent, teamOf, team, ud>>

RemoveRefused(p) ==
  \E c \in OnPhone(p, {"remove"}) :
    /\ ~MayRemove(p, c)
    /\ calls' = calls \ {c}
    /\ UNCHANGED <<sent, teamOf, team, queue, ud, screen>>

-----------------------------------------------------------------------------
Tab(p)    == OpenTab(p) \/ HearInvited(p) \/ ShowTeam(p) \/ ShowTraps(p) \/ HearRemoved(p)
Add(p)    == \/ \E q \in Players : AddClick(p, q)
             \/ ClickTraps(p) \/ AddAllowed(p) \/ AddPlayer(p) \/ AddTraps(p) \/ AddRefused(p)
Remove(p) == \/ \E q \in Players : RemoveClick(p, q)
             \/ RemoveMember(p) \/ RemoveTraps(p) \/ RemoveRefused(p)

Next ==
  \E p \in Players :
    \/ Deliver(p) \/ Reach(p) \/ Acknowledge(p) \/ Reconnect(p)
    \/ SignUp(p) \/ Relaunch(p) \/ StoreTeam(p)
    \/ Tab(p) \/ Add(p) \/ Remove(p)
    \/ \E t \in Teams : CreateTeam(p, t)

Spec == Init /\ [][Next]_vars
-----------------------------------------------------------------------------
(* Properties *)

(* Documents, writes, callbacks and stored ids are well formed. *)
TypeOK ==
  /\ teamOf \in [Players -> TeamIDs \cup {Missing}]
  /\ team \in [Teams -> TeamDoc]
  /\ queue \in [Players -> Seq(Write)]
  /\ sent \in [Players -> Nat] /\ \A p \in Players : sent[p] <= Len(queue[p])
  /\ calls \subseteq Call
  /\ ud \in [Players -> TeamIDs]
  /\ screen \in [Players -> Screens]

(* getTeam on a stored id always finds a document, though the id may reach *)
(* a phone through another player's document: the callers that cast the    *)
(* team's fields without a test (addTeamMember, deleteTeamMember) trap     *)
(* only when no team is stored.                                            *)
StoredTeamExists ==
  \A p \in Players : ud[p] # NoTeam => ud[p] \in Teams /\ SeenManager(p, ud[p]) # NoPlayer

(* LedTo[p]: the players the codes p was told lead to.  Uninvited: players  *)
(* no code told leads to.  Sole[m]: m, and the players without a team of    *)
(* their own founding whom no code told to another leads to, and whose      *)
(* documents were there before (a sign-up that is sent again would empty    *)
(* the team of a player added in the meantime).                             *)
LedTo     == [p \in Players |-> {q \in Players : \E w \in Invites[p] : Code[q] = Code[w]}]
Uninvited == {q \in Players : \A p \in Players : q \notin LedTo[p]}
Sole      == [m \in Players |->
               {q \in Registered \cup {m} : /\ q \notin Founders \ {m}
                                          /\ \A p \in Players \ {m} : q \notin LedTo[p]}]

(* A manager nobody can add keeps the team he founded: no late answer,     *)
(* relaunch or removal takes it from his document or from his phone.       *)
ManagerKeepsTeam ==
  \A m \in Uninvited, t \in Teams :
    SeenManager(m, t) = m => ud[m] = t /\ SeenTeam(m, m) = t

(* The two records of membership are written by two updates, each after a  *)
(* check that is old by then.  A player only such a manager can add is     *)
(* nevertheless, as that manager sees it, listed by a team exactly when it *)
(* is his: once the writes have arrived, the documents agree.              *)
RosterAgrees ==
  \A m \in Uninvited \cap Founders : \A q \in Sole[m] :
    \A t \in Teams : SeenTeam(m, q) = t <=> SeenMember(m, t, q)

(* TeamViewController.swift line 137: "your desired player's unique add     *)
(* code" (refuted where two players draw one code: the first found joins).  *)
OnlyInvited ==
  \A t \in Teams : \A q \in team[t].members :
    q = team[t].manager \/ q \in Invites[team[t].manager]
=============================================================================
