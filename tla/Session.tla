-------------------------------- MODULE Session --------------------------------
(***************************************************************************)
(* Who is signed in on one phone, and which team it stores: LoginView-     *)
(* Controller, SignUpViewController, the sign-out of ProfileView-          *)
(* Controller, and storeTeamIDUserDefaults (dbTeam.swift).                 *)
(*                                                                         *)
(* FirebaseAuth remembers the user on disk as soon as it grants a sign-in; *)
(* the completion block that stores the user's id runs later on the main   *)
(* queue, in the order of the grants.  The user's team is asked for then,  *)
(* and the answer is stored whenever it comes, whoever is signed in.  A    *)
(* kill loses requests, blocks and answers, not what is on disk.           *)
(*                                                                         *)
(* Several players may use the phone.  Reads are answered, however late;   *)
(* a sign-in that is refused shows an alert and is left out.               *)
(***************************************************************************)
EXTENDS Naturals, Sequences, FiniteSets

CONSTANTS
  Players,
  Nobody,      \* no user: FirebaseAuth's nil, the empty udUserID
  Teams,
  NoTeam,      \* the empty string stored as udTeamID
  NotStored,   \* udTeamID has never been stored on this phone
  Registered,  \* players who have signed up elsewhere before
  MaxSignings, \* bound: requests and blocks of sign-ins under way at a click
  MaxAsked     \* bound: answers of storeTeamID a player may have outstanding

TeamIDs == Teams \cup {NoTeam}

ASSUME SessionAssumption ==
  /\ Nobody \notin Players
  /\ NotStored \notin TeamIDs
  /\ Registered \subseteq Players
  /\ MaxSignings \in Nat /\ MaxAsked \in Nat \ {0}

VARIABLES
  account,  \* account[p]: p has none, a FirebaseAuth login only, or a document
  teamOf,   \* teamOf[p]: teamID in p's document
  auth,     \* FirebaseAuth's current user
  udUser,   \* udUserID and udTeamID of the phone's UserDefaults
  udTeam,
  place,    \* what the phone shows
  requests, \* signIn and createUser requests under way
  granted,  \* completion blocks FirebaseAuth has put on the main queue
  asked,    \* asked[p]: answers of storeTeamIDUserDefaults still to come
  follows,  \* the player the Team tab listens to
  source,   \* history: the player whose team udTeam was taken from
  outlived  \* history: players still to be answered or listened to when another took over

authVars == <<account, auth, requests, granted>>
late == <<asked, follows, source, outlived>>
vars == <<authVars, teamOf, udUser, udTeam, place, late>>

Places == {"launch", "login", "signup", "inside"}

Block == [kind : {"signIn", "create"}, player : Players]

Init ==
  /\ account  = [p \in Players |-> IF p \in Registered THEN "player" ELSE "none"]
  /\ teamOf   \in {f \in [Players -> TeamIDs] : \A p \in Players \ Registered : f[p] = NoTeam}
  /\ auth = Nobody /\ udUser = Nobody /\ udTeam = NotStored
  /\ place = "launch"
  /\ requests = {} /\ granted = <<>>
  /\ asked = [p \in Players |-> 0]
  /\ follows = Nobody /\ source = Nobody /\ outlived = {}

-----------------------------------------------------------------------------
Owed == {p \in Players : asked[p] > 0 \/ p = follows}

(* p's id is stored and p's team asked for. *)
TakeOver(p) ==
  /\ asked[p] < MaxAsked
  /\ udUser' = p
  /\ asked' = [asked EXCEPT ![p] = @ + 1]
  /\ outlived' = IF udUser = p THEN outlived ELSE outlived \cup Owed

(* Mutant of CheckSession: a remembered user's team is not asked for. *)
CheckSessionOnly ==
  /\ place = "launch"
  /\ \/ /\ auth = Nobody /\ place' = "login" /\ UNCHANGED udUser
     \/ /\ auth # Nobody /\ place' = "inside" /\ udUser' = auth
  /\ UNCHANGED <<authVars, teamOf, udTeam, late>>

(* Mutant of CheckSession: the id stored last is taken for the user's. *)
CheckSessionBlind ==
  /\ place = "launch"
  /\ \/ auth = Nobody /\ place' = "login" /\ UNCHANGED asked
     \/ auth # Nobody /\ place' = "inside" /\ asked[auth] < MaxAsked
        /\ asked' = [asked EXCEPT ![auth] = @ + 1]
  /\ UNCHANGED <<authVars, teamOf, udUser, udTeam, follows, source, outlived>>

(* Login appears, at launch or later: firebaseCheckSession. *)
CheckSession ==
  /\ place = "launch"
  /\ \/ /\ auth = Nobody /\ place' = "login"
        /\ UNCHANGED <<udUser, asked, outlived>>
     \/ /\ auth # Nobody /\ place' = "inside"
        /\ TakeOver(auth)
  /\ UNCHANGED <<authVars, teamOf, udTeam, follows, source>>

(* From Login to SignUp, and to a new Login that appears. *)
ToSignUp == place = "login" /\ place' = "signup"
            /\ UNCHANGED <<authVars, teamOf, udUser, udTeam, late>>

ToLogin == place = "signup" /\ place' = "launch"
           /\ UNCHANGED <<authVars, teamOf, udUser, udTeam, late>>

(* Bound: a user clicks only while so much is under way. *)
Ready == Cardinality(requests) + Len(granted) < MaxSignings

Request(kind, p) == [kind |-> kind, player |-> p]

LoginClick(p) ==
  /\ place = "login" /\ account[p] # "none" /\ Ready
  /\ requests' = requests \cup {Request("signIn", p)}
  /\ UNCHANGED <<account, auth, granted, teamOf, udUser, udTeam, place, late>>

SignUpClick(p) ==
  /\ place = "signup" /\ account[p] = "none" /\ Ready
  /\ requests' = requests \cup {Request("create", p)}
  /\ UNCHANGED <<account, auth, granted, teamOf, udUser, udTeam, place, late>>

(* FirebaseAuth grants: the user is remembered, the block is queued. *)
Grant(c) ==
  /\ c \in requests
  /\ requests' = requests \ {c}
  /\ auth' = c.player
  /\ granted' = Append(granted, c)

SignInGranted(p) ==
  /\ Grant(Request("signIn", p))
  /\ UNCHANGED <<account, teamOf, udUser, udTeam, place, late>>

CreateGranted(p) ==
  /\ Grant(Request("create", p))
  /\ account' = [account EXCEPT ![p] = "login"]
  /\ UNCHANGED <<teamOf, udUser, udTeam, place, late>>

(* A block's segue shows the tabs, or nothing when its screen has been left. *)
Segue == place' \in {"inside", place}

(* The block of firebaseLogin *)
SignInDone(p) ==
  /\ granted # <<>> /\ Head(granted) = Request("signIn", p)
  /\ granted' = Tail(granted)
  /\ TakeOver(p)
  /\ Segue
  /\ UNCHANGED <<account, auth, requests, teamOf, udTeam, follows, source>>

(* Mutant of CreateDone: the stored team is left as it was. *)
CreateDoneKeeps(p) ==
  /\ granted # <<>> /\ Head(granted) = Request("create", p)
  /\ granted' = Tail(granted)
  /\ account' = [account EXCEPT ![p] = "player"]
  /\ teamOf' = [teamOf EXCEPT ![p] = NoTeam]
  /\ udUser' = p
  /\ outlived' = IF udUser = p THEN outlived ELSE outlived \cup Owed
  /\ Segue
  /\ UNCHANGED <<auth, requests, asked, follows, udTeam, source>>

(* The block of firebaseSignup: the player's document, and no team. *)
CreateDone(p) ==
  /\ granted # <<>> /\ Head(granted) = Request("create", p)
  /\ granted' = Tail(granted)
  /\ account' = [account EXCEPT ![p] = "player"]
  /\ teamOf'  = [teamOf EXCEPT ![p] = NoTeam]
  /\ udUser' = p /\ udTeam' = NoTeam /\ source' = Nobody
  /\ outlived' = IF udUser = p THEN outlived ELSE outlived \cup Owed
  /\ Segue
  /\ UNCHANGED <<auth, requests, asked, follows>>

(* The answer to storeTeamIDUserDefaults: nothing is stored for a player   *)
(* without a document.                                                     *)
StoreTeam(p) ==
  /\ asked[p] > 0
  /\ asked' = [asked EXCEPT ![p] = @ - 1]
  /\ IF account[p] = "player" THEN udTeam' = teamOf[p] /\ source' = p
                              ELSE UNCHANGED <<udTeam, source>>
  /\ UNCHANGED <<authVars, teamOf, udUser, place, follows, outlived>>

(* The Team tab's screens listen to the player signed in when they appear, *)
(* and unwrap the stored team and the player's document (which may trap).  *)
OpenTeamTab ==
  /\ place = "inside" /\ account[udUser] = "player" /\ udTeam # NotStored
  /\ follows' = udUser
  /\ UNCHANGED <<authVars, teamOf, udUser, udTeam, place, asked, source, outlived>>

HearTeam ==
  /\ follows # Nobody
  /\ udTeam' = teamOf[follows] /\ source' = follows
  /\ UNCHANGED <<authVars, teamOf, udUser, place, asked, follows, outlived>>

(* A player joins, founds or leaves a team, wherever that happens. *)
TeamMoves(p) ==
  /\ account[p] = "player"
  /\ \E t \in TeamIDs \ {teamOf[p]} : teamOf' = [teamOf EXCEPT ![p] = t]
  /\ UNCHANGED <<authVars, udUser, udTeam, place, late>>

(* onSignoutClick: both stored ids are emptied. *)
SignOut ==
  /\ place = "inside" /\ place' = "launch"
  /\ auth' = Nobody /\ udUser' = Nobody
  /\ udTeam' = NoTeam /\ source' = Nobody
  /\ follows' = Nobody /\ outlived' = outlived \cup Owed
  /\ UNCHANGED <<account, requests, granted, teamOf, asked>>

(* signOut throws: the user is remembered, and Login finds him again. *)
SignOutFails ==
  /\ place = "inside" /\ place' = "launch" /\ follows' = Nobody
  /\ UNCHANGED <<authVars, teamOf, udUser, udTeam, asked, source, outlived>>

(* Mutant of Kill: the stored team is held in memory. *)
KillForgets ==
  /\ place' = "launch" /\ udTeam' = NotStored
  /\ requests' = {} /\ granted' = <<>>
  /\ asked' = [p \in Players |-> 0] /\ follows' = Nobody
  /\ UNCHANGED <<account, teamOf, auth, udUser, source, outlived>>

(* A kill, or a trap: what is only in memory is gone. *)
Kill ==
  /\ place' = "launch"
  /\ requests' = {} /\ granted' = <<>>
  /\ asked' = [p \in Players |-> 0] /\ follows' = Nobody
  /\ UNCHANGED <<account, teamOf, auth, udUser, udTeam, source, outlived>>

-----------------------------------------------------------------------------
Next ==
  \/ CheckSession \/ ToSignUp \/ ToLogin \/ SignOut \/ SignOutFails \/ Kill
  \/ OpenTeamTab \/ HearTeam
  \/ \E p \in Players :
       \/ LoginClick(p) \/ SignUpClick(p) \/ SignInGranted(p) \/ CreateGranted(p)
       \/ SignInDone(p) \/ CreateDone(p) \/ StoreTeam(p) \/ TeamMoves(p)

Spec == Init /\ [][Next]_vars
-----------------------------------------------------------------------------
(* Properties *)

(* Accounts, requests, blocks and stored ids are well formed, and the tabs *)
(* are only shown to a player whose id is stored.                          *)
TypeOK ==
  /\ account \in [Players -> {"none", "login", "player"}]
  /\ teamOf \in [Players -> TeamIDs]
  /\ auth \in Players \cup {Nobody} /\ udUser \in Players \cup {Nobody}
  /\ udTeam \in TeamIDs \cup {NotStored}
  /\ place \in Places
  /\ requests \subseteq Block /\ granted \in Seq(Block)
  /\ asked \in [Players -> 0 .. MaxAsked]
  /\ {follows, source} \subseteq Players \cup {Nobody} /\ outlived \subseteq Players
  /\ place = "inside" => udUser \in Players

(* Every screen unwraps udTeamID.  On a phone that has never stored one it *)
(* is on its way, unless the sign-up of the player was cut between the     *)
(* account and the document: no order of grants, blocks, answers, kills    *)
(* and sign-outs leaves any other player without a stored id for good.     *)
StoredUnlessCut ==
  place = "inside" /\ udTeam = NotStored => asked[udUser] > 0 \/ account[udUser] = "login"

(* An answer is stored whenever it comes.  The team of another player than *)
(* the one signed in is stored only while the latter's own answer is on    *)
(* its way, or because the former was still to be answered, or listened to *)
(* by the Team tab, when the latter took over.                             *)
OthersOnlyLate ==
  place = "inside" /\ source \notin {Nobody, udUser} =>
    asked[udUser] > 0 \/ account[udUser] = "login" \/ source \in outlived

(* Whatever the order of grants, blocks, answers, kills and sign-outs, the *)
(* other screens see no more of it than StoredTeam.tla says: a team is     *)
(* stored at any time, leaving empties it at most, and once one has been   *)
(* stored the phone is never without.                                      *)
Stored == INSTANCE StoredTeam WITH inside <- (place = "inside")

StoredSpec == Stored!Spec
=============================================================================
