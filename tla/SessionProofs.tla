------------------------------ MODULE SessionProofs ------------------------------
(***************************************************************************)
(* Theorems about Session.tla, for any number of players on the phone and  *)
(* any teams: types, the stored id every screen unwraps, whose team it is, *)
(* and that the other screens see no more of it than StoredTeam.tla says.  *)
(* They rest on SessionAssumption only; the bounds on what is under way    *)
(* may have any value.  And a theorem about AddCode.tla: the code a player *)
(* is given at sign-up.                                                    *)
(***************************************************************************)
EXTENDS Session, AddCode, SequenceTheorems, TLAPS

-----------------------------------------------------------------------------
(* The invariant *)

(* Whoever is remembered, stored, asked for or about to come in has an     *)
(* account, and one who is to be given an account has none: so no account  *)
(* ever goes back from a player's document to a login.                     *)
Known(p) == account[p] # "none"

Accounts ==
  /\ auth \in Players => Known(auth)
  /\ udUser \in Players => Known(udUser)
  /\ \A p \in Players : asked[p] > 0 => Known(p)
  /\ \A p \in Players : Request("create", p) \in requests => ~Known(p)
  /\ \A p \in Players : Request("signIn", p) \in requests => Known(p)
  /\ \A i \in DOMAIN granted : Known(granted[i].player)

(* Whoever is still to be answered or listened to is the user, or was when *)
(* another took over.                                                      *)
Traced == \A p \in Owed : p = udUser \/ p \in outlived

Inv == TypeOK /\ Accounts /\ Traced /\ StoredUnlessCut /\ OthersOnlyLate

-----------------------------------------------------------------------------
LEMMA GrantedAppend ==
  ASSUME TypeOK, NEW b \in Block, granted' = Append(granted, b)
  PROVE  /\ granted' \in Seq(Block)
         /\ \A i \in DOMAIN granted' :
              granted'[i] = b \/ \E j \in DOMAIN granted : granted'[i] = granted[j]
<1>1. granted \in Seq(Block)
  BY DEF TypeOK
<1>2. /\ granted' \in Seq(Block) /\ Len(granted') = Len(granted) + 1
      /\ \A i \in 1 .. Len(granted) : granted'[i] = granted[i]
      /\ granted'[Len(granted) + 1] = b
  BY <1>1, AppendProperties
<1>3. Len(granted) \in Nat /\ DOMAIN granted = 1 .. Len(granted)
      /\ DOMAIN granted' = 1 .. Len(granted) + 1
  BY <1>1, <1>2, LenProperties
<1> QED
  BY <1>2, <1>3

LEMMA GrantedTail ==
  ASSUME TypeOK, granted # <<>>, granted' = Tail(granted)
  PROVE  /\ granted' \in Seq(Block)
         /\ Head(granted) \in Block
         /\ \E j \in DOMAIN granted : Head(granted) = granted[j]
         /\ \A i \in DOMAIN granted' : \E j \in DOMAIN granted : granted'[i] = granted[j]
<1>1. granted \in Seq(Block)
  BY DEF TypeOK
<1>2. /\ Head(granted) \in Block /\ Head(granted) = granted[1]
      /\ granted' \in Seq(Block) /\ Len(granted') = Len(granted) - 1
      /\ \A i \in 1 .. Len(granted') : granted'[i] = granted[i + 1]
      /\ Len(granted) \in Nat /\ Len(granted) >= 1
  BY <1>1, HeadTailProperties, LenProperties, EmptySeq
<1>3. DOMAIN granted = 1 .. Len(granted) /\ DOMAIN granted' = 1 .. Len(granted) - 1
  BY <1>1, <1>2, LenProperties
<1> QED
  BY <1>2, <1>3

LEMMA GrantedType ==
  ASSUME TypeOK, NEW i \in DOMAIN granted
  PROVE  granted[i] \in Block /\ granted[i].player \in Players
<1>1. granted[i] \in Block
  BY LenProperties, ElementOfSeq DEF TypeOK
<1> QED
  BY <1>1 DEF Block

LEMMA RequestTypes ==
  ASSUME NEW p \in Players
  PROVE  /\ Request("signIn", p) \in Block /\ Request("create", p) \in Block
         /\ Request("signIn", p).player = p /\ Request("create", p).player = p
         /\ \A q \in Players : /\ Request("signIn", p) # Request("create", q)
                               /\ Request("create", p) = Request("create", q) => p = q
                               /\ Request("signIn", p) = Request("signIn", q) => p = q
  BY DEF Request, Block

LEMMA InitInv == Init => Inv
<1> SUFFICES ASSUME Init PROVE Inv
  OBVIOUS
<1> USE DEF Init
<1>1. TypeOK
  <2>1. granted \in Seq(Block)
    BY EmptySeq
  <2> QED
    BY <2>1, SessionAssumption DEF TypeOK, Places
<1>2. Accounts
  BY SessionAssumption DEF Accounts, Known
<1>3. Traced
  BY SessionAssumption DEF Traced, Owed
<1>4. StoredUnlessCut /\ OthersOnlyLate
  BY DEF StoredUnlessCut, OthersOnlyLate
<1> QED
  BY <1>1, <1>2, <1>3, <1>4 DEF Inv

-----------------------------------------------------------------------------
(* The steps *)

(* A player takes over: his team is on its way, whoever's is stored. *)
LEMMA TakeOverKeeps ==
  ASSUME Inv, NEW p \in Players, Known(p), TakeOver(p),
         account' = account, teamOf' = teamOf, udTeam' = udTeam,
         follows' = follows, source' = source,
         auth' = auth, requests' = requests, place' \in Places,
         granted' \in Seq(Block),
         \A i \in DOMAIN granted' : \E j \in DOMAIN granted : granted'[i] = granted[j]
  PROVE  Inv'
<1>1. /\ udUser' = p
      /\ asked' = [asked EXCEPT ![p] = @ + 1] /\ asked[p] < MaxAsked
      /\ outlived' = IF udUser = p THEN outlived ELSE outlived \cup Owed
  BY DEF TakeOver
<1>2. asked \in [Players -> 0 .. MaxAsked] /\ MaxAsked \in Nat
  BY SessionAssumption DEF Inv, TypeOK
<1>3. /\ asked'[p] = asked[p] + 1 /\ asked'[p] > 0
      /\ asked' \in [Players -> 0 .. MaxAsked]
      /\ \A q \in Players \ {p} : asked'[q] = asked[q]
  BY <1>1, <1>2
<1>4. TypeOK'
  <2>1. outlived' \subseteq Players
    BY <1>1 DEF Inv, TypeOK, Owed
  <2> QED
    BY <1>1, <1>3, <2>1 DEF Inv, TypeOK
<1>5. Accounts'
  <2>1. \A q \in Players : asked'[q] > 0 => Known(q)'
    BY <1>3 DEF Inv, Accounts, Known
  <2> QED
    BY <1>1, <2>1 DEF Inv, Accounts, Known, Request
<1>6. Traced'
  BY <1>1, <1>3 DEF Inv, Traced, Owed
<1>7. StoredUnlessCut' /\ OthersOnlyLate'
  BY <1>1, <1>3 DEF StoredUnlessCut, OthersOnlyLate
<1> QED
  BY <1>4, <1>5, <1>6, <1>7 DEF Inv

LEMMA CheckSessionKeeps ==
  ASSUME Inv, CheckSession
  PROVE  Inv'
<1>1. CASE auth = Nobody /\ place' = "login" /\ UNCHANGED <<udUser, asked, outlived>>
  BY <1>1 DEF CheckSession, Inv, TypeOK, Accounts, Known, Traced, Owed, StoredUnlessCut,
              OthersOnlyLate, Places, authVars, Request
<1>2. CASE auth # Nobody /\ place' = "inside" /\ TakeOver(auth)
  <2>1. auth \in Players /\ Known(auth)
    BY <1>2 DEF Inv, TypeOK, Accounts
  <2>2. /\ account' = account /\ teamOf' = teamOf /\ udTeam' = udTeam
        /\ follows' = follows /\ source' = source
        /\ auth' = auth /\ requests' = requests /\ granted' = granted
    BY DEF CheckSession, authVars
  <2>3. granted' \in Seq(Block) /\ place' \in Places
    BY <1>2, <2>2 DEF Inv, TypeOK, Places
  <2> QED
    BY <1>2, <2>1, <2>2, <2>3, TakeOverKeeps
<1> QED
  BY <1>1, <1>2 DEF CheckSession

LEMMA SignInDoneKeeps ==
  ASSUME Inv, NEW p \in Players, SignInDone(p)
  PROVE  Inv'
<1>1. /\ granted # <<>> /\ Head(granted) = Request("signIn", p)
      /\ granted' = Tail(granted) /\ TakeOver(p) /\ place' \in {"inside", place}
      /\ account' = account /\ teamOf' = teamOf /\ udTeam' = udTeam
      /\ follows' = follows /\ source' = source
      /\ auth' = auth /\ requests' = requests
  BY DEF SignInDone, Segue
<1>2. /\ granted' \in Seq(Block)
      /\ \E j \in DOMAIN granted : Head(granted) = granted[j]
      /\ \A i \in DOMAIN granted' : \E j \in DOMAIN granted : granted'[i] = granted[j]
  BY <1>1, GrantedTail DEF Inv
<1>3. Known(p)
  BY <1>1, <1>2, RequestTypes DEF Inv, Accounts
<1>4. place' \in Places
  BY <1>1 DEF Inv, TypeOK, Places
<1> QED
  BY <1>1, <1>2, <1>3, <1>4, TakeOverKeeps

LEMMA CreateDoneInv ==
  ASSUME Inv, NEW p \in Players, CreateDone(p)
  PROVE  Inv'
<1>1. /\ granted # <<>> /\ Head(granted) = Request("create", p)
      /\ granted' = Tail(granted)
      /\ account' = [account EXCEPT ![p] = "player"]
      /\ teamOf'  = [teamOf EXCEPT ![p] = NoTeam]
      /\ udUser' = p /\ udTeam' = NoTeam /\ source' = Nobody
      /\ outlived' = IF udUser = p THEN outlived ELSE outlived \cup Owed
      /\ place' \in {"inside", place}
      /\ UNCHANGED <<auth, requests, asked, follows>>
  BY DEF CreateDone, Segue
<1>2. /\ granted' \in Seq(Block)
      /\ \E j \in DOMAIN granted : Head(granted) = granted[j]
      /\ \A i \in DOMAIN granted' : \E j \in DOMAIN granted : granted'[i] = granted[j]
  BY <1>1, GrantedTail DEF Inv
<1>3. Known(p)
  BY <1>1, <1>2, RequestTypes DEF Inv, Accounts
<1>4. \A q \in Players : Known(q)' <=> Known(q)
  BY <1>1, <1>3 DEF Inv, TypeOK, Known
<1>5. TypeOK'
  <2>1. outlived' \subseteq Players
    BY <1>1 DEF Inv, TypeOK, Owed
  <2>2. place' \in Places
    BY <1>1 DEF Inv, TypeOK, Places
  <2> QED
    BY <1>1, <1>2, <2>1, <2>2, SessionAssumption DEF Inv, TypeOK, TeamIDs
<1>6. Accounts'
  <2>1. \A i \in DOMAIN granted' : Known(granted[i].player)'
    <3>1. \A j \in DOMAIN granted : granted[j].player \in Players /\ Known(granted[j].player)
      BY GrantedType DEF Inv, Accounts
    <3> QED
      BY <1>2, <1>4, <3>1 DEF Known
  <2> QED
    BY <1>1, <1>3, <1>4, <2>1 DEF Inv, Accounts, Known, Request
<1>7. Traced'
  BY <1>1 DEF Inv, Traced, Owed
<1>8. StoredUnlessCut' /\ OthersOnlyLate'
  BY <1>1, SessionAssumption DEF StoredUnlessCut, OthersOnlyLate, TeamIDs
<1> QED
  BY <1>5, <1>6, <1>7, <1>8 DEF Inv

LEMMA ClickKeeps ==
  ASSUME Inv, NEW p \in Players, LoginClick(p) \/ SignUpClick(p)
  PROVE  Inv'
<1>1. PICK c \in {Request("signIn", p), Request("create", p)} :
        /\ requests' = requests \cup {c}
        /\ c = Request("signIn", p) => Known(p)
        /\ c = Request("create", p) => ~Known(p)
  BY RequestTypes DEF LoginClick, SignUpClick, Known
<1>2. UNCHANGED <<account, auth, granted, teamOf, udUser, udTeam, place, asked, follows,
                  source, outlived>>
  BY DEF LoginClick, SignUpClick, late
<1>3. TypeOK'
  BY <1>1, <1>2, RequestTypes DEF Inv, TypeOK
<1>4. Accounts'
  <2>1. \A q \in Players : Known(q)' <=> Known(q)
    BY <1>2 DEF Known
  <2>2. ASSUME NEW q \in Players, Request("create", q) \in requests'
        PROVE  ~Known(q)
    BY <1>1, <2>2, RequestTypes DEF Inv, Accounts
  <2>3. ASSUME NEW q \in Players, Request("signIn", q) \in requests'
        PROVE  Known(q)
    BY <1>1, <2>3, RequestTypes DEF Inv, Accounts
  <2> QED
    BY <1>2, <2>1, <2>2, <2>3 DEF Inv, Accounts, Known, Request
<1>5. Traced' /\ StoredUnlessCut' /\ OthersOnlyLate'
  BY <1>2 DEF Inv, Traced, Owed, StoredUnlessCut, OthersOnlyLate
<1> QED
  BY <1>3, <1>4, <1>5 DEF Inv

LEMMA GrantKeeps ==
  ASSUME Inv, NEW p \in Players, SignInGranted(p) \/ CreateGranted(p)
  PROVE  Inv'
<1>1. PICK c \in {Request("signIn", p), Request("create", p)} :
        /\ c \in requests /\ requests' = requests \ {c}
        /\ auth' = p /\ granted' = Append(granted, c)
        /\ \/ c = Request("signIn", p) /\ account' = account
           \/ c = Request("create", p) /\ account' = [account EXCEPT ![p] = "login"]
  BY RequestTypes DEF SignInGranted, CreateGranted, Grant
<1>2. UNCHANGED <<teamOf, udUser, udTeam, place, asked, follows, source, outlived>>
  BY DEF SignInGranted, CreateGranted, late
<1>3. c \in Block /\ c.player = p
  BY <1>1, RequestTypes
<1>4. /\ granted' \in Seq(Block)
      /\ \A i \in DOMAIN granted' :
           granted'[i] = c \/ \E j \in DOMAIN granted : granted'[i] = granted[j]
  BY <1>1, <1>3, GrantedAppend DEF Inv
(* Nobody but p is told apart by the new account. *)
<1>5. /\ \A q \in Players \ {p} : account'[q] = account[q]
      /\ Known(p)' /\ (Known(p) => account'[p] = account[p])
  <2>1. c = Request("signIn", p) => Known(p)
    BY <1>1 DEF Inv, Accounts
  <2>2. c = Request("create", p) => ~Known(p)
    BY <1>1 DEF Inv, Accounts
  <2> QED
    BY <1>1, <2>1, <2>2 DEF Inv, TypeOK, Known
<1>6. TypeOK'
  BY <1>1, <1>2, <1>4 DEF Inv, TypeOK
<1>7. Accounts'
  <2>1. \A q \in Players : Known(q) => Known(q)'
    BY <1>5 DEF Known
  <2>2. \A q \in Players : q # p => (Known(q)' <=> Known(q))
    BY <1>5 DEF Known
  <2>3. ASSUME NEW i \in DOMAIN granted' PROVE Known(granted[i].player)'
    <3>1. CASE granted'[i] = c
      BY <1>3, <1>5, <3>1 DEF Known
    <3>2. CASE \E j \in DOMAIN granted : granted'[i] = granted[j]
      <4>1. PICK j \in DOMAIN granted : granted'[i] = granted[j]
        BY <3>2
      <4>2. granted[j].player \in Players /\ Known(granted[j].player)
        BY GrantedType DEF Inv, Accounts
      <4> QED
        BY <2>1, <4>1, <4>2 DEF Known
    <3> QED
      BY <1>4, <3>1, <3>2
  <2>4. ASSUME NEW q \in Players, Request("create", q) \in requests'
        PROVE  ~Known(q)'
    <3>1. ~Known(q) /\ Request("create", q) \in requests
      BY <1>1, <2>4 DEF Inv, Accounts
    <3>2. q # p
      <4>1. CASE c = Request("create", p)
        BY <1>1, <2>4, <4>1
      <4>2. CASE c = Request("signIn", p)
        BY <1>1, <3>1, <4>2 DEF Inv, Accounts
      <4> QED
        BY <4>1, <4>2
    <3> QED
      BY <2>2, <3>1, <3>2
  <2>5. ASSUME NEW q \in Players, Request("signIn", q) \in requests'
        PROVE  Known(q)'
    BY <1>1, <2>1, <2>5 DEF Inv, Accounts
  <2> QED
    BY <1>1, <1>2, <1>5, <2>1, <2>3, <2>4, <2>5 DEF Inv, Accounts, Known, Request
<1>8. Traced'
  BY <1>2 DEF Inv, Traced, Owed
<1>9. StoredUnlessCut' /\ OthersOnlyLate'
  <2>1. udUser \in Players => account'[udUser] = account[udUser]
    BY <1>5 DEF Inv, Accounts
  <2> QED
    BY <1>2, <2>1 DEF Inv, TypeOK, StoredUnlessCut, OthersOnlyLate
<1> QED
  BY <1>6, <1>7, <1>8, <1>9 DEF Inv

LEMMA StoreTeamKeeps ==
  ASSUME Inv, NEW p \in Players, StoreTeam(p)
  PROVE  Inv'
<1>1. /\ asked[p] > 0 /\ asked' = [asked EXCEPT ![p] = @ - 1]
      /\ \/ account[p] = "player" /\ udTeam' = teamOf[p] /\ source' = p
         \/ account[p] # "player" /\ udTeam' = udTeam /\ source' = source
      /\ UNCHANGED <<account, auth, requests, granted, teamOf, udUser, place, follows, outlived>>
  BY DEF StoreTeam, authVars
<1>2. asked \in [Players -> 0 .. MaxAsked] /\ MaxAsked \in Nat
  BY SessionAssumption DEF Inv, TypeOK
<1>3. /\ asked'[p] = asked[p] - 1 /\ asked' \in [Players -> 0 .. MaxAsked]
      /\ \A q \in Players \ {p} : asked'[q] = asked[q]
      /\ \A q \in Players : asked'[q] > 0 => asked[q] > 0
  BY <1>1, <1>2
<1>4. TypeOK'
  BY <1>1, <1>3 DEF Inv, TypeOK
<1>5. Accounts'
  BY <1>1, <1>3 DEF Inv, Accounts, Known, Request
<1>6. Traced'
  BY <1>1, <1>3 DEF Inv, Traced, Owed
(* Nothing is stored for a player who has a login only. *)
<1>7. account[p] \in {"login", "player"}
  BY <1>1 DEF Inv, TypeOK, Accounts, Known
<1>8. StoredUnlessCut'
  <2>1. account[p] = "player" => udTeam' # NotStored
    BY <1>1, SessionAssumption DEF Inv, TypeOK
  <2> QED
    BY <1>1, <1>3, <1>7, <2>1 DEF Inv, TypeOK, StoredUnlessCut
<1>9. OthersOnlyLate'
  <2>1. p = udUser \/ p \in outlived
    BY <1>1 DEF Inv, Traced, Owed
  <2> QED
    BY <1>1, <1>3, <1>7, <2>1 DEF Inv, TypeOK, OthersOnlyLate
<1> QED
  BY <1>4, <1>5, <1>6, <1>8, <1>9 DEF Inv

(* The Team tab: whom it listens to, and what it hears. *)
LEMMA TeamTabKeeps ==
  ASSUME Inv, OpenTeamTab \/ HearTeam
  PROVE  Inv'
<1>1. UNCHANGED <<account, auth, requests, granted, teamOf, udUser, place, asked, outlived>>
  BY DEF OpenTeamTab, HearTeam, authVars
<1>2. CASE OpenTeamTab
  <2>1. follows' = udUser /\ udTeam' = udTeam /\ source' = source /\ place = "inside"
    BY <1>2 DEF OpenTeamTab
  <2> QED
    BY <1>1, <2>1 DEF Inv, TypeOK, Accounts, Known, Traced, Owed, StoredUnlessCut,
                      OthersOnlyLate, Request
<1>3. CASE HearTeam
  <2>1. /\ follows \in Players /\ udTeam' = teamOf[follows] /\ source' = follows
        /\ follows' = follows
    BY <1>3 DEF HearTeam, Inv, TypeOK
  <2>2. udTeam' \in TeamIDs /\ udTeam' # NotStored
    BY <2>1, SessionAssumption DEF Inv, TypeOK
  <2>3. follows = udUser \/ follows \in outlived
    BY <2>1 DEF Inv, Traced, Owed
  <2>4. TypeOK'
    BY <1>1, <2>1, <2>2 DEF Inv, TypeOK
  <2>5. Accounts' /\ Traced'
    BY <1>1, <2>1 DEF Inv, Accounts, Known, Traced, Owed, Request
  <2>6. StoredUnlessCut' /\ OthersOnlyLate'
    BY <1>1, <2>1, <2>2, <2>3 DEF StoredUnlessCut, OthersOnlyLate
  <2> QED
    BY <2>4, <2>5, <2>6 DEF Inv
<1> QED
  BY <1>2, <1>3

LEMMA TeamMovesKeeps ==
  ASSUME Inv, NEW p \in Players, TeamMoves(p)
  PROVE  Inv'
<1>1. /\ teamOf' \in [Players -> TeamIDs]
      /\ UNCHANGED <<account, auth, requests, granted, udUser, udTeam, place, asked, follows,
                     source, outlived>>
  BY DEF Inv, TypeOK, TeamMoves, authVars, late
<1> QED
  BY <1>1 DEF Inv, TypeOK, Accounts, Known, Traced, Owed, StoredUnlessCut, OthersOnlyLate,
              Request

(* Steps after which no tab is shown and nobody listened to. *)
LEMMA OutsideKeeps ==
  ASSUME Inv, ToSignUp \/ ToLogin \/ SignOut \/ SignOutFails \/ Kill
  PROVE  Inv'
<1>1. place' # "inside" /\ place' \in Places
  BY DEF ToSignUp, ToLogin, SignOut, SignOutFails, Kill, Places
<1>2. StoredUnlessCut' /\ OthersOnlyLate'
  BY <1>1 DEF StoredUnlessCut, OthersOnlyLate
<1>3. CASE ToSignUp \/ ToLogin
  BY <1>1, <1>2, <1>3 DEF ToSignUp, ToLogin, authVars, late, Inv, TypeOK, Accounts, Known,
                          Traced, Owed, Request
<1>4. CASE SignOut
  <2>1. /\ auth' = Nobody /\ udUser' = Nobody /\ udTeam' = NoTeam /\ source' = Nobody
        /\ follows' = Nobody /\ outlived' = outlived \cup Owed
        /\ UNCHANGED <<account, requests, granted, teamOf, asked>>
    BY <1>4 DEF SignOut
  <2>2. TypeOK'
    BY <1>1, <2>1 DEF Inv, TypeOK, Owed, TeamIDs
  <2>3. Accounts'
    BY <2>1, SessionAssumption DEF Inv, Accounts, Known, Request
  <2>4. Traced'
    BY <2>1, SessionAssumption DEF Inv, Traced, Owed
  <2> QED
    BY <1>2, <2>2, <2>3, <2>4 DEF Inv
<1>5. CASE SignOutFails
  <2>1. /\ follows' = Nobody
        /\ UNCHANGED <<account, auth, requests, granted, teamOf, udUser, udTeam, asked, source,
                       outlived>>
    BY <1>5 DEF SignOutFails, authVars
  <2>2. Traced'
    BY <2>1, SessionAssumption DEF Inv, Traced, Owed
  <2> QED
    BY <1>1, <1>2, <2>1, <2>2 DEF Inv, TypeOK, Accounts, Known, Request
<1>6. CASE Kill
  <2>1. /\ requests' = {} /\ granted' = <<>>
        /\ asked' = [p \in Players |-> 0] /\ follows' = Nobody
        /\ UNCHANGED <<account, teamOf, auth, udUser, udTeam, source, outlived>>
    BY <1>6 DEF Kill
  <2>2. TypeOK'
    <3>1. granted' \in Seq(Block)
      BY <2>1, EmptySeq
    <3>2. asked' \in [Players -> 0 .. MaxAsked]
      BY <2>1, SessionAssumption
    <3> QED
      BY <1>1, <2>1, <3>1, <3>2 DEF Inv, TypeOK
  <2>3. Accounts'
    BY <2>1 DEF Inv, Accounts, Known, Request
  <2>4. Traced'
    BY <2>1, SessionAssumption DEF Traced, Owed
  <2> QED
    BY <1>2, <2>2, <2>3, <2>4 DEF Inv
<1> QED
  BY <1>3, <1>4, <1>5, <1>6

LEMMA NextInv == Inv /\ [Next]_vars => Inv'
<1> SUFFICES ASSUME Inv, [Next]_vars PROVE Inv'
  OBVIOUS
<1>1. ASSUME CheckSession PROVE Inv'
  BY <1>1, CheckSessionKeeps
<1>2. ASSUME ToSignUp \/ ToLogin \/ SignOut \/ SignOutFails \/ Kill PROVE Inv'
  BY <1>2, OutsideKeeps
<1>3. ASSUME OpenTeamTab \/ HearTeam PROVE Inv'
  BY <1>3, TeamTabKeeps
<1>4. ASSUME NEW p \in Players, LoginClick(p) \/ SignUpClick(p) PROVE Inv'
  BY <1>4, ClickKeeps
<1>5. ASSUME NEW p \in Players, SignInGranted(p) \/ CreateGranted(p) PROVE Inv'
  BY <1>5, GrantKeeps
<1>6. ASSUME NEW p \in Players, SignInDone(p) PROVE Inv'
  BY <1>6, SignInDoneKeeps
<1>7. ASSUME NEW p \in Players, CreateDone(p) PROVE Inv'
  BY <1>7, CreateDoneInv
<1>8. ASSUME NEW p \in Players, StoreTeam(p) PROVE Inv'
  BY <1>8, StoreTeamKeeps
<1>9. ASSUME NEW p \in Players, TeamMoves(p) PROVE Inv'
  BY <1>9, TeamMovesKeeps
<1>10. CASE UNCHANGED vars
  BY <1>10 DEF vars, authVars, late, Inv, TypeOK, Accounts, Known, Traced, Owed,
               StoredUnlessCut, OthersOnlyLate, Request
<1> QED
  BY <1>1, <1>2, <1>3, <1>4, <1>5, <1>6, <1>7, <1>8, <1>9, <1>10 DEF Next

LEMMA Invariance == Spec => []Inv
  BY InitInv, NextInv, PTL DEF Spec

-----------------------------------------------------------------------------
(* Accounts, requests, blocks and stored ids keep their types; in          *)
(* particular the tabs are shown to nobody without a stored user id.       *)
THEOREM TypeCorrect == Spec => []TypeOK
<1>1. Inv => TypeOK
  BY DEF Inv
<1> QED
  BY Invariance, <1>1, PTL

(* In whatever order players sign in, sign up, leave and are answered, and *)
(* wherever the app is killed, only a sign-up cut short leaves a session   *)
(* without a stored team id that is not on its way.                        *)
THEOREM OnlyCutUnstored == Spec => []StoredUnlessCut
<1>1. Inv => StoredUnlessCut
  BY DEF Inv
<1> QED
  BY Invariance, <1>1, PTL

(* A session stands under another player's team only while its own team is *)
(* on its way, or by an answer or a listener the other left behind.        *)
THEOREM OthersLeftBehind == Spec => []OthersOnlyLate
<1>1. Inv => OthersOnlyLate
  BY DEF Inv
<1> QED
  BY Invariance, <1>1, PTL

(* What the other screens see of sessions is what StoredTeam.tla says: the *)
(* phone implements it.                                                    *)
THEOREM ImplementsStored == Spec => StoredSpec
<1>1. Init => Stored!Init
  BY DEF Init, Stored!Init
<1>2. Inv /\ [Next]_vars => [Stored!Next]_<<place = "inside", udTeam>>
  <2> SUFFICES ASSUME Inv, [Next]_vars
               PROVE  \/ Stored!Next
                      \/ (place' = "inside") = (place = "inside") /\ udTeam' = udTeam
    OBVIOUS
  <2> USE DEF Stored!Next, Stored!Enter, Stored!Store, Stored!Leave, Stored!End, Stored!TeamIDs
  <2>1. CASE CheckSession
    BY <2>1 DEF CheckSession
  <2>2. CASE ToSignUp \/ ToLogin
    BY <2>2 DEF ToSignUp, ToLogin
  <2>3. CASE SignOut \/ SignOutFails
    BY <2>3 DEF SignOut, SignOutFails
  <2>4. CASE Kill
    BY <2>4 DEF Kill
  <2>5. CASE OpenTeamTab
    BY <2>5 DEF OpenTeamTab
  <2>6. CASE HearTeam
    BY <2>6 DEF HearTeam, Inv, TypeOK, TeamIDs
  <2>7. ASSUME NEW p \in Players, LoginClick(p) \/ SignUpClick(p)
        PROVE  place' = place /\ udTeam' = udTeam
    BY <2>7 DEF LoginClick, SignUpClick
  <2>8. ASSUME NEW p \in Players, SignInGranted(p) \/ CreateGranted(p)
        PROVE  place' = place /\ udTeam' = udTeam
    BY <2>8 DEF SignInGranted, CreateGranted
  <2>9. ASSUME NEW p \in Players, SignInDone(p) PROVE Stored!Enter \/ (place' = place /\ udTeam' = udTeam)
    BY <2>9 DEF SignInDone, Segue
  <2>10. ASSUME NEW p \in Players, CreateDone(p) PROVE Stored!Enter \/ Stored!Store
    BY <2>10 DEF CreateDone, Segue
  <2>11. ASSUME NEW p \in Players, StoreTeam(p)
         PROVE  Stored!Store \/ (place' = place /\ udTeam' = udTeam)
    BY <2>11 DEF StoreTeam, Inv, TypeOK, TeamIDs
  <2>12. ASSUME NEW p \in Players, TeamMoves(p)
         PROVE  place' = place /\ udTeam' = udTeam
    BY <2>12 DEF TeamMoves
  <2>13. CASE UNCHANGED vars
    BY <2>13 DEF vars
  <2> QED
    BY <2>1, <2>2, <2>3, <2>4, <2>5, <2>6, <2>7, <2>8, <2>9, <2>10, <2>11, <2>12, <2>13 DEF Next
<1> QED
  BY <1>1, <1>2, Invariance, PTL DEF Spec, StoredSpec, Stored!Spec

-----------------------------------------------------------------------------
(* The code a sign-up draws *)

LEMMA Division ==
  ASSUME NEW q \in Nat, NEW r \in Nat
  PROVE  /\ r < 10 => (10 * q + r) \div 10 = q /\ (10 * q + r) % 10 = r
         /\ r < 100 => (100 * q + r) \div 100 = q
         /\ r < 1000 => (1000 * q + r) \div 1000 = q
<1>1. r < 10 => (10 * q + r) \div 10 = q /\ (10 * q + r) % 10 = r
  OBVIOUS
<1>2. r < 100 => (100 * q + r) \div 100 = q
  OBVIOUS
<1>3. r < 1000 => (1000 * q + r) \div 1000 = q
  OBVIOUS
<1> QED
  BY <1>1, <1>2, <1>3

(* One zero is enough: whatever is drawn, the code a player is given is    *)
(* the four digits drawn, in their order, so that another draw is another  *)
(* code and no code is cut short by zeros in front.                        *)
THEOREM CodeIsDraw ==
  \A s \in Draws : /\ Len(PlayerAddCode(s)) = 4
                   /\ \A i \in 1 .. 4 : PlayerAddCode(s)[i] = s[i]
<1> SUFFICES ASSUME NEW s \in Draws
             PROVE  /\ Len(PlayerAddCode(s)) = 4
                    /\ \A i \in 1 .. 4 : PlayerAddCode(s)[i] = s[i]
  OBVIOUS
<1>1. PICK a \in Digits, b \in Digits, c \in Digits, d \in Digits :
        a = s[1] /\ b = s[2] /\ c = s[3] /\ d = s[4] /\ a # b
  <2>1. s[1] \in Digits /\ s[2] \in Digits /\ s[3] \in Digits /\ s[4] \in Digits
    BY DEF Draws
  <2>2. s[1] # s[2]
    BY DEF Draws
  <2> QED
    BY <2>1, <2>2, Zenon
<1>2. (((0 * 10 + a) * 10 + b) * 10 + c) * 10 + d = 1000 * a + 100 * b + 10 * c + d
  BY DEF Digits
<1>3. PICK n \in Nat : n = 1000 * a + 100 * b + 10 * c + d
  BY DEF Digits
<1>4. Reduced(s) = n
  BY <1>1, <1>2, <1>3 DEF Reduced
(* The digits of n, from the last. *)
<1>5. n \div 10 = 10 * (10 * a + b) + c /\ n % 10 = d
  <2>1. PICK q \in Nat : q = 10 * (10 * a + b) + c
    BY DEF Digits
  <2>2. n = 10 * q + d
    BY <1>3, <2>1 DEF Digits
  <2> QED
    BY <2>1, <2>2, Division DEF Digits
<1>6. n \div 100 = 10 * a + b
  <2>1. PICK q \in Nat, r \in Nat : q = 10 * a + b /\ r = 10 * c + d
    BY DEF Digits
  <2>2. r < 100 /\ n = 100 * q + r
    BY <1>3, <2>1 DEF Digits
  <2> QED
    BY <2>1, <2>2, Division
<1>7. n \div 1000 = a
  <2>1. PICK r \in Nat : r = 100 * b + 10 * c + d
    BY DEF Digits
  <2>2. r < 1000 /\ n = 1000 * a + r
    BY <1>3, <2>1 DEF Digits
  <2> QED
    BY <2>1, <2>2, Division DEF Digits
<1>8. (n \div 100) % 10 = b
  BY <1>6, Division DEF Digits
<1>9. (n \div 10) % 10 = c
  <2>1. PICK q \in Nat : q = 10 * a + b
    BY DEF Digits
  <2> QED
    BY <1>5, <2>1, Division DEF Digits
<1>10. \A i \in 1 .. 4 : i = 1 \/ i = 2 \/ i = 3 \/ i = 4
  OBVIOUS
<1>11. CASE n >= 1000
  <2>1. Text(n) = <<a, b, c, d>>
    BY <1>5, <1>7, <1>8, <1>9, <1>11 DEF Text
  <2>2. PlayerAddCode(s) = <<a, b, c, d>>
    BY <1>4, <2>1 DEF PlayerAddCode
  <2> QED
    BY <1>1, <1>10, <2>2
(* A zero was drawn first: another was not, and the number has three digits. *)
<1>12. CASE ~(n >= 1000)
  <2>1. a = 0 /\ n >= 100 /\ n \div 100 = b
    <3>1. a \in Nat /\ b \in Nat /\ c \in Nat /\ d \in Nat
      BY DEF Digits
    <3>2. a = 0
      BY <1>3, <1>12, <3>1
    <3>3. b >= 1
      BY <1>1, <3>1, <3>2
    <3> QED
      BY <1>3, <1>6, <3>1, <3>2, <3>3
  <2> DEFINE z == <<0>>
             t == <<b, c, d>>
  <2>2. Text(n) = t
    BY <1>5, <1>9, <1>12, <2>1 DEF Text
  <2>3. /\ z[1] = 0 /\ z \in Seq(Digits) /\ Len(z) = 1
        /\ t \in Seq(Digits) /\ Len(t) = 3 /\ t[1] = b /\ t[2] = c /\ t[3] = d
    BY DEF Digits
  <2>4. PlayerAddCode(s) = z \o t
    BY <1>4, <2>2 DEF PlayerAddCode
  <2> HIDE DEF t, z
  <2>5. /\ Len(z \o t) = Len(z) + Len(t)
        /\ \A i \in 1 .. Len(z) + Len(t) :
             (z \o t)[i] = IF i <= Len(z) THEN z[i] ELSE t[i - Len(z)]
    BY <2>3, ConcatProperties
  <2>6. Len(z \o t) = 4 /\ \A i \in 1 .. 4 : (z \o t)[i] = IF i <= 1 THEN z[i] ELSE t[i - 1]
    BY <2>3, <2>5
  <2>7. /\ (z \o t)[1] = 0 /\ (z \o t)[2] = b /\ (z \o t)[3] = c /\ (z \o t)[4] = d
    BY <2>3, <2>6
  <2> QED
    BY <1>1, <1>10, <2>1, <2>4, <2>6, <2>7
<1> QED
  BY <1>11, <1>12
=============================================================================
