----------------------------- MODULE GamesProofs -----------------------------
(***************************************************************************)
(* Theorems about Games.tla and History.tla for every set of devices,      *)
(* teams and games, and every value of the bounds.  The only assumption is *)
(* ConstantsAssumption; the theorems that also ask that no device changes  *)
(* team say so in their statements.                                        *)
(***************************************************************************)
EXTENDS History, Positions, SequenceTheorems, FiniteSetTheorems, TLAPS

-----------------------------------------------------------------------------
(* Types *)

(* What the helpers build has the type their users expect. *)
LEMMA BuiltTypes ==
  /\ Absent \in GameDoc
  /\ \A t \in TeamIDs : NewDoc(t) \in GameDoc
  /\ \A op \in WriteOps, g \in Games : Blank(op, g) \in Write
  /\ \A d \in Devices, k \in CallKinds, g \in Games \cup {NoGame}, t \in TeamIDs :
       Pend(d, k, g, t) \in Call
<1>1. NoTeam \in TeamIDs
  BY DEF TeamIDs
<1>2. Absent \in GameDoc
  BY <1>1 DEF Absent, GameDoc, Statuses
<1>3. ASSUME NEW t \in TeamIDs PROVE NewDoc(t) \in GameDoc
  BY <1>2 DEF NewDoc, Absent, GameDoc, Statuses
<1>4. ASSUME NEW op \in WriteOps, NEW g \in Games PROVE Blank(op, g) \in Write
  BY <1>1 DEF Blank, Write
<1>5. ASSUME NEW d \in Devices, NEW k \in CallKinds,
             NEW g \in Games \cup {NoGame}, NEW t \in TeamIDs
      PROVE  Pend(d, k, g, t) \in Call
  BY DEF Pend, Call
<1>. QED  BY <1>2, <1>3, <1>4, <1>5

(* Applying a write to a document gives a document. *)
LEMMA ApplyType ==
  ASSUME NEW doc \in GameDoc, NEW w \in Write
  PROVE  Apply(doc, w) \in GameDoc
<1>1. CASE w.op = "create"
  BY <1>1, BuiltTypes DEF Apply, Write
<1>2. CASE w.op # "create"
  <2>1. /\ w.home \in TeamIDs /\ w.guest \in TeamIDs /\ w.roster \in SUBSET TeamIDs
        /\ w.homeWin \in BOOLEAN /\ w.guestWin \in BOOLEAN /\ w.op \in WriteOps
    BY DEF Write
  <2>2. [doc EXCEPT !.roster = @ \cup w.roster] \in GameDoc
    BY <2>1 DEF GameDoc
  <2>3. [doc EXCEPT !.roster = w.roster, !.status = "active"] \in GameDoc
    BY <2>1 DEF GameDoc, Statuses
  <2>. QED  BY <1>2, <2>1, <2>2, <2>3 DEF Apply, WriteOps, GameDoc, Statuses
<1>. QED  BY <1>1, <1>2

(* What an update leaves of a posted document, field by field. *)
Updated(doc, w, res) ==
  /\ res.home = IF w.op = "seat" THEN w.home ELSE doc.home
  /\ res.guest = IF w.op = "seat" THEN w.guest ELSE doc.guest
  /\ res.named = IF w.op = "name" THEN TRUE ELSE doc.named
  /\ res.status = IF w.op = "start" THEN "active"
                  ELSE IF w.op = "withdraw" THEN "deleted"
                  ELSE IF w.op = "result" THEN "completed"
                  ELSE doc.status
  /\ res.homeWin = IF w.op = "result" THEN w.homeWin ELSE doc.homeWin
  /\ res.guestWin = IF w.op = "result" THEN w.guestWin ELSE doc.guestWin
  /\ res.roster = IF w.op = "members" THEN doc.roster \cup w.roster
                  ELSE IF w.op = "start" THEN w.roster
                  ELSE doc.roster

LEMMA ApplyFields ==
  ASSUME NEW doc \in GameDoc, NEW w \in Write, doc.status # "absent", w.op # "create"
  PROVE  Updated(doc, w, Apply(doc, w))
<1>1. w.op \in WriteOps
  BY DEF Write
<1>2. CASE w.op = "name"
  BY <1>2 DEF Apply, Updated, GameDoc
<1>3. CASE w.op = "members"
  BY <1>3 DEF Apply, Updated, GameDoc
<1>4. CASE w.op = "seat"
  BY <1>4 DEF Apply, Updated, GameDoc
<1>5. CASE w.op = "start"
  BY <1>5 DEF Apply, Updated, GameDoc
<1>6. CASE w.op = "withdraw"
  BY <1>6 DEF Apply, Updated, GameDoc
<1>7. CASE w.op = "result"
  BY <1>7 DEF Apply, Updated, GameDoc
<1>. QED  BY <1>1, <1>2, <1>3, <1>4, <1>5, <1>6, <1>7 DEF WriteOps

(* Appending a write to a device's queue keeps the queues' type. *)
LEMMA EnqueueType ==
  ASSUME NEW d \in Devices, NEW w \in Write,
         queue \in [Devices -> Seq(Write)], Enqueue(d, w)
  PROVE  /\ queue' \in [Devices -> Seq(Write)]
         /\ \A e \in Devices : Len(queue'[e]) \in Nat /\ Len(queue'[e]) >= Len(queue[e])
<1>1. /\ Append(queue[d], w) \in Seq(Write)
      /\ Len(Append(queue[d], w)) = Len(queue[d]) + 1
  BY AppendProperties
<1>2. \A e \in Devices : Len(queue[e]) \in Nat
  BY LenProperties
<1>. QED  BY <1>1, <1>2 DEF Enqueue

-----------------------------------------------------------------------------
(* The overlay *)

(* A non-empty set of pending positions has a greatest element, so Latest *)
(* is one of them.                                                        *)
LEMMA LatestIsPending ==
  ASSUME NEW d \in Devices, NEW g \in Games, NEW ops,
         queue \in [Devices -> Seq(Write)], Pending(d, g, ops) # {}
  PROVE  /\ Latest(d, g, ops) \in Pending(d, g, ops)
         /\ \A j \in Pending(d, g, ops) : j <= Latest(d, g, ops)
<1>1. Len(queue[d]) \in Nat /\ Pending(d, g, ops) \subseteq 1..Len(queue[d])
  BY LenProperties DEF Pending
<1>2. \E i \in Pending(d, g, ops) : \A j \in Pending(d, g, ops) : j <= i
  BY <1>1, LastPlace
<1>. QED  BY <1>2 DEF Latest

(* A home or guest team a device reads is a team id. *)
LEMMA ViewTypes ==
  ASSUME NEW d \in Devices, NEW g \in Games, TypeOK
  PROVE  /\ ViewHome(d, g) \in TeamIDs
         /\ ViewGuest(d, g) \in TeamIDs
         /\ ViewRoster(d, g) \in SUBSET TeamIDs
<1>1. \A i \in DOMAIN queue[d] : queue[d][i] \in Write
  BY LenProperties, ElementOfSeq DEF TypeOK
<1>2. ASSUME NEW ops, Pending(d, g, ops) # {}
      PROVE  queue[d][Latest(d, g, ops)] \in Write
  BY <1>1, <1>2, LatestIsPending DEF Pending, TypeOK
<1>3. server[g] \in GameDoc
  BY DEF TypeOK
<1>4. ViewHome(d, g) \in TeamIDs /\ ViewGuest(d, g) \in TeamIDs
  BY <1>2, <1>3 DEF ViewHome, ViewGuest, GameDoc, Write
<1>5. ViewRoster(d, g) \in SUBSET TeamIDs
  <2>1. \A i \in Pending(d, g, {"members"}) : queue[d][i].roster \in SUBSET TeamIDs
    BY <1>1 DEF Pending, Write
  <2>2. Pending(d, g, {"create", "start"}) # {} =>
          queue[d][Latest(d, g, {"create", "start"})].roster \in SUBSET TeamIDs
    BY <1>2 DEF Write
  <2>. QED  BY <1>3, <2>1, <2>2 DEF ViewRoster, GameDoc
<1>. QED  BY <1>4, <1>5

-----------------------------------------------------------------------------
(* Type correctness: every reachable state of every instance is well typed. *)

LEMMA TypeNext == TypeOK /\ [Next]_vars => TypeOK'
<1>. SUFFICES ASSUME TypeOK, [Next]_vars PROVE TypeOK'
  OBVIOUS
<1>. USE ConstantsAssumption
<1>1. CASE UNCHANGED vars
  BY <1>1 DEF vars, TypeOK
<1>2. ASSUME NEW d \in Devices, NEW w \in Write, Enqueue(d, w), sent' = sent
      PROVE  /\ queue' \in [Devices -> Seq(Write)]
             /\ sent' \in [Devices -> Nat] /\ \A e \in Devices : sent'[e] <= Len(queue'[e])
  <2>1. \A e \in Devices : Len(queue[e]) \in Nat
    BY LenProperties DEF TypeOK
  <2>. QED  BY <1>2, <2>1, EnqueueType DEF TypeOK
<1>3. ASSUME NEW d \in Devices PROVE InFlight(d) \subseteq calls /\ ud[d] \in TeamIDs
  BY DEF InFlight, TypeOK
<1>4. ASSUME NEW d \in Devices, Deliver(d) PROVE TypeOK'
  <2>1. Head(queue[d]) \in Write /\ Tail(queue[d]) \in Seq(Write)
    BY <1>4, HeadTailProperties DEF Deliver, TypeOK
  <2>2. Apply(server[Head(queue[d]).game], Head(queue[d])) \in GameDoc
    BY <2>1, ApplyType DEF TypeOK, Write
  <2>3. sent[d] = 0 /\ \A e \in Devices : Len(queue'[e]) \in Nat
    BY <1>4, <2>1, LenProperties DEF Deliver, TypeOK
  <2>4. server' \in [Games -> GameDoc] /\ queue' \in [Devices -> Seq(Write)]
    BY <1>4, <2>1, <2>2 DEF Deliver, TypeOK
  <2>5. \A e \in Devices : sent'[e] <= Len(queue'[e])
    BY <1>4, <2>3 DEF Deliver, TypeOK
  <2>. QED  BY <1>4, <2>4, <2>5 DEF Deliver, TypeOK
<1>41. ASSUME NEW d \in Devices, Reach(d) PROVE TypeOK'
  <2>1. queue[d] \in Seq(Write) /\ Len(queue[d]) \in Nat /\ sent[d] \in Nat
    BY LenProperties DEF TypeOK
  <2>2. sent[d] + 1 \in 1..Len(queue[d])
    BY <1>41, <2>1 DEF Reach
  <2>3. queue[d][sent[d] + 1] \in Write
    BY <2>1, <2>2, ElementOfSeq
  <2>4. Apply(server[queue[d][sent[d] + 1].game], queue[d][sent[d] + 1]) \in GameDoc
    BY <2>3, ApplyType DEF TypeOK, Write
  <2>5. server' \in [Games -> GameDoc]
    BY <1>41, <2>3, <2>4 DEF Reach, TypeOK, Write
  <2>6. sent' \in [Devices -> Nat] /\ \A e \in Devices : sent'[e] <= Len(queue[e])
    BY <1>41, <2>1, <2>2 DEF Reach, TypeOK
  <2>. QED  BY <1>41, <2>5, <2>6 DEF Reach, TypeOK
<1>42. ASSUME NEW d \in Devices, Acknowledge(d) PROVE TypeOK'
  <2>1. queue[d] \in Seq(Write) /\ Len(queue[d]) \in Nat /\ Len(queue[d]) >= sent[d]
    BY LenProperties DEF TypeOK
  <2>2. sent[d] \in Nat /\ sent[d] > 0 /\ queue[d] # <<>>
    BY <1>42, <2>1, EmptySeq DEF Acknowledge, TypeOK
  <2>3. Tail(queue[d]) \in Seq(Write) /\ Len(Tail(queue[d])) = Len(queue[d]) - 1
    BY <2>1, <2>2, HeadTailProperties
  <2>. QED  BY <1>42, <2>1, <2>2, <2>3 DEF Acknowledge, TypeOK
<1>43. ASSUME NEW d \in Devices, Reconnect(d) PROVE TypeOK'
  <2>1. Len(queue[d]) \in Nat
    BY LenProperties DEF TypeOK
  <2>. QED  BY <1>43, <2>1 DEF Reconnect, TypeOK
<1>5. ASSUME NEW d \in Devices, NEW g \in Games, NewGame(d, g) PROVE TypeOK'
  <2>1. Pend(d, "posted", g, NoTeam) \in Call
    BY BuiltTypes DEF CallKinds, TeamIDs
  <2>2. [Blank("create", g) EXCEPT !.home = ud[d]] \in Write
    BY <1>3, BuiltTypes DEF WriteOps, Write
  <2>. QED  BY <1>2, <1>5, <2>1, <2>2 DEF NewGame, TypeOK
<1>6. ASSUME NEW d \in Devices, NEW g \in Games, NewGamePosted(d, g) PROVE TypeOK'
  <2>1. Pend(d, "members", g, ud[d]) \in Call
    BY <1>3, BuiltTypes DEF CallKinds
  <2>2. Blank("name", g) \in Write
    BY BuiltTypes DEF WriteOps
  <2>. QED  BY <1>2, <1>6, <2>1, <2>2 DEF NewGamePosted, TypeOK
<1>7. ASSUME NEW d \in Devices, NEW g \in Games, NewGamePostedTraps(d, g) PROVE TypeOK'
  <2>1. Blank("name", g) \in Write
    BY BuiltTypes DEF WriteOps
  <2>. QED  BY <1>2, <1>7, <2>1 DEF NewGamePostedTraps, LoseCalls, TypeOK
<1>8. ASSUME NEW d \in Devices, NEW g \in Games, NewGameMembers(d, g) PROVE TypeOK'
  <2>1. PICK t \in Teams :
          /\ Enqueue(d, [Blank("members", g) EXCEPT !.roster = {t}])
          /\ calls' = calls \ {Pend(d, "members", g, t)}
          /\ UNCHANGED <<server, ud, sent>>
    BY <1>8 DEF NewGameMembers
  <2>2. [Blank("members", g) EXCEPT !.roster = {t}] \in Write
    BY BuiltTypes DEF WriteOps, Write, TeamIDs
  <2>. QED  BY <1>2, <2>1, <2>2 DEF TypeOK
<1>9. ASSUME NEW d \in Devices, NEW g \in Games, JoinGameClick(d, g) PROVE TypeOK'
  <2>1. Pend(d, "hosting", g, ud[d]) \in Call
    BY <1>3, BuiltTypes DEF CallKinds
  <2>. QED  BY <1>9, <2>1 DEF JoinGameClick, TypeOK
<1>10. ASSUME NEW d \in Devices, NEW g \in Games, CheckedHosting(d, g) PROVE TypeOK'
  <2>1. Pend(d, "listing", g, ud[d]) \in Call
    BY <1>3, BuiltTypes DEF CallKinds
  <2>2. calls' \subseteq calls \cup {Pend(d, "listing", g, ud[d])}
    <3>1. PICK t \in Teams :
            calls' = (calls \ {Pend(d, "hosting", g, t)}) \cup
              (IF Listings(d, t) # {} THEN {} ELSE {Pend(d, "listing", g, ud[d])})
      BY <1>10 DEF CheckedHosting
    <3>. QED  BY <3>1
  <2>. QED  BY <1>10, <2>1, <2>2 DEF CheckedHosting, TypeOK
<1>11. ASSUME NEW d \in Devices, NEW g \in Games, NEW t \in TeamIDs
       PROVE  SeatWrite(d, g, t) \in Write
  <2>1. Blank("seat", g) \in Write
    BY BuiltTypes DEF WriteOps
  <2>2. ViewHome(d, g) \in TeamIDs
    BY ViewTypes
  <2>. QED  BY <2>1, <2>2 DEF SeatWrite, Write
<1>12. ASSUME NEW d \in Devices, NEW g \in Games, JoinGameSeats(d, g) PROVE TypeOK'
  <2>1. PICK t \in Teams :
          /\ Enqueue(d, SeatWrite(d, g, t))
          /\ calls' \subseteq calls \cup
               {[Pend(d, "guest", g, t) EXCEPT !.roster = ViewRoster(d, g)]}
          /\ UNCHANGED <<server, ud, sent>>
    BY <1>12 DEF JoinGameSeats
  <2>2. t \in TeamIDs
    BY DEF TeamIDs
  <2>3. [Pend(d, "guest", g, t) EXCEPT !.roster = ViewRoster(d, g)] \in Call
    BY <2>2, ViewTypes, BuiltTypes DEF CallKinds, Call
  <2>. QED  BY <1>2, <1>11, <2>1, <2>2, <2>3 DEF TypeOK
<1>13. ASSUME NEW d \in Devices, NEW g \in Games, JoinGameSeatsTraps(d, g) PROVE TypeOK'
  <2>1. NoTeam \in TeamIDs
    BY DEF TeamIDs
  <2>. QED  BY <1>2, <1>11, <1>13, <2>1 DEF JoinGameSeatsTraps, LoseCalls, TypeOK
<1>14. ASSUME NEW d \in Devices, NEW g \in Games, JoinGameStarts(d, g) PROVE TypeOK'
  <2>1. PICK c \in InFlight(d) :
          /\ Enqueue(d, StartWrite(g, c))
          /\ calls' = calls \ {c}
          /\ UNCHANGED <<server, ud, sent>>
    BY <1>14 DEF JoinGameStarts
  <2>2. c \in Call
    BY <1>3 DEF TypeOK
  <2>3. StartWrite(g, c) \in Write
    BY <2>2, BuiltTypes DEF StartWrite, WriteOps, Write, Call
  <2>. QED  BY <1>2, <2>1, <2>3 DEF TypeOK
<1>15. ASSUME NEW d \in Devices,
              OpenUnnamedListingTraps(d) \/ DeleteListingTraps(d) \/ Restart(d)
       PROVE  TypeOK'
  BY <1>15 DEF OpenUnnamedListingTraps, DeleteListingTraps, Restart, LoseCalls, TypeOK
<1>16. ASSUME NEW d \in Devices, DeleteListingClick(d) PROVE TypeOK'
  <2>1. Pend(d, "delete", NoGame, ud[d]) \in Call
    BY <1>3, BuiltTypes DEF CallKinds
  <2>. QED  BY <1>16, <2>1 DEF DeleteListingClick, TypeOK
<1>17. ASSUME NEW d \in Devices, DeleteListing(d) PROVE TypeOK'
  <2>1. /\ \E g \in Games : Enqueue(d, Blank("withdraw", g))
        /\ calls' \subseteq calls
        /\ UNCHANGED <<server, ud, sent>>
    BY <1>17 DEF DeleteListing, Listings
  <2>2. \A g \in Games : Blank("withdraw", g) \in Write
    BY BuiltTypes DEF WriteOps
  <2>. QED  BY <1>2, <2>1, <2>2 DEF TypeOK
<1>18. ASSUME NEW d \in Devices, NEW g \in Games, ReportClick(d, g) PROVE TypeOK'
  <2>1. ASSUME NEW win \in BOOLEAN
        PROVE  [Pend(d, "commit", g, NoTeam) EXCEPT !.homeWin = win] \in Call
    BY BuiltTypes DEF CallKinds, TeamIDs, Call
  <2>. QED  BY <1>18, <2>1 DEF ReportClick, TypeOK
<1>19. ASSUME NEW d \in Devices, NEW g \in Games, ReportClickTraps(d, g) PROVE TypeOK'
  BY <1>19 DEF ReportClickTraps, LoseCalls, TypeOK
<1>20. ASSUME NEW d \in Devices, NEW g \in Games, CommitResult(d, g) PROVE TypeOK'
  <2>1. PICK c \in InFlight(d) :
          /\ Enqueue(d, [Blank("result", g) EXCEPT !.homeWin = c.homeWin,
                                                   !.guestWin = ~c.homeWin])
          /\ calls' = calls \ {c}
          /\ UNCHANGED <<server, ud, sent>>
    BY <1>20 DEF CommitResult
  <2>2. c.homeWin \in BOOLEAN
    BY <1>3 DEF TypeOK, Call
  <2>3. [Blank("result", g) EXCEPT !.homeWin = c.homeWin, !.guestWin = ~c.homeWin] \in Write
    <3>1. Blank("result", g) \in Write
      BY BuiltTypes DEF WriteOps
    <3>2. (~c.homeWin) \in BOOLEAN
      OBVIOUS
    <3>. QED  BY <2>2, <3>1, <3>2 DEF Write
  <2>. QED  BY <1>2, <2>1, <2>3 DEF TypeOK
<1>21. ASSUME NEW d \in Devices, TeamChange(d) PROVE TypeOK'
  BY <1>21 DEF TeamChange, TypeOK
<1>. QED
  BY <1>1, <1>4, <1>41, <1>42, <1>43, <1>5, <1>6, <1>7, <1>8, <1>9, <1>10, <1>12, <1>13,
     <1>14, <1>15, <1>16, <1>17, <1>18, <1>19, <1>20, <1>21
     DEF Next, DeviceStep, Callback, Click

(* Games and calls never leave their types, whatever the number of devices, *)
(* teams and games, and however the users click (all of Games.tla).         *)
THEOREM TypeCorrect == Spec => []TypeOK
<1>1. Init => TypeOK
  <2>1. <<>> \in Seq(Write)
    BY EmptySeq
  <2>. QED  BY <2>1, BuiltTypes, ConstantsAssumption DEF Init, TypeOK
<1>. QED  BY <1>1, TypeNext, PTL DEF Spec

-----------------------------------------------------------------------------
(* The inductive invariant.  A document is only as good as the writes on    *)
(* their way to it and the callbacks that will issue more, so each conjunct *)
(* of the safety properties has a counterpart for queued writes and for     *)
(* pending callbacks.                                                       *)

Posted(g) == server[g].status # "absent"

(* An older write of the same queue, on the same game, does op. *)
Before(d, i, op) ==
  \E j \in 1..Len(queue[d]) :
    j < i /\ queue[d][j].op = op /\ queue[d][j].game = queue[d][i].game

GoodDoc(g) ==
  /\ ~Posted(g) => server[g] = Absent
  /\ \/ server[g].named
     \/ server[g].status \in {"absent", "listing"} /\ server[g].guest = NoTeam
                                                   /\ server[g].roster = {}
  /\ ~(server[g].homeWin /\ server[g].guestWin)
  /\ server[g].status = "completed" => server[g].homeWin # server[g].guestWin

OnlyCreate(d, i) ==
  \A e \in Devices : \A j \in 1..Len(queue[e]) :
    queue[e][j].op = "create" /\ queue[e][j].game = queue[d][i].game => e = d /\ j = i

NoCreate(g) ==
  \A e \in Devices : \A j \in 1..Len(queue[e]) :
    ~(queue[e][j].op = "create" /\ queue[e][j].game = g)

(* A create may have been applied before, to a game nobody else can touch. *)
GoodWrite(d, i) ==
  LET w == queue[d][i] IN
  /\ w.op = "create" => server[w.game] \in {Absent, NewDoc(w.home)} /\ OnlyCreate(d, i)
  /\ w.op = "create" => w.guest = NoTeam /\ w.roster = {}
  /\ w.op # "create" => Posted(w.game) /\ NoCreate(w.game)
  /\ w.op \in {"members", "seat", "start", "withdraw", "result"} =>
       server[w.game].named \/ Before(d, i, "name")
  /\ w.op = "seat" => w.home = server[w.game].home
  /\ w.op = "result" => w.homeWin # w.guestWin
  /\ i <= sent[d] => Posted(w.game) /\ (w.op = "name" => server[w.game].named)

KnownName(d, g) == server[g].named \/ Pending(d, g, {"name"}) # {}

GoodCall(c) ==
  /\ c.kind # "delete" => c.game \in Games
  /\ c.kind = "posted" => /\ Posted(c.game) \/ Pending(c.dev, c.game, {"create"}) # {}
                          /\ \A e \in Devices : e # c.dev => Pending(e, c.game, {"create"}) = {}
  /\ c.kind \in {"members", "hosting", "listing", "guest", "commit"} => Posted(c.game)
  /\ c.kind \in {"members", "hosting", "listing", "guest", "commit"} =>
       KnownName(c.dev, c.game)

DocInv   == \A g \in Games : GoodDoc(g)
WriteInv == \A d \in Devices : \A i \in 1..Len(queue[d]) : GoodWrite(d, i)
CallInv  == \A c \in calls : GoodCall(c)

Inv == TypeOK /\ DocInv /\ WriteInv /\ CallInv

-----------------------------------------------------------------------------
(* Queues grow at the end and shrink at the head. *)

LEMMA QueueType ==
  ASSUME NEW d \in Devices, TypeOK
  PROVE  /\ queue[d] \in Seq(Write)
         /\ Len(queue[d]) \in Nat
         /\ DOMAIN queue[d] = 1..Len(queue[d])
         /\ \A i \in 1..Len(queue[d]) : queue[d][i] \in Write
BY LenProperties, ElementOfSeq DEF TypeOK

LEMMA AppendStep ==
  ASSUME NEW d \in Devices, NEW w \in Write, TypeOK, Enqueue(d, w)
  PROVE  /\ Len(queue'[d]) = Len(queue[d]) + 1
         /\ DOMAIN queue'[d] = 1..Len(queue'[d])
         /\ queue'[d][Len(queue[d]) + 1] = w
         /\ \A i \in 1..Len(queue[d]) : queue'[d][i] = queue[d][i]
         /\ \A e \in Devices : e # d => queue'[e] = queue[e]
<1>1. queue'[d] = Append(queue[d], w) /\ \A e \in Devices : e # d => queue'[e] = queue[e]
  BY DEF Enqueue, TypeOK
<1>2. Append(queue[d], w) \in Seq(Write)
  BY QueueType, AppendProperties
<1>. QED  BY <1>1, <1>2, QueueType, AppendProperties, LenProperties

(* What is pending stays pending while the queue grows. *)
LEMMA PendingGrows ==
  ASSUME NEW d \in Devices, NEW w \in Write, TypeOK, Enqueue(d, w),
         NEW e \in Devices, NEW g \in Games, NEW ops
  PROVE  Pending(e, g, ops) \subseteq Pending(e, g, ops)'
<1>1. CASE e = d
  BY <1>1, AppendStep, QueueType DEF Pending
<1>2. CASE e # d
  BY <1>2, AppendStep DEF Pending
<1>. QED  BY <1>1, <1>2

LEMMA TailStep ==
  ASSUME NEW d \in Devices, TypeOK, queue[d] # <<>>, queue' = [queue EXCEPT ![d] = Tail(@)]
  PROVE  /\ Len(queue[d]) \in Nat /\ Len(queue[d]) >= 1
         /\ Len(queue'[d]) = Len(queue[d]) - 1
         /\ DOMAIN queue'[d] = 1..Len(queue'[d])
         /\ Head(queue[d]) = queue[d][1] /\ queue[d][1] \in Write
         /\ \A i \in 1..Len(queue'[d]) : queue'[d][i] = queue[d][i + 1]
         /\ \A e \in Devices : e # d => queue'[e] = queue[e]
<1>1. queue[d] \in Seq(Write)
  BY DEF TypeOK
<1>2. queue'[d] = Tail(queue[d]) /\ \A e \in Devices : e # d => queue'[e] = queue[e]
  BY DEF TypeOK
<1>3. Len(queue[d]) \in Nat /\ Len(queue[d]) >= 1
  BY <1>1, EmptySeq
<1>4. /\ Tail(queue[d]) \in Seq(Write) /\ Len(Tail(queue[d])) = Len(queue[d]) - 1
      /\ \A i \in 1..Len(Tail(queue[d])) : Tail(queue[d])[i] = queue[d][i + 1]
  BY <1>1, HeadTailProperties
<1>5. Head(queue[d]) = queue[d][1]
  BY <1>1
<1>6. queue[d][1] \in Write
  BY <1>1, <1>3, ElementOfSeq
<1>7. DOMAIN queue'[d] = 1..Len(queue'[d])
  BY <1>2, <1>4, LenProperties
<1>. QED  BY <1>2, <1>3, <1>4, <1>5, <1>6, <1>7

(* The four steps of a device's stream.  They drop at most the oldest       *)
(* write, and the server applies at most the first one it has not applied.  *)
StreamStep(d) == Deliver(d) \/ Reach(d) \/ Acknowledge(d) \/ Reconnect(d)

Drops(d, s) ==
  /\ Len(queue'[d]) = Len(queue[d]) - s
  /\ \A e \in Devices : DOMAIN queue'[e] = 1..Len(queue'[e])
  /\ \A i \in 1..Len(queue'[d]) : i + s \in 1..Len(queue[d]) /\ queue'[d][i] = queue[d][i + s]
  /\ \A e \in Devices : e # d => queue'[e] = queue[e] /\ sent'[e] = sent[e]
  /\ sent'[d] \in Nat

Serves(d, k) ==
  /\ k \in 1..Len(queue[d]) /\ k = sent[d] + 1
  /\ server' = [server EXCEPT ![queue[d][k].game] = Apply(@, queue[d][k])]

(* What the server knows after the step includes what it is ahead with. *)
Covers(d, s) ==
  \A k \in 1..Len(queue[d]) : k <= sent'[d] + s => k <= sent[d] \/ Serves(d, k)

LEMMA StreamSteps ==
  ASSUME TypeOK, NEW d \in Devices, StreamStep(d)
  PROVE  /\ UNCHANGED <<calls, ud>>
         /\ server' = server \/ \E k \in 1..Len(queue[d]) : Serves(d, k)
         /\ \E s \in {0, 1} : Drops(d, s) /\ Covers(d, s)
<1>1. /\ queue[d] \in Seq(Write) /\ Len(queue[d]) \in Nat
      /\ sent[d] \in Nat /\ sent[d] <= Len(queue[d])
      /\ \A e \in Devices : DOMAIN queue[e] = 1..Len(queue[e])
  BY LenProperties DEF TypeOK
<1>2. CASE Deliver(d)
  <2>1. queue[d] # <<>> /\ queue' = [queue EXCEPT ![d] = Tail(@)] /\ sent[d] = 0 /\ sent' = sent
    BY <1>2 DEF Deliver
  <2>2. /\ Len(queue[d]) >= 1 /\ Len(queue'[d]) = Len(queue[d]) - 1
        /\ DOMAIN queue'[d] = 1..Len(queue'[d])
        /\ Head(queue[d]) = queue[d][1]
        /\ \A i \in 1..Len(queue'[d]) : queue'[d][i] = queue[d][i + 1]
        /\ \A e \in Devices : e # d => queue'[e] = queue[e]
    BY <2>1, TailStep
  <2>3. Serves(d, 1)
    BY <1>1, <1>2, <2>1, <2>2 DEF Serves, Deliver
  <2>4. Drops(d, 1)
    <3>1. ASSUME NEW e \in Devices PROVE DOMAIN queue'[e] = 1..Len(queue'[e])
      BY <1>1, <2>2
    <3>2. ASSUME NEW i \in 1..Len(queue'[d])
          PROVE  i + 1 \in 1..Len(queue[d]) /\ queue'[d][i] = queue[d][i + 1]
      BY <1>1, <2>2
    <3>. QED  BY <1>1, <2>1, <2>2, <3>1, <3>2 DEF Drops
  <2>5. Covers(d, 1)
    BY <1>1, <2>1, <2>3 DEF Covers
  <2>. QED  BY <1>1, <1>2, <2>2, <2>3, <2>4, <2>5 DEF Deliver
<1>3. CASE Reach(d)
  <2>1. sent[d] + 1 \in 1..Len(queue[d]) /\ sent' = [sent EXCEPT ![d] = @ + 1] /\ queue' = queue
    BY <1>1, <1>3 DEF Reach
  <2>2. Serves(d, sent[d] + 1)
    BY <1>3, <2>1 DEF Serves, Reach
  <2>3. Drops(d, 0)
    BY <1>1, <2>1 DEF Drops, TypeOK
  <2>4. sent'[d] = sent[d] + 1
    BY <2>1 DEF TypeOK
  <2>5. Covers(d, 0)
    <3>1. ASSUME NEW k \in 1..Len(queue[d]), k <= sent'[d] + 0 PROVE k <= sent[d] \/ k = sent[d] + 1
      BY <1>1, <2>4, <3>1
    <3>. QED  BY <2>2, <3>1 DEF Covers
  <2>. QED  BY <1>3, <2>1, <2>2, <2>3, <2>5 DEF Reach
<1>4. CASE Acknowledge(d)
  <2>1. /\ sent[d] > 0 /\ queue' = [queue EXCEPT ![d] = Tail(@)]
        /\ sent' = [sent EXCEPT ![d] = @ - 1]
    BY <1>4 DEF Acknowledge
  <2>2. queue[d] # <<>>
    BY <1>1, <2>1, EmptySeq
  <2>3. /\ Len(queue[d]) >= 1 /\ Len(queue'[d]) = Len(queue[d]) - 1
        /\ DOMAIN queue'[d] = 1..Len(queue'[d])
        /\ \A i \in 1..Len(queue'[d]) : queue'[d][i] = queue[d][i + 1]
        /\ \A e \in Devices : e # d => queue'[e] = queue[e]
    BY <2>1, <2>2, TailStep
  <2>4. /\ sent'[d] = sent[d] - 1 /\ sent'[d] \in Nat
        /\ \A e \in Devices : e # d => sent'[e] = sent[e]
    BY <1>1, <2>1 DEF TypeOK
  <2>5. Drops(d, 1)
    <3>1. ASSUME NEW e \in Devices PROVE DOMAIN queue'[e] = 1..Len(queue'[e])
      BY <1>1, <2>3
    <3>2. ASSUME NEW i \in 1..Len(queue'[d])
          PROVE  i + 1 \in 1..Len(queue[d]) /\ queue'[d][i] = queue[d][i + 1]
      BY <1>1, <2>3
    <3>. QED  BY <2>3, <2>4, <3>1, <3>2 DEF Drops
  <2>6. Covers(d, 1)
    BY <1>1, <2>4 DEF Covers
  <2>. QED  BY <1>4, <2>5, <2>6 DEF Acknowledge
<1>5. CASE Reconnect(d)
  <2>1. queue' = queue /\ sent'[d] = 0 /\ \A e \in Devices : e # d => sent'[e] = sent[e]
    BY <1>5 DEF Reconnect, TypeOK
  <2>2. Drops(d, 0) /\ Covers(d, 0)
    BY <1>1, <2>1 DEF Drops, Covers
  <2>. QED  BY <1>5, <2>2 DEF Reconnect
<1>. QED  BY <1>2, <1>3, <1>4, <1>5 DEF StreamStep

-----------------------------------------------------------------------------
(* What a device reads, under the invariant. *)

LEMMA ViewFacts ==
  ASSUME Inv, NEW d \in Devices, NEW g \in Games
  PROVE  /\ ViewNamed(d, g) => Posted(g) /\ KnownName(d, g)
         /\ KnownName(d, g) => NoCreate(g)
         /\ Posted(g) => ViewHome(d, g) = server[g].home
         /\ ViewStatus(d, g) = "active" => Posted(g) /\ KnownName(d, g)
<1>. USE DEF Inv
<1>1. ASSUME NEW ops, NEW i \in Pending(d, g, ops)
      PROVE  /\ i \in 1..Len(queue[d]) /\ GoodWrite(d, i) /\ queue[d][i] \in Write
             /\ queue[d][i].game = g /\ queue[d][i].op \in ops
  BY <1>1, QueueType DEF Pending, WriteInv
<1>2. ASSUME NEW ops, Pending(d, g, ops) # {}
      PROVE  Latest(d, g, ops) \in Pending(d, g, ops)
  BY <1>2, LatestIsPending DEF TypeOK
<1>3. ASSUME server[g].named PROVE Posted(g)
  BY <1>3 DEF DocInv, GoodDoc, Absent
<1>4. ASSUME NEW i \in 1..Len(queue[d]), Before(d, i, "name"), queue[d][i].game = g
      PROVE  Pending(d, g, {"name"}) # {}
  BY <1>4, QueueType DEF Before, Pending
<1>5. ViewNamed(d, g) => Posted(g) /\ KnownName(d, g)
  <2>1. ASSUME NEW i \in Pending(d, g, {"name"}) PROVE Posted(g)
    BY <1>1, <2>1 DEF GoodWrite
  <2>. QED  BY <1>3, <2>1 DEF ViewNamed, KnownName
<1>6. Posted(g) => ViewHome(d, g) = server[g].home
  <2>1. ASSUME Posted(g), NEW i \in Pending(d, g, {"create", "seat"})
        PROVE  queue[d][i].home = server[g].home
    <3>1. queue[d][i].op = "create" => server[g] = NewDoc(queue[d][i].home)
      BY <1>1, <2>1 DEF GoodWrite, Posted, Absent
    <3>2. queue[d][i].op = "create" => server[g].home = queue[d][i].home
      BY <3>1 DEF NewDoc, Absent
    <3>. QED  BY <1>1, <2>1, <3>2 DEF GoodWrite
  <2>. QED  BY <1>2, <2>1 DEF ViewHome
<1>7. ViewStatus(d, g) = "active" => Posted(g) /\ KnownName(d, g)
  <2>1. CASE Pending(d, g, StatusOps) = {}
    BY <2>1 DEF ViewStatus, Posted, KnownName, DocInv, GoodDoc
  <2>2. CASE Pending(d, g, StatusOps) # {}
    <3>. DEFINE i == Latest(d, g, StatusOps)
    <3>1. i \in Pending(d, g, StatusOps)
      BY <1>2, <2>2
    <3>2. queue[d][i].op \in StatusOps
      BY <1>1, <3>1
    <3>3. ViewStatus(d, g) = "active" => queue[d][i].op = "start"
      BY <2>2, <3>2 DEF ViewStatus, StatusSetBy, StatusOps
    <3>4. queue[d][i].op = "start" => Posted(g) /\ KnownName(d, g)
      BY <1>1, <1>4, <3>1 DEF GoodWrite, KnownName
    <3>. QED  BY <3>3, <3>4
  <2>. QED  BY <2>1, <2>2
<1>8. KnownName(d, g) => NoCreate(g)
  <2>1. ASSUME server[g].named PROVE NoCreate(g)
    <3>1. SUFFICES ASSUME NEW e \in Devices, NEW j \in 1..Len(queue[e]),
                          queue[e][j].op = "create", queue[e][j].game = g
                   PROVE  FALSE
      BY DEF NoCreate
    <3>2. server[g] \in {Absent, NewDoc(queue[e][j].home)}
      BY <3>1 DEF WriteInv, GoodWrite
    <3>3. Absent.named = FALSE /\ NewDoc(queue[e][j].home).named = FALSE
      BY DEF NewDoc, Absent
    <3>. QED  BY <2>1, <3>2, <3>3
  <2>2. ASSUME NEW i \in Pending(d, g, {"name"}) PROVE NoCreate(g)
    BY <1>1, <2>2 DEF GoodWrite
  <2>. QED  BY <2>1, <2>2 DEF KnownName
<1>. QED  BY <1>5, <1>6, <1>7, <1>8

-----------------------------------------------------------------------------
(* Preservation: a write joins a queue. *)

(* What a device must know of a game to issue a write on it. *)
Licensed(d, w) ==
  /\ w.op = "create" => ~Drawn(w.game) /\ w.guest = NoTeam /\ w.roster = {}
  /\ w.op # "create" => Posted(w.game) /\ NoCreate(w.game)
  /\ w.op \in {"members", "seat", "start", "withdraw", "result"} => KnownName(d, w.game)
  /\ w.op = "seat" => w.home = server[w.game].home
  /\ w.op = "result" => w.homeWin # w.guestWin

LEMMA EnqueueKeepsWrites ==
  ASSUME Inv, NEW d \in Devices, NEW w \in Write, Enqueue(d, w),
         UNCHANGED <<server, sent>>,
         Licensed(d, w)
  PROVE  WriteInv'
<1>. USE DEF Inv
<1>. PICK n \in Nat : n = Len(queue[d])
  BY QueueType
<1>0. n = Len(queue[d]) /\ Len(queue'[d]) = n + 1 /\ queue'[d][n + 1] = w
  BY AppendStep
<1>1. ASSUME NEW e \in Devices, NEW i \in 1..Len(queue[e])
      PROVE  queue'[e][i] = queue[e][i] /\ i \in 1..Len(queue'[e])
  BY AppendStep, QueueType
<1>2. ASSUME NEW e \in Devices, NEW i \in 1..Len(queue'[e])
      PROVE  i \in 1..Len(queue[e]) \/ (e = d /\ i = n + 1)
  BY AppendStep, <1>0, QueueType
<1>3. ASSUME NEW e \in Devices, NEW i \in 1..Len(queue[e]), NEW op, Before(e, i, op)
      PROVE  Before(e, i, op)'
  BY <1>1, <1>3 DEF Before
<1>4. ASSUME NEW op, Pending(d, w.game, {op}) # {} PROVE Before(d, n + 1, op)'
  <2>1. PICK j \in 1..Len(queue[d]) : queue[d][j].game = w.game /\ queue[d][j].op = op
    BY <1>4, QueueType DEF Pending
  <2>2. queue'[d][j] = queue[d][j]
    BY <1>1
  <2>3. j \in 1..n /\ j < n + 1
    BY <1>0
  <2>. QED  BY <1>0, <2>1, <2>2, <2>3 DEF Before
<1>5. \A g \in Games : Posted(g)' <=> Posted(g)
  BY DEF Posted
<1>6. ASSUME NEW e \in Devices, NEW i \in 1..Len(queue[e]), queue[e][i].op = "create"
      PROVE  w.op = "create" => w.game # queue[e][i].game
  BY <1>6, QueueType DEF Licensed, Drawn, Pending, Write
<1>65. ASSUME NEW g \in Games, NoCreate(g), w.op = "create" => w.game # g
       PROVE  NoCreate(g)'
  <2>1. SUFFICES ASSUME NEW e \in Devices, NEW j \in 1..Len(queue'[e]),
                        queue'[e][j].op = "create", queue'[e][j].game = g
                 PROVE  FALSE
    BY DEF NoCreate
  <2>. QED  BY <1>0, <1>1, <1>2, <1>65, <2>1 DEF NoCreate
<1>7. ASSUME NEW e \in Devices, NEW i \in 1..Len(queue[e])
      PROVE  GoodWrite(e, i)'
  <2>1. GoodWrite(e, i) /\ queue[e][i] \in Write
    BY QueueType DEF WriteInv
  <2>3. ASSUME queue[e][i].op # "create", NEW g \in Games, g = queue[e][i].game
        PROVE  NoCreate(g)'
    <3>1. Posted(g) /\ NoCreate(g)
      BY <2>1, <2>3 DEF GoodWrite
    <3>2. w.op = "create" => w.game # g
      BY <3>1 DEF Licensed, Drawn, Posted
    <3>. QED  BY <1>65, <3>1, <3>2
  <2>2. queue[e][i].op = "create" => OnlyCreate(e, i)'
    <3>1. SUFFICES ASSUME queue[e][i].op = "create",
                          NEW f \in Devices, NEW j \in 1..Len(queue'[f]),
                          queue'[f][j].op = "create",
                          queue'[f][j].game = queue'[e][i].game
                   PROVE  f = e /\ j = i
      BY DEF OnlyCreate
    <3>2. j \in 1..Len(queue[f])
      <4>1. CASE f = d /\ j = n + 1
        <5>1. queue'[f][j] = w /\ queue'[e][i] = queue[e][i]
          BY <1>0, <1>1, <4>1
        <5>2. w.op = "create" /\ w.game = queue[e][i].game
          BY <3>1, <5>1
        <5>. QED  BY <1>6, <3>1, <5>2
      <4>. QED  BY <1>2, <3>1, <4>1
    <3>3. queue'[f][j] = queue[f][j] /\ queue'[e][i] = queue[e][i]
      BY <1>1, <3>2
    <3>. QED  BY <2>1, <3>1, <3>2, <3>3 DEF GoodWrite, OnlyCreate
  <2>. QED  BY <1>1, <1>3, <1>5, <2>1, <2>2, <2>3 DEF GoodWrite, Write
<1>8. GoodWrite(d, n + 1)'
  <2>1. w.op = "create" => OnlyCreate(d, n + 1)'
    <3>1. SUFFICES ASSUME w.op = "create",
                          NEW f \in Devices, NEW j \in 1..Len(queue'[f]),
                          queue'[f][j].op = "create",
                          queue'[f][j].game = queue'[d][n + 1].game
                   PROVE  f = d /\ j = n + 1
      BY DEF OnlyCreate
    <3>2. CASE j \in 1..Len(queue[f])
      <4>1. queue'[f][j] = queue[f][j]
        BY <1>1, <3>2
      <4>2. queue[f][j].op = "create" /\ w.game = queue[f][j].game
        BY <1>0, <3>1, <4>1
      <4>. QED  BY <1>6, <3>1, <3>2, <4>2
    <3>. QED  BY <1>2, <3>1, <3>2
  <2>2. w.op = "create" => server[w.game] = Absent
    BY DEF Licensed, Drawn, Posted, DocInv, GoodDoc, Write
  <2>3. w.op # "create" => NoCreate(w.game)'
    BY <1>65 DEF Licensed, Write
  <2>4. ~(n + 1 <= sent'[d])
    BY <1>0 DEF TypeOK
  <2>. QED  BY <1>0, <1>4, <1>5, <2>1, <2>2, <2>3, <2>4 DEF GoodWrite, Licensed, KnownName, Write
<1>. QED  BY <1>2, <1>7, <1>8 DEF WriteInv

(* A pending callback stays licensed while queues grow. *)
LEMMA CallStaysGood ==
  ASSUME TypeOK, NEW d \in Devices, NEW w \in Write, Enqueue(d, w),
         UNCHANGED <<server, sent>>,
         NEW c \in Call, GoodCall(c), w.op = "create" => ~Drawn(w.game)
  PROVE  GoodCall(c)'
<1>1. c.dev \in Devices
  BY DEF Call
<1>2. ASSUME c.game \in Games, NEW ops PROVE
        Pending(c.dev, c.game, ops) \subseteq Pending(c.dev, c.game, ops)'
  BY <1>1, <1>2, PendingGrows
<1>3. ASSUME c.kind = "posted", NEW e \in Devices, e # c.dev
      PROVE  Pending(e, c.game, {"create"})' = {}
  <2>1. /\ c.game \in Games
        /\ Posted(c.game) \/ Pending(c.dev, c.game, {"create"}) # {}
        /\ Pending(e, c.game, {"create"}) = {}
    BY <1>3 DEF GoodCall
  <2>2. w.op = "create" => w.game # c.game
    BY <1>1, <2>1 DEF Drawn, Posted
  <2>3. CASE e # d
    BY <2>1, <2>3, AppendStep DEF Pending
  <2>4. CASE e = d
    <3>1. SUFFICES ASSUME NEW i \in Pending(d, c.game, {"create"})' PROVE FALSE
      BY <2>4
    <3>2. i \in 1..(Len(queue[d]) + 1) /\ queue'[d][i].op = "create" /\ queue'[d][i].game = c.game
      BY AppendStep DEF Pending
    <3>3. i # Len(queue[d]) + 1
      BY <2>2, <3>2, AppendStep
    <3>4. i \in 1..Len(queue[d]) /\ queue'[d][i] = queue[d][i]
      BY <3>2, <3>3, AppendStep, QueueType
    <3>. QED  BY <2>1, <2>4, <3>2, <3>4, QueueType DEF Pending
  <2>. QED  BY <2>3, <2>4
<1>. QED  BY <1>2, <1>3 DEF GoodCall, Posted, KnownName

LEMMA EnqueueKeepsCalls ==
  ASSUME Inv, NEW d \in Devices, NEW w \in Write, Enqueue(d, w),
         UNCHANGED <<server, sent>>,
         w.op = "create" => ~Drawn(w.game),
         \A c \in calls' : c \in calls \/ (c \in Call /\ GoodCall(c)) \/ GoodCall(c)'
  PROVE  CallInv'
BY CallStaysGood DEF Inv, CallInv, TypeOK

-----------------------------------------------------------------------------
(* Preservation: the server applies a write, perhaps not for the first time. *)

LEMMA ServeFacts ==
  ASSUME Inv, NEW d \in Devices, NEW k, Serves(d, k)
  PROVE  \E w \in Write :
           /\ w = queue[d][k] /\ k \in 1..Len(queue[d]) /\ GoodWrite(d, k) /\ w.game \in Games
           /\ \A j \in 1..Len(queue[d]) : j < k => j <= sent[d]
           /\ \A g \in Games : g # w.game => server'[g] = server[g]
           /\ w.op = "create" => /\ server[w.game] \in {Absent, NewDoc(w.home)}
                                 /\ server'[w.game] = NewDoc(w.home)
           /\ w.op # "create" => /\ Posted(w.game)
                                 /\ Updated(server[w.game], w, server'[w.game])
           /\ w.op \in {"members", "seat", "start", "withdraw", "result"} => server[w.game].named
<1>. USE DEF Inv
<1>1. k \in 1..Len(queue[d]) /\ k = sent[d] + 1 /\ sent[d] \in Nat
  BY DEF Serves, TypeOK
<1>2. PICK w \in Write : w = queue[d][k]
  BY <1>1, QueueType
<1>3. GoodWrite(d, k) /\ w.game \in Games
  BY <1>1, <1>2 DEF WriteInv, Write
<1>4. \A j \in 1..Len(queue[d]) : j < k => j <= sent[d]
  BY <1>1, QueueType
<1>5. /\ server'[w.game] = Apply(server[w.game], w)
      /\ \A g \in Games : g # w.game => server'[g] = server[g]
  BY <1>2, <1>3 DEF Serves, TypeOK
<1>6. w.op = "create" => /\ server[w.game] \in {Absent, NewDoc(w.home)}
                         /\ server'[w.game] = NewDoc(w.home)
  BY <1>2, <1>3, <1>5 DEF GoodWrite, Apply
<1>7. ASSUME w.op # "create"
      PROVE  Posted(w.game) /\ Updated(server[w.game], w, server'[w.game])
  <2>1. Posted(w.game) /\ server[w.game] \in GameDoc
    BY <1>2, <1>3, <1>7 DEF GoodWrite, TypeOK
  <2>2. Updated(server[w.game], w, Apply(server[w.game], w))
    BY <1>7, <2>1, ApplyFields DEF Posted
  <2>. QED  BY <1>5, <2>1, <2>2
<1>8. ASSUME Before(d, k, "name") PROVE server[w.game].named
  <2>1. PICK j \in 1..Len(queue[d]) : j < k /\ queue[d][j].op = "name" /\ queue[d][j].game = w.game
    BY <1>2, <1>8 DEF Before
  <2>2. j <= sent[d] /\ GoodWrite(d, j)
    BY <1>4, <2>1 DEF WriteInv
  <2>. QED  BY <2>1, <2>2 DEF GoodWrite
<1>9. w.op \in {"members", "seat", "start", "withdraw", "result"} => server[w.game].named
  BY <1>2, <1>3, <1>8 DEF GoodWrite
<1>. QED  BY <1>1, <1>2, <1>3, <1>4, <1>5, <1>6, <1>7, <1>9

(* What a game loses by no step of the server. *)
Lasts(g) ==
  /\ Posted(g)'
  /\ server'[g].home = server[g].home
  /\ server[g].named => server'[g].named

LEMMA ServeDocs ==
  ASSUME Inv, NEW d \in Devices, NEW k, Serves(d, k)
  PROVE  /\ DocInv'
         /\ \A g \in Games : Posted(g) => Lasts(g)
         /\ \A g \in Games : g = queue[d][k].game =>
              Posted(g)' /\ (queue[d][k].op = "name" => server'[g].named)
         /\ \A e \in Devices : \A j \in 1..Len(queue[e]) :
              queue[e][j].op = "create" =>
                server'[queue[e][j].game] \in {Absent, NewDoc(queue[e][j].home)}
<1>. USE DEF Inv
<1>1. PICK w \in Write :
        /\ w = queue[d][k] /\ k \in 1..Len(queue[d]) /\ GoodWrite(d, k) /\ w.game \in Games
        /\ \A g \in Games : g # w.game => server'[g] = server[g]
        /\ w.op = "create" => /\ server[w.game] \in {Absent, NewDoc(w.home)}
                              /\ server'[w.game] = NewDoc(w.home)
        /\ w.op # "create" => Posted(w.game) /\ Updated(server[w.game], w, server'[w.game])
        /\ w.op \in {"members", "seat", "start", "withdraw", "result"} => server[w.game].named
  BY ServeFacts
<1>2. server[w.game] \in GameDoc /\ GoodDoc(w.game)
  BY <1>1 DEF TypeOK, DocInv
<1>3. CASE w.op = "create"
  <2>1. GoodDoc(w.game)' /\ Posted(w.game)'
    BY <1>1, <1>3 DEF NewDoc, Absent, GoodDoc, Posted
  <2>2. Posted(w.game) => server'[w.game] = server[w.game]
    BY <1>1, <1>3 DEF Posted, Absent
  <2>3. DocInv' /\ \A g \in Games : Posted(g) => Lasts(g)
    BY <1>1, <2>1, <2>2 DEF DocInv, GoodDoc, Posted, Lasts
  <2>4. ASSUME NEW e \in Devices, NEW j \in 1..Len(queue[e]), queue[e][j].op = "create"
        PROVE  server'[queue[e][j].game] \in {Absent, NewDoc(queue[e][j].home)}
    <3>1. GoodWrite(e, j) /\ queue[e][j] \in Write
      BY QueueType DEF WriteInv
    <3>2. queue[e][j].game = w.game => e = d /\ j = k
      BY <1>1, <1>3, <2>4 DEF GoodWrite, OnlyCreate
    <3>3. server[queue[e][j].game] \in {Absent, NewDoc(queue[e][j].home)}
      BY <2>4, <3>1 DEF GoodWrite
    <3>. QED  BY <1>1, <1>3, <3>1, <3>2, <3>3 DEF Write
  <2>. QED  BY <1>1, <1>3, <2>1, <2>3, <2>4
<1>4. CASE w.op # "create"
  <2>1. Posted(w.game) /\ Updated(server[w.game], w, server'[w.game])
    BY <1>1, <1>4
  <2>2. Posted(w.game)'
    <3>1. server'[w.game].status \in {"active", "deleted", "completed", server[w.game].status}
      BY <2>1 DEF Updated
    <3>2. server'[w.game].status # "absent"
      BY <2>1, <3>1 DEF Posted
    <3>. QED  BY <3>2 DEF Posted
  <2>3. \/ server'[w.game].named
        \/ /\ server'[w.game].status \in {"absent", "listing"}
           /\ server'[w.game].guest = NoTeam /\ server'[w.game].roster = {}
    BY <1>1, <1>2, <2>1 DEF Updated, GoodDoc
  <2>4. /\ w.homeWin \in BOOLEAN /\ w.guestWin \in BOOLEAN
        /\ server[w.game].homeWin \in BOOLEAN /\ server[w.game].guestWin \in BOOLEAN
    BY <1>2 DEF Write, GameDoc
  <2>5. w.op = "result" => w.homeWin # w.guestWin
    BY <1>1 DEF GoodWrite
  <2>6. /\ ~(server[w.game].homeWin /\ server[w.game].guestWin)
        /\ server[w.game].status = "completed" =>
             server[w.game].homeWin # server[w.game].guestWin
    BY <1>2 DEF GoodDoc
  <2>7. /\ ~(server'[w.game].homeWin /\ server'[w.game].guestWin)
        /\ server'[w.game].status = "completed" =>
             server'[w.game].homeWin # server'[w.game].guestWin
    <3>1. CASE w.op = "result"
      BY <2>1, <2>4, <2>5, <3>1 DEF Updated
    <3>2. CASE w.op # "result"
      BY <2>1, <2>6, <3>2 DEF Updated
    <3>. QED  BY <3>1, <3>2
  <2>8. DocInv'
    BY <1>1, <2>2, <2>3, <2>7 DEF DocInv, GoodDoc, Posted
  <2>9. \A g \in Games : Posted(g) => Lasts(g)
    <3>1. Lasts(w.game)
      BY <1>1, <2>1, <2>2 DEF Updated, GoodWrite, Lasts
    <3>. QED  BY <1>1, <3>1 DEF Lasts, Posted
  <2>10. w.op = "name" => server'[w.game].named
    BY <2>1 DEF Updated
  <2>11. ASSUME NEW e \in Devices, NEW j \in 1..Len(queue[e]), queue[e][j].op = "create"
         PROVE  server'[queue[e][j].game] \in {Absent, NewDoc(queue[e][j].home)}
    <3>1. GoodWrite(e, j) /\ queue[e][j] \in Write
      BY QueueType DEF WriteInv
    <3>2. queue[e][j].game # w.game
      BY <1>1, <1>4, <2>11 DEF GoodWrite, NoCreate
    <3>3. server[queue[e][j].game] \in {Absent, NewDoc(queue[e][j].home)}
      BY <2>11, <3>1 DEF GoodWrite
    <3>. QED  BY <1>1, <3>1, <3>2, <3>3 DEF Write
  <2>. QED  BY <1>1, <2>2, <2>8, <2>9, <2>10, <2>11
<1>. QED  BY <1>3, <1>4

(* A queued write stays queued, or is the one dropped. *)
LEMMA DropQueued ==
  ASSUME TypeOK, NEW d \in Devices, NEW s \in {0, 1}, Drops(d, s),
         NEW e \in Devices, NEW j \in 1..Len(queue[e])
  PROVE  \/ \E m \in 1..Len(queue'[e]) : queue'[e][m] = queue[e][j]
         \/ e = d /\ s = 1 /\ j = 1
<1>1. CASE e = d /\ j <= s
  BY <1>1, QueueType
<1>2. CASE e = d /\ j > s
  <2>1. j - s \in 1..Len(queue'[e]) /\ (j - s) + s = j
    BY <1>2, QueueType DEF Drops
  <2>2. queue'[e][j - s] = queue[e][j]
    BY <1>2, <2>1 DEF Drops
  <2>. QED  BY <2>1, <2>2
<1>3. CASE e # d
  BY <1>3 DEF Drops
<1>4. j <= s \/ j > s
  BY QueueType
<1>. QED  BY <1>1, <1>2, <1>3, <1>4

(* An older write is still older, or is the one dropped. *)
LEMMA DropBefore ==
  ASSUME TypeOK, NEW d \in Devices, NEW s \in {0, 1}, Drops(d, s),
         NEW e \in Devices, NEW i \in 1..Len(queue'[e]),
         NEW k \in 1..Len(queue[e]), e = d => k = i + s, e # d => k = i,
         NEW j \in 1..Len(queue[e]), j < k
  PROVE  \/ \E m \in 1..Len(queue'[e]) : m < i /\ queue'[e][m] = queue[e][j]
         \/ e = d /\ s = 1 /\ j = 1
<1>1. CASE e = d /\ j <= s
  BY <1>1, QueueType
<1>2. CASE e = d /\ j > s
  <2>1. j - s \in 1..Len(queue'[e]) /\ (j - s) + s = j /\ j - s < i
    BY <1>2, QueueType DEF Drops
  <2>2. queue'[e][j - s] = queue[e][j]
    BY <1>2, <2>1 DEF Drops
  <2>. QED  BY <2>1, <2>2
<1>3. CASE e # d
  BY <1>3 DEF Drops
<1>4. j <= s \/ j > s
  BY QueueType
<1>. QED  BY <1>1, <1>2, <1>3, <1>4

(* Every position of a new queue holds a write of the old one. *)
LEMMA DropSource ==
  ASSUME TypeOK, NEW d \in Devices, NEW s \in {0, 1}, Drops(d, s),
         NEW e \in Devices, NEW i \in 1..Len(queue'[e])
  PROVE  \E k \in 1..Len(queue[e]) :
           queue'[e][i] = queue[e][k] /\ k = IF e = d THEN i + s ELSE i
BY QueueType DEF Drops

LEMMA StreamKeeps ==
  ASSUME Inv, NEW d \in Devices, StreamStep(d)
  PROVE  DocInv' /\ WriteInv' /\ CallInv'
<1>. USE DEF Inv
<1>1. PICK s \in {0, 1} : Drops(d, s) /\ Covers(d, s)
  BY StreamSteps
<1>2. /\ DocInv'
      /\ \A g \in Games : Posted(g) => Lasts(g)
      /\ \A e \in Devices : \A j \in 1..Len(queue[e]) :
           queue[e][j].op = "create" =>
             server'[queue[e][j].game] \in {Absent, NewDoc(queue[e][j].home)}
  <2>1. CASE server' = server
    BY <2>1 DEF DocInv, GoodDoc, Posted, Lasts, WriteInv, GoodWrite
  <2>2. CASE \E k \in 1..Len(queue[d]) : Serves(d, k)
    BY <2>2, ServeDocs
  <2>. QED  BY <2>1, <2>2, StreamSteps
<1>3. ASSUME NEW k \in 1..Len(queue[d]), k <= sent'[d] + s,
             NEW g \in Games, g = queue[d][k].game
      PROVE  Posted(g)' /\ (queue[d][k].op = "name" => server'[g].named)
  <2>1. GoodWrite(d, k)
    BY DEF WriteInv
  <2>2. CASE k <= sent[d]
    <3>1. Posted(g) /\ (queue[d][k].op = "name" => server[g].named)
      BY <1>3, <2>1, <2>2 DEF GoodWrite
    <3>. QED  BY <1>2, <3>1 DEF Lasts
  <2>3. CASE Serves(d, k)
    BY <1>3, <2>3, ServeDocs
  <2>. QED  BY <1>1, <1>3, <2>2, <2>3 DEF Covers
<1>4. ASSUME NEW e \in Devices, NEW i \in 1..Len(queue'[e]) PROVE GoodWrite(e, i)'
  <2>1. PICK k \in 1..Len(queue[e]) :
          queue'[e][i] = queue[e][k] /\ k = IF e = d THEN i + s ELSE i
    BY <1>1, DropSource
  <2>0. (e = d => k = i + s) /\ (e # d => k = i)
    BY <2>1
  <2>. PICK v : v = queue[e][k]
    OBVIOUS
  <2>2. v = queue[e][k] /\ v = queue'[e][i] /\ GoodWrite(e, k) /\ v \in Write /\ v.game \in Games
    BY <2>1, QueueType DEF WriteInv, Write
  <2>3. v.op = "create" =>
          server'[v.game] \in {Absent, NewDoc(v.home)} /\ OnlyCreate(e, i)'
    <3>1. SUFFICES ASSUME v.op = "create", NEW f \in Devices, NEW j \in 1..Len(queue'[f]),
                          queue'[f][j].op = "create", queue'[f][j].game = v.game
                   PROVE  f = e /\ j = i
      BY <1>2, <2>2 DEF OnlyCreate
    <3>2. PICK l \in 1..Len(queue[f]) :
            queue'[f][j] = queue[f][l] /\ l = IF f = d THEN j + s ELSE j
      BY <1>1, DropSource
    <3>3. f = e /\ l = k
      BY <2>2, <3>1, <3>2 DEF GoodWrite, OnlyCreate
    <3>4. i \in Nat /\ j \in Nat
      BY <1>1, QueueType DEF Drops
    <3>. QED  BY <2>1, <3>2, <3>3, <3>4
  <2>4. v.op # "create" => Posted(v.game)' /\ NoCreate(v.game)'
    <3>1. SUFFICES ASSUME v.op # "create" PROVE Posted(v.game)' /\ NoCreate(v.game)'
      OBVIOUS
    <3>2. Posted(v.game) /\ NoCreate(v.game)
      BY <2>2, <3>1 DEF GoodWrite
    <3>3. ASSUME NEW f \in Devices, NEW j \in 1..Len(queue'[f]),
                 queue'[f][j].op = "create", queue'[f][j].game = v.game
          PROVE  FALSE
      <4>1. PICK l \in 1..Len(queue[f]) :
              queue'[f][j] = queue[f][l] /\ l = IF f = d THEN j + s ELSE j
        BY <1>1, DropSource
      <4>. QED  BY <3>2, <3>3, <4>1 DEF NoCreate
    <3>. QED  BY <1>2, <2>2, <3>2, <3>3 DEF Lasts, NoCreate
  <2>5. v.op \in {"members", "seat", "start", "withdraw", "result"} =>
          server'[v.game].named \/ Before(e, i, "name")'
    <3>1. SUFFICES ASSUME v.op \in {"members", "seat", "start", "withdraw", "result"}
                   PROVE  server'[v.game].named \/ Before(e, i, "name")'
      OBVIOUS
    <3>2. Posted(v.game) /\ (server[v.game].named \/ Before(e, k, "name"))
      BY <2>2, <3>1 DEF GoodWrite
    <3>3. CASE server[v.game].named
      BY <1>2, <2>2, <3>2, <3>3 DEF Lasts
    <3>4. CASE Before(e, k, "name")
      <4>1. PICK j \in 1..Len(queue[e]) :
              j < k /\ queue[e][j].op = "name" /\ queue[e][j].game = v.game
        BY <2>2, <3>4 DEF Before
      <4>2. \/ \E m \in 1..Len(queue'[e]) : m < i /\ queue'[e][m] = queue[e][j]
            \/ e = d /\ s = 1 /\ j = 1
        <5>1. j < k
          BY <4>1
        <5>. QED  BY <1>1, <2>0, <5>1, DropBefore
      <4>3. CASE \E m \in 1..Len(queue'[e]) : m < i /\ queue'[e][m] = queue[e][j]
        BY <2>2, <4>1, <4>3 DEF Before
      <4>4. CASE e = d /\ s = 1 /\ j = 1
        <5>1. j <= sent'[d] + s
          BY <1>1, <4>4 DEF Drops
        <5>. QED  BY <1>3, <2>2, <4>1, <4>4, <5>1
      <4>. QED  BY <4>2, <4>3, <4>4
    <3>. QED  BY <3>2, <3>3, <3>4
  <2>6. v.op = "seat" => v.home = server'[v.game].home
    BY <1>2, <2>2 DEF GoodWrite, Lasts
  <2>7. v.op = "result" => v.homeWin # v.guestWin
    BY <2>2 DEF GoodWrite
  <2>8. i <= sent'[e] => Posted(v.game)' /\ (v.op = "name" => server'[v.game].named)
    <3>1. SUFFICES ASSUME i <= sent'[e]
                   PROVE  Posted(v.game)' /\ (v.op = "name" => server'[v.game].named)
      OBVIOUS
    <3>2. CASE e = d
      <4>1. k <= sent'[d] + s
        BY <1>1, <2>1, <3>1, <3>2, QueueType DEF Drops
      <4>. QED  BY <1>3, <2>2, <3>2, <4>1
    <3>3. CASE e # d
      <4>1. k <= sent[e]
        BY <1>1, <2>1, <3>1, <3>3 DEF Drops
      <4>. QED  BY <1>2, <2>2, <4>1 DEF GoodWrite, Lasts
    <3>. QED  BY <3>2, <3>3
  <2>. QED  BY <2>2, <2>3, <2>4, <2>5, <2>6, <2>7, <2>8 DEF GoodWrite
<1>5. ASSUME NEW e \in Devices, NEW g \in Games, NEW op, Pending(e, g, {op}) # {}
      PROVE  \/ Pending(e, g, {op})' # {}
             \/ Posted(g)' /\ (op = "name" => server'[g].named)
  <2>1. PICK j \in 1..Len(queue[e]) : queue[e][j].game = g /\ queue[e][j].op = op
    BY <1>5, QueueType DEF Pending
  <2>2. \/ \E m \in 1..Len(queue'[e]) : queue'[e][m] = queue[e][j]
        \/ e = d /\ s = 1 /\ j = 1
    BY <1>1, DropQueued
  <2>3. CASE \E m \in 1..Len(queue'[e]) : queue'[e][m] = queue[e][j]
    BY <1>1, <2>1, <2>3 DEF Pending, Drops
  <2>4. CASE e = d /\ s = 1 /\ j = 1
    <3>1. j <= sent'[d] + s
      BY <1>1, <2>4 DEF Drops
    <3>. QED  BY <1>3, <2>1, <2>4, <3>1
  <2>. QED  BY <2>2, <2>3, <2>4
<1>6. ASSUME NEW c \in calls PROVE GoodCall(c)'
  <2>1. GoodCall(c) /\ c.dev \in Devices
    BY DEF CallInv, TypeOK, Call
  <2>2. ASSUME c.kind = "posted", NEW e \in Devices, e # c.dev
        PROVE  Pending(e, c.game, {"create"})' = {}
    <3>1. Pending(e, c.game, {"create"}) = {}
      BY <2>1, <2>2 DEF GoodCall
    <3>2. ASSUME NEW i \in Pending(e, c.game, {"create"})' PROVE FALSE
      <4>1. i \in 1..Len(queue'[e]) /\ queue'[e][i].op = "create" /\ queue'[e][i].game = c.game
        BY <1>1 DEF Pending, Drops
      <4>0. i \in 1..Len(queue'[e])
        BY <4>1
      <4>2. PICK k \in 1..Len(queue[e]) :
              queue'[e][i] = queue[e][k] /\ k = IF e = d THEN i + s ELSE i
        BY <1>1, <4>0, DropSource
      <4>. QED  BY <3>1, <4>1, <4>2, QueueType DEF Pending
    <3>. QED  BY <3>2
  <2>3. c.game \in Games /\ Posted(c.game) => Posted(c.game)' /\ (server[c.game].named => server'[c.game].named)
    BY <1>2 DEF Lasts
  <2>. QED  BY <1>5, <2>1, <2>2, <2>3 DEF GoodCall, KnownName
<1>. QED  BY <1>2, <1>4, <1>6, StreamSteps DEF WriteInv, CallInv

-----------------------------------------------------------------------------
(* The invariant is inductive. *)

(* Steps that leave the server and the queues alone. *)
LEMMA CallsOnlyKeeps ==
  ASSUME Inv, UNCHANGED <<server, queue, sent>>,
         \A c \in calls' : c \in calls \/ GoodCall(c)
  PROVE  DocInv' /\ WriteInv' /\ CallInv'
<1>1. DocInv' /\ WriteInv'
  BY DEF Inv, DocInv, WriteInv, GoodDoc, GoodWrite, OnlyCreate, NoCreate, Before, Posted
<1>2. CallInv'
  BY DEF Inv, CallInv, GoodCall, KnownName, Pending, Posted
<1>. QED  BY <1>1, <1>2

(* Steps that append one write. *)
LEMMA EnqueueKeeps ==
  ASSUME Inv, NEW d \in Devices, NEW w \in Write, Enqueue(d, w),
         UNCHANGED <<server, sent>>,
         Licensed(d, w),
         \A c \in calls' : c \in calls \/ (c \in Call /\ GoodCall(c)) \/ GoodCall(c)'
  PROVE  DocInv' /\ WriteInv' /\ CallInv'
<1>1. DocInv'
  BY DEF Inv, DocInv, GoodDoc, Posted
<1>2. w.op = "create" => ~Drawn(w.game)
  BY DEF Licensed
<1>. QED  BY <1>1, <1>2, EnqueueKeepsWrites, EnqueueKeepsCalls

LEMMA InvNext == Inv /\ [Next]_vars => Inv'
<1>. SUFFICES ASSUME Inv, [Next]_vars PROVE DocInv' /\ WriteInv' /\ CallInv'
  BY TypeNext DEF Inv
<1>. USE DEF Inv
<1>1. ASSUME NEW op \in WriteOps, NEW g \in Games
      PROVE  /\ Blank(op, g) \in Write /\ Blank(op, g).op = op /\ Blank(op, g).game = g
  BY BuiltTypes DEF Blank
<1>2. CASE UNCHANGED vars
  BY <1>2, CallsOnlyKeeps DEF vars
<1>3. ASSUME NEW d \in Devices, StreamStep(d) PROVE DocInv' /\ WriteInv' /\ CallInv'
  BY <1>3, StreamKeeps
<1>4. ASSUME NEW d \in Devices, NEW g \in Games, NewGame(d, g)
      PROVE  DocInv' /\ WriteInv' /\ CallInv'
  <2>. DEFINE w == [Blank("create", g) EXCEPT !.home = ud[d]]
              c == Pend(d, "posted", g, NoTeam)
  <2>1. w \in Write /\ w.op = "create" /\ w.game = g /\ w.guest = NoTeam /\ w.roster = {}
    BY <1>1 DEF WriteOps, Write, Blank, TypeOK
  <2>2. /\ Enqueue(d, w) /\ ~Drawn(g) /\ UNCHANGED <<server, sent>>
        /\ calls' = calls \cup {c}
    BY <1>4 DEF NewGame
  <2>3. Licensed(d, w)
    BY <2>1, <2>2 DEF Licensed
  <2>4. WriteInv'
    BY <2>1, <2>2, <2>3, EnqueueKeepsWrites
  <2>5. DocInv'
    BY <2>2 DEF DocInv, GoodDoc, Posted
  <2>6. Pending(d, g, {"create"})' # {}
    <3>1. Len(queue[d]) + 1 \in DOMAIN queue'[d] /\ queue'[d][Len(queue[d]) + 1] = w
      BY <2>1, <2>2, AppendStep, QueueType
    <3>. QED  BY <2>1, <3>1 DEF Pending
  <2>61. ASSUME NEW e \in Devices, e # d PROVE Pending(e, g, {"create"})' = {}
    <3>1. Pending(e, g, {"create"}) = {}
      BY <2>2 DEF Drawn
    <3>2. queue'[e] = queue[e]
      BY <2>1, <2>2, <2>61, AppendStep
    <3>. QED  BY <3>1, <3>2 DEF Pending
  <2>7. GoodCall(c)'
    BY <2>6, <2>61 DEF GoodCall, Pend
  <2>8. \A cc \in calls : GoodCall(cc)'
    BY <2>1, <2>2, CallStaysGood DEF CallInv, TypeOK
  <2>. QED  BY <2>2, <2>4, <2>5, <2>7, <2>8 DEF CallInv
<1>5. ASSUME NEW d \in Devices, NEW g \in Games,
             Pend(d, "posted", g, NoTeam) \in calls, Pending(d, g, {"create"}) = {}
      PROVE  Posted(g) /\ NoCreate(g)
  <2>1. Posted(g) /\ \A e \in Devices : e # d => Pending(e, g, {"create"}) = {}
    BY <1>5 DEF CallInv, GoodCall, Pend
  <2>2. \A e \in Devices : Pending(e, g, {"create"}) = {}
    BY <1>5, <2>1
  <2>. QED  BY <2>1, <2>2, QueueType DEF Pending, NoCreate
<1>6. ASSUME NEW d \in Devices, NEW g \in Games, Posted(g), NoCreate(g)
      PROVE  Licensed(d, Blank("name", g)) /\ Blank("name", g) \in Write
  BY <1>1, <1>6 DEF Licensed, WriteOps
<1>7. ASSUME NEW d \in Devices, NEW g \in Games, NewGamePosted(d, g)
      PROVE  DocInv' /\ WriteInv' /\ CallInv'
  <2>1. Posted(g) /\ NoCreate(g) /\ Enqueue(d, Blank("name", g)) /\ UNCHANGED <<server, sent>>
    BY <1>5, <1>7 DEF NewGamePosted
  <2>. PICK w : w = Blank("name", g)
    OBVIOUS
  <2>4. w \in Write /\ w.op = "name" /\ w.game = g /\ Enqueue(d, w)
    BY <1>1, <2>1 DEF WriteOps
  <2>5. Pending(d, g, {"name"})' # {}
    <3>1. Len(queue[d]) + 1 \in DOMAIN queue'[d] /\ queue'[d][Len(queue[d]) + 1] = w
      BY <2>4, AppendStep, QueueType
    <3>. QED  BY <2>4, <3>1 DEF Pending
  <2>2. GoodCall(Pend(d, "members", g, ud[d]))'
    BY <2>1, <2>5 DEF GoodCall, Pend, KnownName, Posted
  <2>3. \A c \in calls' : c \in calls \/ GoodCall(c)'
    <3>1. PICK c : c = Pend(d, "members", g, ud[d])
      OBVIOUS
    <3>2. GoodCall(c)' /\ calls' \subseteq calls \cup {c}
      BY <1>7, <2>2, <3>1 DEF NewGamePosted, GoodCall, Pend
    <3>. QED  BY <3>2
  <2>. QED  BY <1>6, <2>1, <2>3, EnqueueKeeps
<1>8. ASSUME NEW d \in Devices, NEW g \in Games, NewGamePostedTraps(d, g)
      PROVE  DocInv' /\ WriteInv' /\ CallInv'
  <2>1. Posted(g) /\ NoCreate(g) /\ Enqueue(d, Blank("name", g)) /\ UNCHANGED <<server, sent>>
    BY <1>5, <1>8 DEF NewGamePostedTraps
  <2>2. \A c \in calls' : c \in calls
    BY <1>8 DEF NewGamePostedTraps, LoseCalls
  <2>. QED  BY <1>6, <2>1, <2>2, EnqueueKeeps
<1>9. ASSUME NEW d \in Devices, NEW g \in Games, NewGameMembers(d, g)
      PROVE  DocInv' /\ WriteInv' /\ CallInv'
  <2>1. PICK t \in Teams :
          /\ Pend(d, "members", g, t) \in calls
          /\ Enqueue(d, [Blank("members", g) EXCEPT !.roster = {t}])
          /\ calls' = calls \ {Pend(d, "members", g, t)}
          /\ UNCHANGED <<server, ud, sent>>
    BY <1>9 DEF NewGameMembers
  <2>2. Posted(g) /\ KnownName(d, g) /\ NoCreate(g)
    BY <2>1, ViewFacts DEF CallInv, GoodCall, Pend
  <2>3. [Blank("members", g) EXCEPT !.roster = {t}] \in Write
    BY BuiltTypes DEF WriteOps, Write, TeamIDs
  <2>4. Licensed(d, [Blank("members", g) EXCEPT !.roster = {t}])
    BY <2>2 DEF Licensed, Blank
  <2>. QED  BY <2>1, <2>3, <2>4, EnqueueKeeps
<1>10. ASSUME NEW d \in Devices, NEW g \in Games, JoinGameClick(d, g)
       PROVE  DocInv' /\ WriteInv' /\ CallInv'
  <2>1. Posted(g) /\ KnownName(d, g)
    BY <1>10, ViewFacts DEF JoinGameClick
  <2>2. GoodCall(Pend(d, "hosting", g, ud[d]))
    BY <2>1 DEF GoodCall, Pend
  <2>. QED  BY <1>10, <2>2, CallsOnlyKeeps DEF JoinGameClick
<1>11. ASSUME NEW d \in Devices, NEW g \in Games, CheckedHosting(d, g)
       PROVE  DocInv' /\ WriteInv' /\ CallInv'
  <2>1. PICK t \in Teams :
          /\ Pend(d, "hosting", g, t) \in calls
          /\ calls' = (calls \ {Pend(d, "hosting", g, t)}) \cup
               (IF Listings(d, t) # {} THEN {} ELSE {Pend(d, "listing", g, ud[d])})
          /\ UNCHANGED <<server, queue, ud, sent>>
    BY <1>11 DEF CheckedHosting
  <2>2. GoodCall(Pend(d, "listing", g, ud[d]))
    BY <2>1 DEF CallInv, GoodCall, Pend
  <2>. QED  BY <2>1, <2>2, CallsOnlyKeeps
<1>12. ASSUME NEW d \in Devices, NEW g \in Games, NEW t \in TeamIDs,
              Pend(d, "listing", g, t) \in calls
       PROVE  /\ Posted(g) /\ KnownName(d, g)
              /\ SeatWrite(d, g, t) \in Write /\ Licensed(d, SeatWrite(d, g, t))
  <2>1. Posted(g) /\ KnownName(d, g) /\ NoCreate(g)
    BY <1>12, ViewFacts DEF CallInv, GoodCall, Pend
  <2>2. Blank("seat", g) \in Write /\ ViewHome(d, g) \in TeamIDs
    BY BuiltTypes, ViewTypes DEF WriteOps
  <2>3. SeatWrite(d, g, t) \in Write
    BY <2>2 DEF SeatWrite, Write
  <2>4. /\ SeatWrite(d, g, t).op = "seat" /\ SeatWrite(d, g, t).game = g
        /\ SeatWrite(d, g, t).home = server[g].home
    BY <2>1, ViewFacts DEF SeatWrite, Blank
  <2>5. Licensed(d, SeatWrite(d, g, t))
    BY <2>1, <2>4 DEF Licensed
  <2>. QED  BY <2>1, <2>3, <2>5
<1>13. ASSUME NEW d \in Devices, NEW g \in Games, JoinGameSeats(d, g)
       PROVE  DocInv' /\ WriteInv' /\ CallInv'
  <2>1. PICK t \in Teams :
          /\ Pend(d, "listing", g, t) \in calls
          /\ Enqueue(d, SeatWrite(d, g, t))
          /\ calls' = (calls \ {Pend(d, "listing", g, t)}) \cup
               {[Pend(d, "guest", g, t) EXCEPT !.roster = ViewRoster(d, g)]}
          /\ UNCHANGED <<server, ud, sent>>
    BY <1>13 DEF JoinGameSeats
  <2>. DEFINE c == [Pend(d, "guest", g, t) EXCEPT !.roster = ViewRoster(d, g)]
  <2>2. t \in TeamIDs
    BY DEF TeamIDs
  <2>3. Pend(d, "guest", g, t) \in Call /\ ViewRoster(d, g) \in SUBSET TeamIDs
    BY <2>2, BuiltTypes, ViewTypes DEF CallKinds
  <2>4. c \in Call
    BY <2>3 DEF Call
  <2>5. GoodCall(c)
    BY <1>12, <2>1, <2>2 DEF GoodCall, Pend
  <2>. QED  BY <1>12, <2>1, <2>2, <2>4, <2>5, EnqueueKeeps
<1>14. ASSUME NEW d \in Devices, NEW g \in Games, JoinGameSeatsTraps(d, g)
       PROVE  DocInv' /\ WriteInv' /\ CallInv'
  <2>1. NoTeam \in TeamIDs
    BY DEF TeamIDs
  <2>2. \A c \in calls' : c \in calls
    BY <1>14 DEF JoinGameSeatsTraps, LoseCalls
  <2>. QED  BY <1>12, <1>14, <2>1, <2>2, EnqueueKeeps DEF JoinGameSeatsTraps
<1>15. ASSUME NEW d \in Devices, NEW g \in Games, NEW c \in InFlight(d), c.game = g,
              c.kind \in {"guest", "commit"}
       PROVE  c \in Call /\ Posted(g) /\ KnownName(d, g) /\ NoCreate(g)
  BY <1>15, ViewFacts DEF InFlight, CallInv, GoodCall, TypeOK
<1>16. ASSUME NEW d \in Devices, NEW g \in Games, JoinGameStarts(d, g)
       PROVE  DocInv' /\ WriteInv' /\ CallInv'
  <2>1. PICK c \in InFlight(d) :
          /\ c.kind = "guest" /\ c.game = g
          /\ Enqueue(d, StartWrite(g, c))
          /\ calls' = calls \ {c}
          /\ UNCHANGED <<server, ud, sent>>
    BY <1>16 DEF JoinGameStarts
  <2>2. c \in Call /\ Posted(g) /\ KnownName(d, g) /\ NoCreate(g)
    BY <1>15, <2>1
  <2>3. StartWrite(g, c) \in Write
    BY <2>2, BuiltTypes DEF StartWrite, WriteOps, Write, Call
  <2>4. StartWrite(g, c).op = "start" /\ StartWrite(g, c).game = g
    BY DEF StartWrite, Blank
  <2>5. Licensed(d, StartWrite(g, c))
    BY <2>2, <2>4 DEF Licensed
  <2>. QED  BY <2>1, <2>3, <2>5, EnqueueKeeps
<1>17. ASSUME NEW d \in Devices,
              OpenUnnamedListingTraps(d) \/ DeleteListingTraps(d) \/ Restart(d)
       PROVE  DocInv' /\ WriteInv' /\ CallInv'
  <2>1. UNCHANGED <<server, queue, sent>> /\ \A c \in calls' : c \in calls
    BY <1>17 DEF OpenUnnamedListingTraps, DeleteListingTraps, Restart, LoseCalls
  <2>. QED  BY <2>1, CallsOnlyKeeps
<1>18. ASSUME NEW d \in Devices, DeleteListingClick(d)
       PROVE  DocInv' /\ WriteInv' /\ CallInv'
  <2>1. GoodCall(Pend(d, "delete", NoGame, ud[d]))
    BY DEF GoodCall, Pend
  <2>. QED  BY <1>18, <2>1, CallsOnlyKeeps DEF DeleteListingClick
<1>19. ASSUME NEW d \in Devices, DeleteListing(d)
       PROVE  DocInv' /\ WriteInv' /\ CallInv'
  <2>1. /\ \E g \in Games : ViewNamed(d, g) /\ Enqueue(d, Blank("withdraw", g))
        /\ \A c \in calls' : c \in calls
        /\ UNCHANGED <<server, sent>>
    BY <1>19 DEF DeleteListing, Listings
  <2>2. PICK g \in Games : ViewNamed(d, g) /\ Enqueue(d, Blank("withdraw", g))
    BY <2>1
  <2>3. Licensed(d, Blank("withdraw", g)) /\ Blank("withdraw", g) \in Write
    BY <1>1, <2>2, ViewFacts DEF Licensed, WriteOps
  <2>. QED  BY <2>1, <2>2, <2>3, EnqueueKeeps
<1>20. ASSUME NEW d \in Devices, NEW g \in Games, ReportClick(d, g)
       PROVE  DocInv' /\ WriteInv' /\ CallInv'
  <2>1. Posted(g) /\ KnownName(d, g)
    BY <1>20, ViewFacts DEF ReportClick
  <2>2. \A win \in BOOLEAN : GoodCall([Pend(d, "commit", g, NoTeam) EXCEPT !.homeWin = win])
    BY <2>1 DEF GoodCall, Pend
  <2>. QED  BY <1>20, <2>2, CallsOnlyKeeps DEF ReportClick
<1>21. ASSUME NEW d \in Devices, NEW g \in Games, ReportClickTraps(d, g)
       PROVE  DocInv' /\ WriteInv' /\ CallInv'
  <2>1. UNCHANGED <<server, queue, sent>> /\ \A c \in calls' : c \in calls
    BY <1>21 DEF ReportClickTraps, LoseCalls
  <2>. QED  BY <2>1, CallsOnlyKeeps
<1>22. ASSUME NEW d \in Devices, NEW g \in Games, CommitResult(d, g)
       PROVE  DocInv' /\ WriteInv' /\ CallInv'
  <2>1. PICK c \in InFlight(d) :
          /\ c.kind = "commit" /\ c.game = g
          /\ Enqueue(d, [Blank("result", g) EXCEPT !.homeWin = c.homeWin,
                                                   !.guestWin = ~c.homeWin])
          /\ calls' = calls \ {c}
          /\ UNCHANGED <<server, ud, sent>>
    BY <1>22 DEF CommitResult
  <2>. DEFINE w == [Blank("result", g) EXCEPT !.homeWin = c.homeWin, !.guestWin = ~c.homeWin]
  <2>2. c \in Call /\ Posted(g) /\ KnownName(d, g) /\ NoCreate(g)
    BY <1>15, <2>1
  <2>3. c.homeWin \in BOOLEAN /\ (~c.homeWin) \in BOOLEAN
    BY <2>2 DEF Call
  <2>4. w \in Write
    <3>1. Blank("result", g) \in Write
      BY BuiltTypes DEF WriteOps
    <3>. QED  BY <2>3, <3>1 DEF Write
  <2>5. w.op = "result" /\ w.game = g /\ w.homeWin = c.homeWin /\ w.guestWin = (~c.homeWin)
    BY DEF Blank
  <2>6. w.homeWin # w.guestWin
    BY <2>3, <2>5
  <2>7. Licensed(d, w)
    BY <2>2, <2>5, <2>6 DEF Licensed
  <2>. QED  BY <2>1, <2>4, <2>7, EnqueueKeeps
<1>23. ASSUME NEW d \in Devices, TeamChange(d)
       PROVE  DocInv' /\ WriteInv' /\ CallInv'
  BY <1>23, CallsOnlyKeeps DEF TeamChange
<1>. QED
  BY <1>2, <1>3, <1>4, <1>7, <1>8, <1>9, <1>10, <1>11, <1>13, <1>14, <1>16, <1>17,
     <1>18, <1>19, <1>20, <1>21, <1>22, <1>23
     DEF Next, DeviceStep, StreamStep, Callback, Click

LEMMA InvInit == Init => Inv
<1>. SUFFICES ASSUME Init PROVE Inv
  OBVIOUS
<1>1. TypeOK
  <2>1. <<>> \in Seq(Write)
    BY EmptySeq
  <2>. QED  BY <2>1, BuiltTypes, ConstantsAssumption DEF Init, TypeOK
<1>2. DocInv
  BY DEF Init, DocInv, GoodDoc, Posted, Absent
<1>3. WriteInv /\ CallInv
  BY EmptySeq DEF Init, WriteInv, CallInv
<1>. QED  BY <1>1, <1>2, <1>3 DEF Inv

LEMMA Invariance == Spec => []Inv
BY InvInit, InvNext, PTL DEF Spec

(* Nothing happens to a game, through any device's queue, before the host's *)
(* second write has named it (newGame, joinGame, deleteListingClick).       *)
THEOREM NamedFirst == Spec => []OnlyNamedMoves
<1>1. Inv => OnlyNamedMoves
  BY DEF Inv, DocInv, GoodDoc, OnlyNamedMoves
<1>. QED  BY <1>1, Invariance, PTL

(* However many members report, and however late a join comes, a played    *)
(* game has one winner (completeGame's three fields travel together).      *)
THEOREM SingleWinner == Spec => []OneWinner
<1>1. Inv => OneWinner
  BY DEF Inv, DocInv, GoodDoc, OneWinner
<1>. QED  BY <1>1, Invariance, PTL

(* Only a device's stream changes the server. *)
LEMMA ServerSteps ==
  ASSUME Inv, [Next]_vars
  PROVE  server' = server \/ \E d \in Devices : \E k \in 1..Len(queue[d]) : Serves(d, k)
<1>1. CASE UNCHANGED vars
  BY <1>1 DEF vars
<1>2. ASSUME NEW d \in Devices, NEW g \in Games, Callback(d, g)
      PROVE  server' = server
  BY <1>2 DEF Callback, NewGamePosted, NewGamePostedTraps, NewGameMembers, CheckedHosting,
              JoinGameSeats, JoinGameSeatsTraps, JoinGameStarts, CommitResult
<1>3. ASSUME NEW d \in Devices, NEW g \in Games, Click(d, g)
      PROVE  server' = server
  BY <1>3 DEF Click, NewGame, JoinGameClick, ReportClick, ReportClickTraps
<1>4. ASSUME NEW d \in Devices, DeviceStep(d), ~StreamStep(d)
      PROVE  server' = server
  BY <1>4 DEF DeviceStep, StreamStep, OpenUnnamedListingTraps, DeleteListingClick, DeleteListing,
              DeleteListingTraps, TeamChange, Restart
<1>5. ASSUME NEW d \in Devices, StreamStep(d)
      PROVE  server' = server \/ \E k \in 1..Len(queue[d]) : Serves(d, k)
  BY <1>5, StreamSteps DEF Inv
<1>. QED  BY <1>1, <1>2, <1>3, <1>4, <1>5 DEF Next

(* joinGame rewrites the teams array from an old read, and still the host  *)
(* of a posted game never changes.                                         *)
THEOREM HomeKept == Spec => HomeFixed
<1>. DEFINE Kept == \A g \in Games : server[g].status # "absent" =>
                                       server'[g].home = server[g].home
<1>1. Inv /\ [Next]_vars => [Kept]_vars
  BY ServerSteps, ServeDocs DEF Posted, Lasts
<1>. QED  BY <1>1, Invariance, PTL DEF Spec, HomeFixed

(* What is off the board stays off whatever the server applies. *)
Off(g) == server[g].status \notin {"absent", "listing"}

LEMMA ServeOff ==
  ASSUME Inv, NEW d \in Devices, NEW k, Serves(d, k), NEW g \in Games, Off(g)
  PROVE  Off(g)'
<1>1. PICK w \in Write :
        /\ \A h \in Games : h # w.game => server'[h] = server[h]
        /\ w.op = "create" => server[w.game] \in {Absent, NewDoc(w.home)}
        /\ w.op # "create" => Updated(server[w.game], w, server'[w.game])
  BY ServeFacts
<1>2. CASE g # w.game
  BY <1>1, <1>2 DEF Off
<1>3. CASE g = w.game
  <2>1. w.op # "create"
    <3>1. ASSUME NEW t, server[g] \in {Absent, NewDoc(t)}
          PROVE  server[g].status \in {"absent", "listing"}
      <4>1. Absent.status = "absent" /\ NewDoc(t).status = "listing"
        BY DEF Absent, NewDoc
      <4>. QED  BY <3>1, <4>1
    <3>. QED  BY <1>1, <1>3, <3>1 DEF Off
  <2>2. server'[g].status \in {"active", "deleted", "completed", server[g].status}
    BY <1>1, <1>3, <2>1 DEF Updated
  <2>. QED  BY <2>2 DEF Off
<1>. QED  BY <1>2, <1>3

(* A game started, played or withdrawn is never offered again: the only     *)
(* write that makes a listing is the one that creates the document.         *)
THEOREM OffForGood == Spec => NeverRelisted
<1>. DEFINE StaysOff == \A g \in Games : server[g].status \notin {"absent", "listing"} =>
                                           server'[g].status \notin {"absent", "listing"}
<1>1. Inv /\ [Next]_vars => [StaysOff]_vars
  BY ServerSteps, ServeOff DEF Off
<1>. QED  BY <1>1, Invariance, PTL DEF Spec, NeverRelisted

-----------------------------------------------------------------------------
(* With teams that stay put (MovableDevices = {}) a team that joins is not  *)
(* the home team, and a game is started or reported only behind a seated    *)
(* guest: one more layer of the invariant, again for documents, for queued  *)
(* writes and for pending callbacks.                                        *)

Outsider(t, g) == t # NoTeam /\ t # server[g].home
Seated(g)      == server[g].guest # NoTeam
Started(g)     == \E t \in server[g].roster : Outsider(t, g)

KnownGuest(d, g) == Seated(g) \/ Pending(d, g, {"seat"}) # {}
KnownStart(d, g) == Started(g) \/ Pending(d, g, {"start"}) # {}

FairDoc(g) ==
  /\ server[g].status \in {"active", "completed"} => Seated(g) /\ Started(g)
  /\ Seated(g) => server[g].guest # server[g].home

FairWrite(d, i) ==
  LET w == queue[d][i] IN
  /\ w.op = "seat" => Outsider(w.guest, w.game)
  /\ w.op \in {"start", "result"} => Seated(w.game) \/ Before(d, i, "seat")
  /\ w.op = "start" => \E t \in w.roster : Outsider(t, w.game)
  /\ w.op = "result" => Started(w.game) \/ Before(d, i, "start")
  /\ i <= sent[d] => /\ w.op = "seat" => Seated(w.game)
                     /\ w.op = "start" => Started(w.game)

FairCall(c) ==
  /\ c.kind \in {"hosting", "listing", "guest"} => Outsider(c.team, c.game)
  /\ c.kind = "hosting" => c.team = ud[c.dev]
  /\ c.kind \in {"guest", "commit"} => KnownGuest(c.dev, c.game)
  /\ c.kind = "commit" => KnownStart(c.dev, c.game)

FairInv ==
  /\ \A g \in Games : FairDoc(g)
  /\ \A d \in Devices : \A i \in 1..Len(queue[d]) : FairWrite(d, i)
  /\ \A c \in calls : FairCall(c)

(* What a device must know of the guest to issue a write. *)
FairLicensed(d, w) ==
  /\ w.op = "seat" => Outsider(w.guest, w.game)
  /\ w.op \in {"start", "result"} => KnownGuest(d, w.game)
  /\ w.op = "start" => \E t \in w.roster : Outsider(t, w.game)
  /\ w.op = "result" => KnownStart(d, w.game)

(* A device that sees an active game knows of its guest and of its start. *)
LEMMA ActiveFacts ==
  ASSUME Inv, FairInv, NEW d \in Devices, NEW g \in Games, ViewStatus(d, g) = "active"
  PROVE  KnownGuest(d, g) /\ KnownStart(d, g)
<1>1. CASE Pending(d, g, StatusOps) = {}
  BY <1>1 DEF ViewStatus, FairInv, FairDoc, KnownGuest, KnownStart
<1>2. CASE Pending(d, g, StatusOps) # {}
  <2>. PICK i : i = Latest(d, g, StatusOps)
    OBVIOUS
  <2>1. i \in Pending(d, g, StatusOps)
    BY <1>2, LatestIsPending DEF Inv, TypeOK
  <2>2. i \in 1..Len(queue[d]) /\ queue[d][i].game = g /\ queue[d][i].op \in StatusOps
    BY <2>1, QueueType DEF Inv, Pending
  <2>3. queue[d][i].op = "start"
    BY <1>2, <2>2 DEF ViewStatus, StatusSetBy, StatusOps
  <2>4. KnownStart(d, g)
    BY <2>2, <2>3, QueueType DEF KnownStart, Pending, Inv
  <2>5. Seated(g) \/ Before(d, i, "seat")
    BY <2>2, <2>3 DEF FairInv, FairWrite
  <2>6. Before(d, i, "seat") => Pending(d, g, {"seat"}) # {}
    BY <2>2, QueueType DEF Before, Pending, Inv
  <2>. QED  BY <2>4, <2>5, <2>6 DEF KnownGuest
<1>. QED  BY <1>1, <1>2

LEMMA EnqueueKeepsFair ==
  ASSUME Inv, FairInv, NEW d \in Devices, NEW w \in Write, Enqueue(d, w),
         UNCHANGED <<server, ud, sent>>, FairLicensed(d, w),
         \A c \in calls' : c \in calls \/ FairCall(c)'
  PROVE  FairInv'
<1>. USE DEF Inv
<1>. PICK n \in Nat : n = Len(queue[d])
  BY QueueType
<1>0. n = Len(queue[d]) /\ Len(queue'[d]) = n + 1 /\ queue'[d][n + 1] = w
  BY AppendStep
<1>1. ASSUME NEW e \in Devices, NEW i \in 1..Len(queue[e])
      PROVE  queue'[e][i] = queue[e][i] /\ i \in 1..Len(queue'[e])
  BY AppendStep, QueueType
<1>2. ASSUME NEW e \in Devices, NEW i \in 1..Len(queue'[e])
      PROVE  i \in 1..Len(queue[e]) \/ (e = d /\ i = n + 1)
  BY AppendStep, <1>0, QueueType
<1>3. ASSUME NEW e \in Devices, NEW i \in 1..Len(queue[e]), NEW op, Before(e, i, op)
      PROVE  Before(e, i, op)'
  BY <1>1, <1>3 DEF Before
<1>4. ASSUME NEW op, Pending(d, w.game, {op}) # {} PROVE Before(d, n + 1, op)'
  <2>1. PICK j \in 1..Len(queue[d]) : queue[d][j].game = w.game /\ queue[d][j].op = op
    BY <1>4, QueueType DEF Pending
  <2>2. queue'[d][j] = queue[d][j]
    BY <1>1
  <2>3. j \in 1..n /\ j < n + 1
    BY <1>0
  <2>. QED  BY <1>0, <2>1, <2>2, <2>3 DEF Before
<1>5. \A g \in Games : FairDoc(g)'
  BY DEF FairInv, FairDoc, Seated, Started, Outsider
<1>6. ASSUME NEW e \in Devices, NEW i \in 1..Len(queue[e]) PROVE FairWrite(e, i)'
  <2>1. FairWrite(e, i) /\ queue'[e][i] = queue[e][i]
    BY <1>1 DEF FairInv
  <2>2. \A op : Before(e, i, op) => Before(e, i, op)'
    BY <1>3
  <2>3. \A g : (Seated(g)' <=> Seated(g)) /\ (Started(g)' <=> Started(g))
    BY DEF Seated, Started, Outsider
  <2>. QED  BY <2>1, <2>2, <2>3 DEF FairWrite, Outsider
<1>7. FairWrite(d, n + 1)'
  <2>1. ~(n + 1 <= sent'[d])
    BY <1>0 DEF TypeOK
  <2>. QED
    BY <1>0, <1>4, <2>1
       DEF FairLicensed, FairWrite, KnownGuest, KnownStart, Seated, Started, Outsider
<1>8. ASSUME NEW c \in calls PROVE FairCall(c)'
  <2>1. FairCall(c) /\ GoodCall(c) /\ c.dev \in Devices
    BY DEF FairInv, CallInv, TypeOK, Call
  <2>2. ASSUME c.game \in Games, NEW ops
        PROVE  Pending(c.dev, c.game, ops) \subseteq Pending(c.dev, c.game, ops)'
    BY <2>1, <2>2, PendingGrows
  <2>. QED  BY <2>1, <2>2 DEF FairCall, GoodCall, KnownGuest, KnownStart, Seated, Started, Outsider
<1>. QED  BY <1>2, <1>5, <1>6, <1>7, <1>8 DEF FairInv

LEMMA CallsOnlyKeepsFair ==
  ASSUME FairInv, UNCHANGED <<server, queue, ud, sent>>,
         \A c \in calls' : c \in calls \/ FairCall(c)
  PROVE  FairInv'
<1>1. \A g \in Games : FairDoc(g)'
  BY DEF FairInv, FairDoc, Seated, Started, Outsider
<1>2. \A d \in Devices : \A i \in 1..Len(queue'[d]) : FairWrite(d, i)'
  BY DEF FairInv, FairWrite, Before, Seated, Started, Outsider
<1>3. \A c \in calls' : FairCall(c)'
  BY DEF FairInv, FairCall, KnownGuest, KnownStart, Pending, Seated, Started, Outsider
<1>. QED  BY <1>1, <1>2, <1>3 DEF FairInv

(* A write reaches the server: seats and starts become facts, and stay so.  *)
StaysFair(g) == (Seated(g) => Seated(g)') /\ (Started(g) => Started(g)')

LEMMA ServeFair ==
  ASSUME Inv, FairInv, NEW d \in Devices, NEW k, Serves(d, k)
  PROVE  /\ \A g \in Games : FairDoc(g)'
         /\ \A g \in Games : Posted(g) => StaysFair(g)
         /\ \A g \in Games : g = queue[d][k].game =>
              (queue[d][k].op = "seat" => Seated(g)') /\ (queue[d][k].op = "start" => Started(g)')
<1>. USE DEF Inv
<1>1. PICK w \in Write :
        /\ w = queue[d][k] /\ k \in 1..Len(queue[d]) /\ GoodWrite(d, k) /\ w.game \in Games
        /\ \A j \in 1..Len(queue[d]) : j < k => j <= sent[d]
        /\ \A g \in Games : g # w.game => server'[g] = server[g]
        /\ w.op = "create" => /\ server[w.game] \in {Absent, NewDoc(w.home)}
                              /\ server'[w.game] = NewDoc(w.home)
        /\ w.op # "create" => Posted(w.game) /\ Updated(server[w.game], w, server'[w.game])
  BY ServeFacts
<1>2. FairWrite(d, k) /\ FairDoc(w.game)
  BY <1>1 DEF FairInv
<1>3. /\ Before(d, k, "seat") => Seated(w.game)
      /\ Before(d, k, "start") => Started(w.game)
  <2>1. ASSUME NEW op, Before(d, k, op)
        PROVE  \E j \in 1..Len(queue[d]) : /\ queue[d][j].op = op /\ queue[d][j].game = w.game
                                           /\ j <= sent[d] /\ FairWrite(d, j)
    BY <1>1, <2>1 DEF Before, FairInv
  <2>. QED  BY <2>1 DEF FairWrite
<1>4. CASE w.op = "create"
  <2>1. FairDoc(w.game)'
    BY <1>1, <1>4 DEF NewDoc, Absent, FairDoc, Seated
  <2>2. Posted(w.game) => server'[w.game] = server[w.game]
    BY <1>1, <1>4 DEF Posted, Absent
  <2>3. ASSUME NEW g \in Games, g # w.game PROVE FairDoc(g)'
    BY <1>1, <2>3 DEF FairInv, FairDoc, Seated, Started, Outsider
  <2>4. ASSUME NEW g \in Games, Posted(g) PROVE server'[g] = server[g]
    BY <1>1, <2>2, <2>4
  <2>5. ASSUME NEW g \in Games, Posted(g) PROVE StaysFair(g)
    BY <2>4, <2>5 DEF StaysFair, Seated, Started, Outsider
  <2>. QED  BY <1>1, <1>4, <2>1, <2>3, <2>5
<1>5. CASE w.op # "create"
  <2>1. Updated(server[w.game], w, server'[w.game])
    BY <1>1, <1>5
  <2>2. server'[w.game].home = server[w.game].home
    BY <1>1, <2>1 DEF Updated, GoodWrite
  <2>3. Seated(w.game) \/ w.op = "seat" => Seated(w.game)'
    BY <1>1, <1>2, <2>1 DEF Updated, FairWrite, Outsider, Seated
  <2>4. Started(w.game) \/ w.op = "start" => Started(w.game)'
    <3>1. CASE w.op = "start"
      BY <1>1, <1>2, <2>1, <2>2, <3>1 DEF Updated, FairWrite, Outsider, Started
    <3>2. CASE w.op # "start"
      BY <2>1, <2>2, <3>2 DEF Updated, Outsider, Started
    <3>. QED  BY <3>1, <3>2
  <2>5. w.op \in {"start", "result"} => Seated(w.game)
    BY <1>1, <1>2, <1>3 DEF FairWrite
  <2>6. w.op = "result" => Started(w.game)
    BY <1>1, <1>2, <1>3 DEF FairWrite
  <2>7. server'[w.game].status \in {"active", "completed"} =>
          \/ server[w.game].status \in {"active", "completed"}
          \/ w.op \in {"start", "result"}
    BY <2>1 DEF Updated
  <2>8. Seated(w.game)' => server'[w.game].guest # server'[w.game].home
    BY <1>1, <1>2, <2>1, <2>2 DEF Updated, FairWrite, Outsider, Seated, FairDoc
  <2>9. FairDoc(w.game)'
    BY <1>2, <2>3, <2>4, <2>5, <2>6, <2>7, <2>8 DEF FairDoc
  <2>10. ASSUME NEW g \in Games, g # w.game
         PROVE  FairDoc(g)' /\ (Seated(g)' <=> Seated(g)) /\ (Started(g)' <=> Started(g))
    BY <1>1, <2>10 DEF FairInv, FairDoc, Seated, Started, Outsider
  <2>11. StaysFair(w.game) /\ \A g \in Games : g # w.game => StaysFair(g)
    BY <2>3, <2>4, <2>10 DEF StaysFair
  <2>12. \A g \in Games : g = queue[d][k].game =>
           (queue[d][k].op = "seat" => Seated(g)') /\ (queue[d][k].op = "start" => Started(g)')
    BY <1>1, <2>3, <2>4
  <2>. QED  BY <1>1, <2>9, <2>10, <2>11, <2>12
<1>. QED  BY <1>4, <1>5

LEMMA StreamKeepsFair ==
  ASSUME Inv, FairInv, NEW d \in Devices, StreamStep(d)
  PROVE  FairInv'
<1>. USE DEF Inv
<1>1. PICK s \in {0, 1} : Drops(d, s) /\ Covers(d, s)
  BY StreamSteps
<1>2. /\ \A g \in Games : FairDoc(g)'
      /\ \A g \in Games : Posted(g) => server'[g].home = server[g].home /\ StaysFair(g)
  <2>1. CASE server' = server
    BY <2>1 DEF FairInv, FairDoc, StaysFair, Seated, Started, Outsider
  <2>2. CASE \E k \in 1..Len(queue[d]) : Serves(d, k)
    BY <2>2, ServeDocs, ServeFair DEF Lasts
  <2>. QED  BY <2>1, <2>2, StreamSteps
<1>3. ASSUME NEW e \in Devices, NEW k \in 1..Len(queue[e]),
             k <= sent[e] \/ (e = d /\ k <= sent'[d] + s),
             NEW g \in Games, g = queue[e][k].game
      PROVE  /\ queue[e][k].op = "seat" => Seated(g)'
             /\ queue[e][k].op = "start" => Started(g)'
  <2>1. GoodWrite(e, k) /\ FairWrite(e, k) /\ queue[e][k] \in Write
    BY QueueType DEF WriteInv, FairInv
  <2>2. CASE k <= sent[e]
    <3>1. /\ queue[e][k].op \in {"seat", "start"} => Posted(g)
          /\ queue[e][k].op = "seat" => Seated(g)
          /\ queue[e][k].op = "start" => Started(g)
      BY <1>3, <2>1, <2>2 DEF GoodWrite, FairWrite
    <3>. QED  BY <1>2, <3>1 DEF StaysFair
  <2>3. CASE e = d /\ Serves(d, k)
    BY <1>3, <2>3, ServeFair
  <2>. QED  BY <1>1, <1>3, <2>2, <2>3 DEF Covers
<1>4. s = 1 => 1 <= sent'[d] + s
  BY <1>1 DEF Drops
<1>5. ASSUME NEW e \in Devices, NEW i \in 1..Len(queue'[e]) PROVE FairWrite(e, i)'
  <2>1. PICK k \in 1..Len(queue[e]) :
          queue'[e][i] = queue[e][k] /\ k = IF e = d THEN i + s ELSE i
    BY <1>1, DropSource
  <2>0. (e = d => k = i + s) /\ (e # d => k = i)
    BY <2>1
  <2>. PICK v : v = queue[e][k]
    OBVIOUS
  <2>2. /\ v = queue[e][k] /\ v = queue'[e][i]
        /\ GoodWrite(e, k) /\ FairWrite(e, k) /\ v \in Write /\ v.game \in Games
    BY <2>1, QueueType DEF WriteInv, FairInv, Write
  <2>3. ASSUME NEW op, Before(e, k, op)
        PROVE  \/ Before(e, i, op)'
               \/ /\ op = "seat" => Seated(v.game)'
                  /\ op = "start" => Started(v.game)'
    <3>1. PICK j \in 1..Len(queue[e]) :
            j < k /\ queue[e][j].op = op /\ queue[e][j].game = v.game
      BY <2>2, <2>3 DEF Before
    <3>2. \/ \E m \in 1..Len(queue'[e]) : m < i /\ queue'[e][m] = queue[e][j]
          \/ e = d /\ s = 1 /\ j = 1
      <4>1. j < k
        BY <3>1
      <4>. QED  BY <1>1, <2>0, <4>1, DropBefore
    <3>3. CASE \E m \in 1..Len(queue'[e]) : m < i /\ queue'[e][m] = queue[e][j]
      BY <2>2, <3>1, <3>3 DEF Before
    <3>4. CASE e = d /\ s = 1 /\ j = 1
      BY <1>3, <1>4, <2>2, <3>1, <3>4
    <3>. QED  BY <3>2, <3>3, <3>4
  <2>4. v.op \in {"seat", "start", "result"} =>
          server'[v.game].home = server[v.game].home /\ StaysFair(v.game)
    <3>1. v.op \in {"seat", "start", "result"} => Posted(v.game)
      BY <2>2 DEF GoodWrite
    <3>. QED  BY <1>2, <2>2, <3>1
  <2>5. v.op = "seat" => Outsider(v.guest, v.game)'
    BY <2>2, <2>4 DEF FairWrite, Outsider
  <2>6. v.op = "start" => \E t \in v.roster : Outsider(t, v.game)'
    BY <2>2, <2>4 DEF FairWrite, Outsider
  <2>7. v.op \in {"start", "result"} => Seated(v.game)' \/ Before(e, i, "seat")'
    BY <2>2, <2>3, <2>4 DEF FairWrite, StaysFair
  <2>8. v.op = "result" => Started(v.game)' \/ Before(e, i, "start")'
    BY <2>2, <2>3, <2>4 DEF FairWrite, StaysFair
  <2>9. ASSUME i <= sent'[e]
        PROVE  (v.op = "seat" => Seated(v.game)') /\ (v.op = "start" => Started(v.game)')
    <3>1. CASE e = d
      <4>1. k <= sent'[d] + s
        BY <1>1, <2>1, <2>9, <3>1, QueueType DEF Drops
      <4>. QED  BY <1>3, <2>2, <3>1, <4>1
    <3>2. CASE e # d
      <4>1. k <= sent[e]
        BY <1>1, <2>1, <2>9, <3>2 DEF Drops
      <4>. QED  BY <1>3, <2>2, <4>1
    <3>. QED  BY <3>1, <3>2
  <2>. QED  BY <2>2, <2>5, <2>6, <2>7, <2>8, <2>9 DEF FairWrite
<1>6. ASSUME NEW e \in Devices, NEW g \in Games, NEW op, Pending(e, g, {op}) # {}
      PROVE  \/ Pending(e, g, {op})' # {}
             \/ (op = "seat" => Seated(g)') /\ (op = "start" => Started(g)')
  <2>1. PICK j \in 1..Len(queue[e]) : queue[e][j].game = g /\ queue[e][j].op = op
    BY <1>6, QueueType DEF Pending
  <2>2. \/ \E m \in 1..Len(queue'[e]) : queue'[e][m] = queue[e][j]
        \/ e = d /\ s = 1 /\ j = 1
    BY <1>1, DropQueued
  <2>3. CASE \E m \in 1..Len(queue'[e]) : queue'[e][m] = queue[e][j]
    BY <1>1, <2>1, <2>3 DEF Pending, Drops
  <2>4. CASE e = d /\ s = 1 /\ j = 1
    BY <1>3, <1>4, <2>1, <2>4
  <2>. QED  BY <2>2, <2>3, <2>4
<1>7. ASSUME NEW c \in calls PROVE FairCall(c)'
  <2>1. FairCall(c) /\ GoodCall(c) /\ c.dev \in Devices /\ ud' = ud
    BY StreamSteps DEF FairInv, CallInv, TypeOK, Call
  <2>2. CASE c.kind \in {"hosting", "listing", "guest", "commit"}
    <3>1. c.game \in Games /\ Posted(c.game)
      BY <2>1, <2>2 DEF GoodCall
    <3>2. KnownGuest(c.dev, c.game) => KnownGuest(c.dev, c.game)'
      BY <1>2, <1>6, <2>1, <3>1 DEF KnownGuest, StaysFair
    <3>3. KnownStart(c.dev, c.game) => KnownStart(c.dev, c.game)'
      BY <1>2, <1>6, <2>1, <3>1 DEF KnownStart, StaysFair
    <3>4. Outsider(c.team, c.game) => Outsider(c.team, c.game)'
      BY <1>2, <3>1 DEF Outsider
    <3>. QED  BY <2>1, <3>2, <3>3, <3>4 DEF FairCall
  <2>3. CASE c.kind \notin {"hosting", "listing", "guest", "commit"}
    BY <2>3 DEF FairCall
  <2>. QED  BY <2>2, <2>3
<1>. QED  BY <1>2, <1>5, <1>7, StreamSteps DEF FairInv

LEMMA FairNext ==
  ASSUME MovableDevices = {}
  PROVE  Inv /\ FairInv /\ [Next]_vars => FairInv'
<1>. SUFFICES ASSUME Inv, FairInv, [Next]_vars PROVE FairInv'
  OBVIOUS
<1>. USE DEF Inv
<1>1. ASSUME NEW op \in WriteOps, NEW g \in Games
      PROVE  /\ Blank(op, g) \in Write /\ Blank(op, g).op = op /\ Blank(op, g).game = g
  BY BuiltTypes DEF Blank
<1>2. CASE UNCHANGED vars
  BY <1>2, CallsOnlyKeepsFair DEF vars
<1>3. ASSUME NEW d \in Devices, StreamStep(d) PROVE FairInv'
  BY <1>3, StreamKeepsFair
<1>4. ASSUME NEW d \in Devices, NEW w \in Write, Enqueue(d, w), UNCHANGED <<server, ud, sent>>,
             w.op \notin {"seat", "start", "result"},
             \A c \in calls' : c \in calls \/ c.kind \in {"posted", "members"}
      PROVE  FairInv'
  <2>1. FairLicensed(d, w)
    BY <1>4 DEF FairLicensed
  <2>2. \A c \in calls' : c \in calls \/ FairCall(c)'
    BY <1>4 DEF FairCall
  <2>. QED  BY <1>4, <2>1, <2>2, EnqueueKeepsFair
<1>5. ASSUME NEW d \in Devices, NEW g \in Games, NewGame(d, g) PROVE FairInv'
  <2>. PICK w : w = [Blank("create", g) EXCEPT !.home = ud[d]]
    OBVIOUS
  <2>1. w \in Write /\ w.op = "create"
    BY <1>1 DEF WriteOps, Write, Blank, TypeOK
  <2>2. /\ Enqueue(d, w) /\ UNCHANGED <<server, ud, sent>>
        /\ \A c \in calls' : c \in calls \/ c.kind \in {"posted", "members"}
    BY <1>5 DEF NewGame, Pend
  <2>. QED  BY <1>4, <2>1, <2>2
<1>6. ASSUME NEW d \in Devices, NEW g \in Games, NewGamePosted(d, g) PROVE FairInv'
  BY <1>1, <1>4, <1>6 DEF NewGamePosted, Pend, WriteOps
<1>7. ASSUME NEW d \in Devices, NEW g \in Games, NewGamePostedTraps(d, g) PROVE FairInv'
  BY <1>1, <1>4, <1>7 DEF NewGamePostedTraps, LoseCalls, WriteOps
<1>8. ASSUME NEW d \in Devices, NEW g \in Games, NewGameMembers(d, g) PROVE FairInv'
  <2>1. PICK t \in Teams :
          /\ Enqueue(d, [Blank("members", g) EXCEPT !.roster = {t}])
          /\ calls' = calls \ {Pend(d, "members", g, t)}
          /\ UNCHANGED <<server, ud, sent>>
    BY <1>8 DEF NewGameMembers
  <2>2. /\ [Blank("members", g) EXCEPT !.roster = {t}] \in Write
        /\ [Blank("members", g) EXCEPT !.roster = {t}].op = "members"
    <3>1. Blank("members", g) \in Write /\ {t} \in SUBSET TeamIDs
      BY <1>1 DEF WriteOps, TeamIDs
    <3>. QED  BY <3>1 DEF Write, Blank
  <2>. QED  BY <1>4, <2>1, <2>2
<1>9. ASSUME NEW d \in Devices, NEW g \in Games, JoinGameClick(d, g) PROVE FairInv'
  <2>1. Posted(g) /\ ud[d] # NoTeam /\ ud[d] # ViewHome(d, g)
    BY <1>9, ViewFacts DEF JoinGameClick, Plays
  <2>2. Outsider(ud[d], g)
    BY <2>1, ViewFacts DEF Outsider
  <2>3. FairCall(Pend(d, "hosting", g, ud[d]))
    BY <2>2 DEF FairCall, Pend
  <2>. QED  BY <1>9, <2>3, CallsOnlyKeepsFair DEF JoinGameClick
<1>10. ASSUME NEW d \in Devices, NEW g \in Games, CheckedHosting(d, g) PROVE FairInv'
  <2>1. PICK t \in Teams :
          /\ Pend(d, "hosting", g, t) \in calls
          /\ calls' = (calls \ {Pend(d, "hosting", g, t)}) \cup
               (IF Listings(d, t) # {} THEN {} ELSE {Pend(d, "listing", g, ud[d])})
          /\ UNCHANGED <<server, queue, ud, sent>>
    BY <1>10 DEF CheckedHosting
  <2>2. FairCall(Pend(d, "hosting", g, t))
    BY <2>1 DEF FairInv
  <2>3. Outsider(t, g) /\ t = ud[d]
    BY <2>2 DEF FairCall, Pend
  <2>4. FairCall(Pend(d, "listing", g, ud[d]))
    BY <2>3 DEF FairCall, Pend
  <2>. QED  BY <2>1, <2>4, CallsOnlyKeepsFair
<1>11. ASSUME NEW d \in Devices, NEW g \in Games, NEW t,
              Pend(d, "listing", g, t) \in calls
       PROVE  Outsider(t, g)
  BY <1>11 DEF FairInv, FairCall, Pend
<1>12. ASSUME NEW d \in Devices, NEW g \in Games, JoinGameSeats(d, g) PROVE FairInv'
  <2>1. PICK t \in Teams :
          /\ Pend(d, "listing", g, t) \in calls
          /\ Enqueue(d, SeatWrite(d, g, t))
          /\ calls' = (calls \ {Pend(d, "listing", g, t)}) \cup
               {[Pend(d, "guest", g, t) EXCEPT !.roster = ViewRoster(d, g)]}
          /\ UNCHANGED <<server, ud, sent>>
    BY <1>12 DEF JoinGameSeats
  <2>. PICK w : w = SeatWrite(d, g, t)
    OBVIOUS
  <2>2. /\ w = SeatWrite(d, g, t)
        /\ w \in Write /\ w.op = "seat" /\ w.game = g /\ w.guest = t
    <3>1. Blank("seat", g) \in Write /\ ViewHome(d, g) \in TeamIDs /\ t \in TeamIDs
      BY <1>1, ViewTypes DEF WriteOps, TeamIDs
    <3>. QED  BY <3>1 DEF SeatWrite, Write, Blank
  <2>3. Outsider(t, g)
    BY <1>11, <2>1
  <2>4. FairLicensed(d, w)
    BY <2>2, <2>3 DEF FairLicensed
  <2>5. Pending(d, g, {"seat"})' # {}
    <3>1. Len(queue[d]) + 1 \in DOMAIN queue'[d] /\ queue'[d][Len(queue[d]) + 1] = w
      BY <2>1, <2>2, AppendStep, QueueType
    <3>. QED  BY <2>2, <3>1 DEF Pending
  <2>. PICK c : c = [Pend(d, "guest", g, t) EXCEPT !.roster = ViewRoster(d, g)]
    OBVIOUS
  <2>6. c.kind = "guest" /\ c.team = t /\ c.game = g /\ c.dev = d
    BY DEF Pend
  <2>7. FairCall(c)'
    BY <2>1, <2>3, <2>5, <2>6 DEF FairCall, KnownGuest, Outsider
  <2>. QED  BY <2>1, <2>2, <2>4, <2>7, EnqueueKeepsFair
<1>13. ASSUME NEW d \in Devices, NEW g \in Games, JoinGameSeatsTraps(d, g) PROVE FairInv'
  BY <1>11, <1>13 DEF JoinGameSeatsTraps, Outsider
<1>14. ASSUME NEW d \in Devices, NEW g \in Games, JoinGameStarts(d, g) PROVE FairInv'
  <2>1. PICK c \in InFlight(d) :
          /\ c.kind = "guest" /\ c.game = g
          /\ Enqueue(d, StartWrite(g, c))
          /\ calls' = calls \ {c}
          /\ UNCHANGED <<server, ud, sent>>
    BY <1>14 DEF JoinGameStarts
  <2>2. c \in Call /\ FairCall(c) /\ c.dev = d
    BY DEF InFlight, TypeOK, FairInv
  <2>3. /\ StartWrite(g, c) \in Write /\ StartWrite(g, c).op = "start"
        /\ StartWrite(g, c).game = g /\ c.team \in StartWrite(g, c).roster
    <3>1. Blank("start", g) \in Write /\ c.roster \cup {c.team} \in SUBSET TeamIDs
      BY <1>1, <2>2 DEF WriteOps, Call
    <3>. QED  BY <3>1 DEF StartWrite, Write, Blank
  <2>4. FairLicensed(d, StartWrite(g, c))
    BY <2>1, <2>2, <2>3 DEF FairLicensed, FairCall
  <2>. QED  BY <2>1, <2>3, <2>4, EnqueueKeepsFair
<1>15. ASSUME NEW d \in Devices,
              OpenUnnamedListingTraps(d) \/ DeleteListingTraps(d) \/ Restart(d)
       PROVE  FairInv'
  <2>1. UNCHANGED <<server, queue, ud, sent>> /\ \A c \in calls' : c \in calls
    BY <1>15 DEF OpenUnnamedListingTraps, DeleteListingTraps, Restart, LoseCalls
  <2>. QED  BY <2>1, CallsOnlyKeepsFair
<1>16. ASSUME NEW d \in Devices, DeleteListingClick(d) PROVE FairInv'
  <2>1. FairCall(Pend(d, "delete", NoGame, ud[d]))
    BY DEF FairCall, Pend
  <2>. QED  BY <1>16, <2>1, CallsOnlyKeepsFair DEF DeleteListingClick
<1>17. ASSUME NEW d \in Devices, DeleteListing(d) PROVE FairInv'
  <2>1. /\ \E g \in Games : Enqueue(d, Blank("withdraw", g))
        /\ \A c \in calls' : c \in calls
        /\ UNCHANGED <<server, ud, sent>>
    BY <1>17 DEF DeleteListing, Listings
  <2>. QED  BY <1>1, <1>4, <2>1 DEF WriteOps
<1>18. ASSUME NEW d \in Devices, NEW g \in Games, ReportClick(d, g) PROVE FairInv'
  <2>1. KnownGuest(d, g) /\ KnownStart(d, g)
    BY <1>18, ActiveFacts DEF ReportClick
  <2>2. \A win \in BOOLEAN : FairCall([Pend(d, "commit", g, NoTeam) EXCEPT !.homeWin = win])
    BY <2>1 DEF FairCall, Pend
  <2>. QED  BY <1>18, <2>2, CallsOnlyKeepsFair DEF ReportClick
<1>19. ASSUME NEW d \in Devices, NEW g \in Games, ReportClickTraps(d, g) PROVE FairInv'
  <2>1. UNCHANGED <<server, queue, ud, sent>> /\ \A c \in calls' : c \in calls
    BY <1>19 DEF ReportClickTraps, LoseCalls
  <2>. QED  BY <2>1, CallsOnlyKeepsFair
<1>20. ASSUME NEW d \in Devices, NEW g \in Games, CommitResult(d, g) PROVE FairInv'
  <2>1. PICK c \in InFlight(d) :
          /\ c.kind = "commit" /\ c.game = g
          /\ Enqueue(d, [Blank("result", g) EXCEPT !.homeWin = c.homeWin,
                                                   !.guestWin = ~c.homeWin])
          /\ calls' = calls \ {c}
          /\ UNCHANGED <<server, ud, sent>>
    BY <1>20 DEF CommitResult
  <2>. PICK w : w = [Blank("result", g) EXCEPT !.homeWin = c.homeWin,
                                               !.guestWin = ~c.homeWin]
    OBVIOUS
  <2>2. c \in Call /\ FairCall(c) /\ c.dev = d
    BY DEF InFlight, TypeOK, FairInv
  <2>3. c.homeWin \in BOOLEAN /\ (~c.homeWin) \in BOOLEAN
    BY <2>2 DEF Call
  <2>4. Blank("result", g) \in Write
    BY <1>1 DEF WriteOps
  <2>5. w \in Write
    BY <2>3, <2>4 DEF Write
  <2>6. w.op = "result" /\ w.game = g
    BY DEF Blank
  <2>7. FairLicensed(d, w)
    BY <2>1, <2>2, <2>6 DEF FairLicensed, FairCall
  <2>. QED  BY <2>1, <2>5, <2>7, EnqueueKeepsFair
<1>21. ASSUME NEW d \in Devices, TeamChange(d) PROVE FairInv'
  BY <1>21 DEF TeamChange
<1>. QED
  BY <1>2, <1>3, <1>5, <1>6, <1>7, <1>8, <1>9, <1>10, <1>12, <1>13, <1>14, <1>15,
     <1>16, <1>17, <1>18, <1>19, <1>20, <1>21
     DEF Next, DeviceStep, StreamStep, Callback, Click

LEMMA FairInvariance ==
  ASSUME MovableDevices = {}
  PROVE  Spec => [](Inv /\ FairInv)
<1>1. Init => FairInv
  BY EmptySeq DEF Init, FairInv, FairDoc, Absent, Seated
<1>. QED  BY <1>1, InvInit, InvNext, FairNext, PTL DEF Spec

(* While no device changes team, a game under way or played has a guest,    *)
(* although joinGame seats and starts in two updates.                       *)
THEOREM GuestFirst ==
  ASSUME MovableDevices = {}
  PROVE  Spec => []StartedHasGuest
<1>1. FairInv => StartedHasGuest
  BY DEF FairInv, FairDoc, Seated, StartedHasGuest
<1>. QED  BY <1>1, FairInvariance, PTL

(* While no device changes team, no team is seated against itself, although *)
(* onJoinGameClick checks long before joinGame writes.                      *)
THEOREM NobodyPlaysThemselves ==
  ASSUME MovableDevices = {}
  PROVE  Spec => []NoSelfPlay
<1>1. FairInv => NoSelfPlay
  BY DEF FairInv, FairDoc, Seated, NoSelfPlay
<1>. QED  BY <1>1, FairInvariance, PTL

(* While no device changes team, playersInvolved always lists somebody of   *)
(* another team once a game has started, although it is overwritten whole.  *)
THEOREM GuestsListed ==
  ASSUME MovableDevices = {}
  PROVE  Spec => []GuestSideListed
<1>1. FairInv => GuestSideListed
  BY DEF FairInv, FairDoc, Started, Outsider, GuestSideListed
<1>. QED  BY <1>1, FairInvariance, PTL

-----------------------------------------------------------------------------
(* The protocol implements the game board. *)

(* The variables of the board. *)
BoardStatus == [g \in Games |-> server[g].status]
BoardHome   == [g \in Games |-> server[g].home]
BoardGuest  == [g \in Games |-> server[g].guest]
BoardNamed  == {g \in Games : server[g].named}
BoardWinner == [g \in Games |-> Winner(server[g])]

(* Every write the server applies is one step of the board, or none. *)
LEMMA ServeOnBoard ==
  ASSUME Inv, FairInv, NEW d \in Devices, NEW k, Serves(d, k)
  PROVE  [Board!Next]_(Board!vars)
<1>. USE DEF Inv
<1>1. PICK w \in Write :
        /\ w = queue[d][k] /\ k \in 1..Len(queue[d]) /\ GoodWrite(d, k) /\ w.game \in Games
        /\ \A j \in 1..Len(queue[d]) : j < k => j <= sent[d]
        /\ \A g \in Games : g # w.game => server'[g] = server[g]
        /\ w.op = "create" => /\ server[w.game] \in {Absent, NewDoc(w.home)}
                              /\ server'[w.game] = NewDoc(w.home)
        /\ w.op # "create" => Posted(w.game) /\ Updated(server[w.game], w, server'[w.game])
        /\ w.op \in {"members", "seat", "start", "withdraw", "result"} => server[w.game].named
  BY ServeFacts
<1>. PICK g \in Games : g = w.game
  BY DEF Write
<1>2. /\ g = w.game /\ w.op \in WriteOps /\ w.home \in TeamIDs /\ w.guest \in TeamIDs
      /\ FairWrite(d, k)
  BY <1>1 DEF Write, FairInv
<1>3. \A h \in Games : h # g => server'[h] = server[h]
  BY <1>1, <1>2
<1>4. w.op \in {"seat", "start", "withdraw", "result"} => server[g].named
  BY <1>1, <1>2
<1>5. w.op \in {"start", "result"} => server[g].guest # NoTeam
  <2>1. ASSUME Before(d, k, "seat") PROVE Seated(g)
    <3>1. PICK j \in 1..Len(queue[d]) :
            j < k /\ queue[d][j].op = "seat" /\ queue[d][j].game = queue[d][k].game
      BY <2>1 DEF Before
    <3>2. j <= sent[d] /\ FairWrite(d, j)
      BY <1>1, <3>1 DEF FairInv
    <3>. QED  BY <1>1, <1>2, <3>1, <3>2 DEF FairWrite
  <2>. QED  BY <1>1, <1>2, <2>1 DEF FairWrite, Seated
<1>6. w.op # "create" => Updated(server[g], w, server'[g])
  BY <1>1, <1>2
<1>7. /\ server'[g].status = server[g].status => BoardStatus' = BoardStatus
      /\ \A x : server'[g].status = x => BoardStatus' = [BoardStatus EXCEPT ![g] = x]
  BY <1>3 DEF BoardStatus
<1>8. /\ server'[g].home = server[g].home => BoardHome' = BoardHome
      /\ \A x : server'[g].home = x => BoardHome' = [BoardHome EXCEPT ![g] = x]
  BY <1>3 DEF BoardHome
<1>9. /\ server'[g].guest = server[g].guest => BoardGuest' = BoardGuest
      /\ \A x : server'[g].guest = x => BoardGuest' = [BoardGuest EXCEPT ![g] = x]
  BY <1>3 DEF BoardGuest
<1>10. /\ (server'[g].named <=> server[g].named) => BoardNamed' = BoardNamed
       /\ server'[g].named => BoardNamed' = BoardNamed \cup {g}
  BY <1>3 DEF BoardNamed
<1>11. /\ Winner(server[g])' = Winner(server[g]) => BoardWinner' = BoardWinner
       /\ \A x : Winner(server[g])' = x => BoardWinner' = [BoardWinner EXCEPT ![g] = x]
  BY <1>3 DEF BoardWinner, Winner
<1>12. w.op \notin {"create", "result"} => Winner(server[g])' = Winner(server[g])
  BY <1>6 DEF Updated, Winner
<1>13. w.op = "seat" => w.home = server[g].home
  BY <1>1, <1>2 DEF GoodWrite
<1>. USE DEF BoardStatus, BoardHome, BoardGuest, BoardNamed, BoardWinner
<1>14. CASE w.op = "create" /\ server[g] = NewDoc(w.home)
  <2>1. server'[g] = server[g]
    BY <1>1, <1>2, <1>14
  <2>. QED  BY <1>7, <1>8, <1>9, <1>10, <1>11, <2>1 DEF Board!vars, Winner
<1>145. CASE w.op = "create" /\ server[g] = Absent
  <2>1. server[g] = Absent /\ server'[g] = NewDoc(w.home)
    BY <1>1, <1>2, <1>145
  <2>2. /\ server'[g].status = "listing" /\ server'[g].home = w.home
        /\ server'[g].guest = server[g].guest
        /\ (server'[g].named <=> server[g].named)
        /\ Winner(server[g])' = Winner(server[g])
    BY <2>1 DEF NewDoc, Absent, Winner
  <2>3. server[g].status = "absent"
    BY <2>1 DEF Absent
  <2>4. Board!Post(g, w.home)
    BY <1>7, <1>8, <1>9, <1>10, <1>11, <2>2, <2>3 DEF Board!Post
  <2>. QED  BY <1>2, <2>4 DEF Board!Next, Board!TeamIDs, TeamIDs
<1>15. CASE w.op = "name"
  <2>1. /\ server'[g].status = server[g].status /\ server'[g].home = server[g].home
        /\ server'[g].guest = server[g].guest /\ server'[g].named
    BY <1>6, <1>15 DEF Updated
  <2>2. server[g].status # "absent"
    BY <1>1, <1>2, <1>15 DEF Posted
  <2>3. Board!Name(g)
    BY <1>7, <1>8, <1>9, <1>10, <1>11, <1>12, <1>15, <2>1, <2>2 DEF Board!Name
  <2>. QED  BY <2>3 DEF Board!Next
<1>16. CASE w.op = "members"
  <2>1. /\ server'[g].status = server[g].status /\ server'[g].home = server[g].home
        /\ server'[g].guest = server[g].guest /\ (server'[g].named <=> server[g].named)
    BY <1>6, <1>16 DEF Updated
  <2>. QED  BY <1>7, <1>8, <1>9, <1>10, <1>11, <1>12, <1>16, <2>1 DEF Board!vars
<1>17. CASE w.op = "seat"
  <2>1. /\ server'[g].status = server[g].status /\ server'[g].home = server[g].home
        /\ server'[g].guest = w.guest /\ (server'[g].named <=> server[g].named)
    BY <1>6, <1>13, <1>17 DEF Updated
  <2>2. w.guest \in Teams /\ w.guest # server[g].home
    BY <1>1, <1>2, <1>17 DEF FairWrite, Outsider, TeamIDs
  <2>3. Board!Seat(g, w.guest)
    BY <1>4, <1>7, <1>8, <1>9, <1>10, <1>11, <1>12, <1>17, <2>1, <2>2 DEF Board!Seat
  <2>. QED  BY <2>2, <2>3 DEF Board!Next
<1>18. CASE w.op = "start"
  <2>1. /\ server'[g].status = "active" /\ server'[g].home = server[g].home
        /\ server'[g].guest = server[g].guest /\ (server'[g].named <=> server[g].named)
    BY <1>6, <1>18 DEF Updated
  <2>2. Board!Start(g)
    BY <1>4, <1>5, <1>7, <1>8, <1>9, <1>10, <1>11, <1>12, <1>18, <2>1 DEF Board!Start
  <2>. QED  BY <2>2 DEF Board!Next
<1>19. CASE w.op = "withdraw"
  <2>1. /\ server'[g].status = "deleted" /\ server'[g].home = server[g].home
        /\ server'[g].guest = server[g].guest /\ (server'[g].named <=> server[g].named)
    BY <1>6, <1>19 DEF Updated
  <2>2. Board!Withdraw(g)
    BY <1>4, <1>7, <1>8, <1>9, <1>10, <1>11, <1>12, <1>19, <2>1 DEF Board!Withdraw
  <2>. QED  BY <2>2 DEF Board!Next
<1>20. CASE w.op = "result"
  <2>. PICK side : side = IF w.homeWin THEN "home" ELSE "guest"
    OBVIOUS
  <2>1. w.homeWin \in BOOLEAN /\ w.guestWin \in BOOLEAN /\ w.homeWin # w.guestWin
    BY <1>1, <1>20 DEF Write, GoodWrite
  <2>2. /\ server'[g].status = "completed" /\ server'[g].home = server[g].home
        /\ server'[g].guest = server[g].guest /\ (server'[g].named <=> server[g].named)
        /\ server'[g].homeWin = w.homeWin /\ server'[g].guestWin = w.guestWin
    BY <1>6, <1>20 DEF Updated
  <2>3. Winner(server[g])' = side /\ side \in {"home", "guest"}
    BY <2>1, <2>2 DEF Winner
  <2>4. Board!Record(g, side)
    BY <1>4, <1>5, <1>7, <1>8, <1>9, <1>10, <1>11, <1>20, <2>2, <2>3 DEF Board!Record
  <2>. QED  BY <2>3, <2>4 DEF Board!Next
<1>. QED
  BY <1>1, <1>2, <1>14, <1>145, <1>15, <1>16, <1>17, <1>18, <1>19, <1>20 DEF WriteOps

(* While no device changes team, the documents live the life GameBoard.tla  *)
(* promises: devices, queues and callbacks add no step of their own.        *)
THEOREM ImplementsBoard ==
  ASSUME MovableDevices = {}
  PROVE  Spec => BoardSpec
<1>1. Init => Board!Init
  BY DEF Init, Absent, Winner, Board!Init
<1>2. Inv /\ FairInv /\ [Next]_vars => [Board!Next]_(Board!vars)
  <2>1. server' = server => UNCHANGED Board!vars
    BY DEF Board!vars, Winner
  <2>. QED  BY <2>1, ServerSteps, ServeOnBoard
<1>. QED  BY <1>1, <1>2, FairInvariance, PTL DEF Spec, BoardSpec, Board!Spec

-----------------------------------------------------------------------------
(* Histories: a third layer, that only a game with a home team is ever     *)
(* reported.                                                               *)

Hosted(g) == server[g].home # NoTeam

(* The report buttons are shown to members of the home team, and the host  *)
(* of a posted game never changes.                                         *)
PlayedInv ==
  /\ \A g \in Games : server[g].status = "completed" => Hosted(g)
  /\ \A d \in Devices : \A i \in 1..Len(queue[d]) :
       queue[d][i].op = "result" => Hosted(queue[d][i].game)
  /\ \A c \in calls : c.kind = "commit" => Hosted(c.game)

-----------------------------------------------------------------------------
(* The third layer is inductive. *)

LEMMA PlayedKeeps ==
  ASSUME Inv, PlayedInv, server' = server,
         \A e \in Devices : \A i \in 1..Len(queue'[e]) : queue'[e][i].op = "result" =>
           \/ \E j \in 1..Len(queue[e]) : queue'[e][i] = queue[e][j]
           \/ Hosted(queue'[e][i].game),
         \A c \in calls' : c.kind = "commit" => c \in calls \/ Hosted(c.game)
  PROVE  PlayedInv'
<1>1. \A g : Hosted(g)' <=> Hosted(g)
  BY DEF Hosted
<1>2. \A g \in Games : server'[g].status = "completed" => Hosted(g)'
  BY <1>1 DEF PlayedInv
<1>3. \A e \in Devices : \A i \in 1..Len(queue'[e]) :
        queue'[e][i].op = "result" => server'[queue'[e][i].game].home # NoTeam
  BY DEF PlayedInv, Hosted
<1>4. \A c \in calls' : c.kind = "commit" => server'[c.game].home # NoTeam
  BY DEF PlayedInv, Hosted
<1>. QED  BY <1>2, <1>3, <1>4 DEF PlayedInv, Hosted

(* A step that appends a write: a result only behind a report that was let in. *)
LEMMA EnqueueKeepsPlayed ==
  ASSUME Inv, PlayedInv, NEW d \in Devices, NEW w \in Write, Enqueue(d, w), server' = server,
         w.op = "result" => Hosted(w.game),
         \A c \in calls' : c \in calls \/ c.kind # "commit"
  PROVE  PlayedInv'
<1>1. ASSUME NEW e \in Devices, NEW i \in 1..Len(queue'[e])
      PROVE  (\E j \in 1..Len(queue[e]) : queue'[e][i] = queue[e][j]) \/ queue'[e][i] = w
  BY AppendStep, QueueType DEF Inv
<1>2. \A e \in Devices : \A i \in 1..Len(queue'[e]) : queue'[e][i].op = "result" =>
           \/ \E j \in 1..Len(queue[e]) : queue'[e][i] = queue[e][j]
           \/ Hosted(queue'[e][i].game)
  BY <1>1
<1>. QED  BY <1>2, PlayedKeeps

LEMMA StreamKeepsPlayed ==
  ASSUME Inv, PlayedInv, NEW d \in Devices, StreamStep(d)
  PROVE  PlayedInv'
<1>. USE DEF Inv
<1>1. PICK s \in {0, 1} : Drops(d, s)
  BY StreamSteps
<1>2. ASSUME NEW e \in Devices, NEW i \in 1..Len(queue'[e])
      PROVE  \E j \in 1..Len(queue[e]) : queue'[e][i] = queue[e][j]
  <2>1. \E k \in 1..Len(queue[e]) : queue'[e][i] = queue[e][k] /\ k = IF e = d THEN i + s ELSE i
    BY <1>1, DropSource
  <2>. QED  BY <2>1
<1>3. CASE server' = server
  BY <1>2, <1>3, PlayedKeeps, StreamSteps
<1>4. ASSUME NEW k \in 1..Len(queue[d]), Serves(d, k)
      PROVE  PlayedInv'
  <2>1. PICK w \in Write :
          /\ w = queue[d][k] /\ w.game \in Games
          /\ \A g \in Games : g # w.game => server'[g] = server[g]
          /\ w.op = "create" => server'[w.game] = NewDoc(w.home)
          /\ w.op # "create" => Posted(w.game) /\ Updated(server[w.game], w, server'[w.game])
    BY <1>4, ServeFacts
  <2>2. ASSUME NEW g \in Games, Posted(g), Hosted(g) PROVE server'[g].home # NoTeam
    BY <1>4, <2>2, ServeDocs DEF Lasts, Hosted
  <2>3. ASSUME NEW g \in Games, server'[g].status = "completed" PROVE server'[g].home # NoTeam
    <3>1. CASE g # w.game
      BY <2>1, <2>3, <3>1 DEF PlayedInv, Hosted
    <3>2. CASE g = w.game
      <4>1. w.op # "create"
        BY <2>1, <2>3, <3>2 DEF NewDoc, Absent
      <4>2. server[g].status = "completed" \/ w.op = "result"
        BY <2>1, <2>3, <3>2, <4>1 DEF Updated
      <4>3. Hosted(g)
        BY <2>1, <3>2, <4>2 DEF PlayedInv
      <4>. QED  BY <2>1, <2>2, <3>2, <4>1, <4>3
    <3>. QED  BY <3>1, <3>2
  <2>4. ASSUME NEW e \in Devices, NEW i \in 1..Len(queue'[e]), queue'[e][i].op = "result"
        PROVE  server'[queue'[e][i].game].home # NoTeam
    <3>1. PICK j \in 1..Len(queue[e]) : queue'[e][i] = queue[e][j]
      BY <1>2
    <3>. PICK g : g = queue[e][j].game
      OBVIOUS
    <3>2. Hosted(g) /\ Posted(g) /\ g \in Games
      BY <2>4, <3>1, QueueType DEF PlayedInv, WriteInv, GoodWrite, Write
    <3>. QED  BY <2>2, <3>1, <3>2
  <2>5. ASSUME NEW c \in calls', c.kind = "commit" PROVE server'[c.game].home # NoTeam
    <3>1. c \in calls /\ GoodCall(c)
      BY StreamSteps DEF CallInv
    <3>2. Hosted(c.game) /\ Posted(c.game) /\ c.game \in Games
      BY <2>5, <3>1 DEF PlayedInv, GoodCall
    <3>. QED  BY <2>2, <3>2
  <2>. QED  BY <2>3, <2>4, <2>5 DEF PlayedInv, Hosted
<1>. QED  BY <1>3, <1>4, StreamSteps

LEMMA PlayedNext == Inv /\ PlayedInv /\ [Next]_vars => PlayedInv'
<1>. SUFFICES ASSUME Inv, PlayedInv, [Next]_vars PROVE PlayedInv'
  OBVIOUS
<1>. USE DEF Inv
<1>1. ASSUME NEW op \in WriteOps, NEW g \in Games
      PROVE  Blank(op, g) \in Write /\ Blank(op, g).op = op /\ Blank(op, g).game = g
  BY BuiltTypes DEF Blank
<1>2. ASSUME UNCHANGED <<server, queue>>, \A c \in calls' : c.kind = "commit" => c \in calls \/ Hosted(c.game)
      PROVE  PlayedInv'
  BY <1>2, PlayedKeeps
<1>3. CASE UNCHANGED vars
  BY <1>2, <1>3 DEF vars
<1>4. ASSUME NEW d \in Devices, StreamStep(d) PROVE PlayedInv'
  BY <1>4, StreamKeepsPlayed
<1>5. ASSUME NEW d \in Devices, NEW g \in Games, NewGame(d, g) PROVE PlayedInv'
  <2>1. PICK w : w = [Blank("create", g) EXCEPT !.home = ud[d]]
    OBVIOUS
  <2>2. w \in Write /\ w.op = "create"
    <3>1. Blank("create", g) \in Write /\ Blank("create", g).op = "create" /\ ud[d] \in TeamIDs
      BY <1>1 DEF WriteOps, TypeOK
    <3>. QED  BY <2>1, <3>1 DEF Write
  <2>4. Enqueue(d, w) /\ server' = server
    BY <1>5, <2>1 DEF NewGame
  <2>3. \A c \in calls' : c \in calls \/ c.kind # "commit"
    BY <1>5 DEF NewGame, Pend
  <2>. QED  BY <2>2, <2>3, <2>4, EnqueueKeepsPlayed
<1>6. ASSUME NEW d \in Devices, NEW g \in Games, NewGamePosted(d, g) \/ NewGamePostedTraps(d, g)
      PROVE  PlayedInv'
  <2>1. PICK w : w = Blank("name", g)
    OBVIOUS
  <2>2. w \in Write /\ w.op = "name" /\ Enqueue(d, w) /\ server' = server
    BY <1>1, <1>6, <2>1 DEF NewGamePosted, NewGamePostedTraps, WriteOps
  <2>3. \A c \in calls' : c \in calls \/ c.kind # "commit"
    BY <1>6 DEF NewGamePosted, NewGamePostedTraps, LoseCalls, Pend
  <2>. QED  BY <2>2, <2>3, EnqueueKeepsPlayed
<1>7. ASSUME NEW d \in Devices, NEW g \in Games, NewGameMembers(d, g) PROVE PlayedInv'
  <2>1. PICK t \in Teams :
          /\ Enqueue(d, [Blank("members", g) EXCEPT !.roster = {t}])
          /\ calls' = calls \ {Pend(d, "members", g, t)}
          /\ server' = server
    BY <1>7 DEF NewGameMembers
  <2>2. PICK w : w = [Blank("members", g) EXCEPT !.roster = {t}]
    OBVIOUS
  <2>3. w \in Write /\ w.op = "members"
    BY <1>1, <2>2 DEF WriteOps, Write, TeamIDs
  <2>. QED  BY <2>1, <2>2, <2>3, EnqueueKeepsPlayed
<1>8. ASSUME NEW d \in Devices, NEW g \in Games, JoinGameClick(d, g) PROVE PlayedInv'
  BY <1>2, <1>8 DEF JoinGameClick, Pend
<1>9. ASSUME NEW d \in Devices, NEW g \in Games, CheckedHosting(d, g) PROVE PlayedInv'
  BY <1>2, <1>9 DEF CheckedHosting, Pend
<1>10. ASSUME NEW d \in Devices, NEW g \in Games, NEW t \in TeamIDs, Enqueue(d, SeatWrite(d, g, t)),
              server' = server, \A c \in calls' : c \in calls \/ c.kind # "commit"
       PROVE  PlayedInv'
  <2>1. PICK w : w = SeatWrite(d, g, t)
    OBVIOUS
  <2>2. w \in Write /\ w.op = "seat"
    <3>1. Blank("seat", g) \in Write /\ Blank("seat", g).op = "seat" /\ ViewHome(d, g) \in TeamIDs
      BY <1>1, ViewTypes DEF WriteOps
    <3>. QED  BY <2>1, <3>1 DEF SeatWrite, Write
  <2>. QED  BY <1>10, <2>1, <2>2, EnqueueKeepsPlayed
<1>11. ASSUME NEW d \in Devices, NEW g \in Games, JoinGameSeats(d, g) PROVE PlayedInv'
  BY <1>10, <1>11 DEF JoinGameSeats, Pend, TeamIDs
<1>12. ASSUME NEW d \in Devices, NEW g \in Games, JoinGameSeatsTraps(d, g) PROVE PlayedInv'
  BY <1>10, <1>12 DEF JoinGameSeatsTraps, LoseCalls, TeamIDs
<1>13. ASSUME NEW d \in Devices, NEW g \in Games, JoinGameStarts(d, g) PROVE PlayedInv'
  <2>1. PICK c \in calls : Enqueue(d, StartWrite(g, c)) /\ calls' = calls \ {c} /\ server' = server
    BY <1>13 DEF JoinGameStarts, InFlight
  <2>2. PICK w : w = StartWrite(g, c)
    OBVIOUS
  <2>3. w \in Write /\ w.op = "start"
    <3>1. c.team \in TeamIDs /\ c.roster \in SUBSET TeamIDs
      BY DEF TypeOK, Call
    <3>. QED  BY <1>1, <2>2, <3>1 DEF StartWrite, WriteOps, Write
  <2>. QED  BY <2>1, <2>2, <2>3, EnqueueKeepsPlayed
<1>14. ASSUME NEW d \in Devices, DeleteListing(d) PROVE PlayedInv'
  <2>1. PICK g \in Games : Enqueue(d, Blank("withdraw", g)) /\ calls' \subseteq calls /\ server' = server
    BY <1>14 DEF DeleteListing, Listings
  <2>2. PICK w : w = Blank("withdraw", g)
    OBVIOUS
  <2>. QED  BY <1>1, <2>1, <2>2, EnqueueKeepsPlayed DEF WriteOps
<1>15. ASSUME NEW d \in Devices, NEW g \in Games, ReportClick(d, g) PROVE PlayedInv'
  <2>1. /\ UNCHANGED <<server, queue>> /\ ViewStatus(d, g) = "active" /\ ViewHome(d, g) # NoTeam
        /\ \A c \in calls' : c \in calls \/ c.game = g
    BY <1>15 DEF ReportClick, Pend
  <2>2. Hosted(g)
    BY <2>1, ViewFacts DEF Hosted
  <2>. QED  BY <1>2, <2>1, <2>2
<1>16. ASSUME NEW d \in Devices, NEW g \in Games, CommitResult(d, g) PROVE PlayedInv'
  <2>1. PICK c \in calls :
          /\ c.kind = "commit" /\ c.game = g
          /\ Enqueue(d, [Blank("result", g) EXCEPT !.homeWin = c.homeWin, !.guestWin = ~c.homeWin])
          /\ calls' = calls \ {c} /\ server' = server
    BY <1>16 DEF CommitResult, InFlight
  <2>2. PICK w : w = [Blank("result", g) EXCEPT !.homeWin = c.homeWin, !.guestWin = ~c.homeWin]
    OBVIOUS
  <2>3. c.homeWin \in BOOLEAN
    BY DEF TypeOK, Call
  <2>4. w \in Write /\ w.game = g
    <3>1. Blank("result", g) \in Write /\ Blank("result", g).game = g
      BY <1>1 DEF WriteOps
    <3>. QED  BY <2>2, <2>3, <3>1 DEF Write
  <2>5. Hosted(g)
    BY <2>1 DEF PlayedInv
  <2>. QED  BY <2>1, <2>2, <2>4, <2>5, EnqueueKeepsPlayed
<1>17. ASSUME NEW d \in Devices, DeleteListingClick(d) PROVE PlayedInv'
  BY <1>2, <1>17 DEF DeleteListingClick, Pend
<1>18. ASSUME NEW d \in Devices, NEW g \in Games, ReportClickTraps(d, g) PROVE PlayedInv'
  BY <1>2, <1>18 DEF ReportClickTraps, LoseCalls
<1>19. ASSUME NEW d \in Devices,
              \/ OpenUnnamedListingTraps(d) \/ DeleteListingTraps(d) \/ TeamChange(d) \/ Restart(d)
       PROVE  PlayedInv'
  BY <1>2, <1>19 DEF OpenUnnamedListingTraps, DeleteListingTraps, TeamChange, Restart, LoseCalls
<1>. QED
  BY <1>3, <1>4, <1>5, <1>6, <1>7, <1>8, <1>9, <1>11, <1>12, <1>13, <1>14, <1>15, <1>16, <1>17,
     <1>18, <1>19 DEF Next, DeviceStep, StreamStep, Callback, Click

-----------------------------------------------------------------------------
(* What a device sees of a played game. *)

(* The game is posted under a home team, and its guest and its start are on *)
(* the server or in the device's own queue.                                 *)
LEMMA PlayedFacts ==
  ASSUME Inv, FairInv, PlayedInv, NEW d \in Devices, NEW g \in Games,
         ViewStatus(d, g) = "completed"
  PROVE  /\ Posted(g) /\ NoCreate(g) /\ Hosted(g)
         /\ KnownGuest(d, g) /\ KnownStart(d, g)
         /\ Pending(d, g, {"result"}) = {} => server[g].status = "completed"
<1>. USE DEF Inv
<1>1. CASE Pending(d, g, StatusOps) = {}
  <2>1. server[g].status = "completed"
    BY <1>1 DEF ViewStatus
  <2>2. Posted(g) /\ KnownName(d, g) /\ Hosted(g) /\ Seated(g) /\ Started(g)
    BY <2>1 DEF Posted, KnownName, DocInv, GoodDoc, PlayedInv, FairInv, FairDoc
  <2>. QED  BY <2>1, <2>2, ViewFacts DEF KnownGuest, KnownStart
<1>2. CASE Pending(d, g, StatusOps) # {}
  <2>. PICK i : i = Latest(d, g, StatusOps)
    OBVIOUS
  <2>1. i \in Pending(d, g, StatusOps)
    BY <1>2, LatestIsPending DEF TypeOK
  <2>2. i \in 1..Len(queue[d]) /\ queue[d][i].game = g /\ queue[d][i].op \in StatusOps
    BY <2>1, QueueType DEF Pending
  <2>3. queue[d][i].op = "result"
    BY <1>2, <2>2 DEF ViewStatus, StatusSetBy, StatusOps
  <2>4. Pending(d, g, {"result"}) # {}
    BY <2>2, <2>3, QueueType DEF Pending
  <2>5. Posted(g) /\ NoCreate(g) /\ Hosted(g)
    BY <2>2, <2>3 DEF WriteInv, GoodWrite, PlayedInv
  <2>6. (Seated(g) \/ Before(d, i, "seat")) /\ (Started(g) \/ Before(d, i, "start"))
    BY <2>2, <2>3 DEF FairInv, FairWrite
  <2>7. ASSUME NEW op, Before(d, i, op) PROVE Pending(d, g, {op}) # {}
    BY <2>2, <2>7, QueueType DEF Before, Pending
  <2>. QED  BY <2>4, <2>5, <2>6, <2>7 DEF KnownGuest, KnownStart
<1>. QED  BY <1>1, <1>2

(* The latest of some pending writes that are not creates. *)
LEMMA LatestFacts ==
  ASSUME Inv, FairInv, NEW d \in Devices, NEW g \in Games, NEW ops, NoCreate(g),
         Pending(d, g, ops) # {}
  PROVE  \E w \in Write : /\ w = queue[d][Latest(d, g, ops)] /\ w.game = g
                          /\ w.op \in ops /\ w.op # "create"
                          /\ \E i \in 1..Len(queue[d]) :
                               w = queue[d][i] /\ GoodWrite(d, i) /\ FairWrite(d, i)
<1>. USE DEF Inv
<1>1. PICK i : i = Latest(d, g, ops)
  OBVIOUS
<1>2. i \in Pending(d, g, ops)
  BY <1>1, LatestIsPending DEF TypeOK
<1>3. i \in 1..Len(queue[d]) /\ queue[d][i].game = g /\ queue[d][i].op \in ops /\ queue[d][i] \in Write
  BY <1>2, QueueType DEF Pending
<1>4. queue[d][i].op # "create" /\ GoodWrite(d, i) /\ FairWrite(d, i)
  BY <1>3 DEF NoCreate, WriteInv, FairInv
<1>. QED  BY <1>1, <1>3, <1>4

LEMMA PlayedView ==
  ASSUME Inv, FairInv, PlayedInv, NEW d \in Devices, NEW g \in Games,
         ViewStatus(d, g) = "completed"
  PROVE  /\ ViewHome(d, g) \in Teams
         /\ ViewGuest(d, g) \in Teams \ {ViewHome(d, g)}
         /\ Score(d, g).home \in BOOLEAN /\ Score(d, g).guest = ~Score(d, g).home
         /\ \E p \in Teams \ {ViewHome(d, g)} : p \in ViewRoster(d, g)
<1>. USE DEF Inv
<1>1. /\ Posted(g) /\ NoCreate(g) /\ Hosted(g) /\ KnownGuest(d, g) /\ KnownStart(d, g)
      /\ Pending(d, g, {"result"}) = {} => server[g].status = "completed"
  BY PlayedFacts
<1>2. ViewHome(d, g) = server[g].home /\ server[g] \in GameDoc
  BY <1>1, ViewFacts DEF TypeOK
<1>3. ViewHome(d, g) \in Teams
  BY <1>1, <1>2 DEF Hosted, GameDoc, TeamIDs
<1>4. ASSUME NEW t \in TeamIDs, Outsider(t, g) PROVE t \in Teams \ {ViewHome(d, g)}
  BY <1>2, <1>4 DEF Outsider, TeamIDs
<1>5. ViewGuest(d, g) \in Teams \ {ViewHome(d, g)}
  <2>1. CASE Pending(d, g, {"create", "seat"}) = {}
    <3>1. Pending(d, g, {"seat"}) = {}
      BY <2>1 DEF Pending
    <3>2. Seated(g) /\ server[g].guest # server[g].home
      BY <1>1, <3>1 DEF KnownGuest, FairInv, FairDoc
    <3>3. ViewGuest(d, g) = server[g].guest /\ server[g].guest \in TeamIDs
      BY <1>2, <2>1 DEF ViewGuest, GameDoc
    <3>. QED  BY <1>4, <3>2, <3>3 DEF Seated, Outsider
  <2>2. CASE Pending(d, g, {"create", "seat"}) # {}
    <3>1. PICK w \in Write :
            /\ w = queue[d][Latest(d, g, {"create", "seat"})] /\ w.game = g
            /\ w.op \in {"create", "seat"} /\ w.op # "create"
            /\ \E i \in 1..Len(queue[d]) : w = queue[d][i] /\ FairWrite(d, i)
      BY <1>1, <2>2, LatestFacts
    <3>2. Outsider(w.guest, g) /\ w.guest \in TeamIDs
      BY <3>1 DEF FairWrite, Write
    <3>3. ViewGuest(d, g) = w.guest
      BY <2>2, <3>1 DEF ViewGuest
    <3>. QED  BY <1>4, <3>2, <3>3
  <2>. QED  BY <2>1, <2>2
<1>6. Score(d, g).home \in BOOLEAN /\ Score(d, g).guest = ~Score(d, g).home
  <2>1. CASE Pending(d, g, {"result"}) = {}
    <3>1. Score(d, g) = [home |-> server[g].homeWin, guest |-> server[g].guestWin]
      BY <2>1 DEF Score
    <3>2. /\ server[g].homeWin # server[g].guestWin
          /\ server[g].homeWin \in BOOLEAN /\ server[g].guestWin \in BOOLEAN
      BY <1>1, <1>2, <2>1 DEF DocInv, GoodDoc, GameDoc
    <3>. QED  BY <3>1, <3>2
  <2>2. CASE Pending(d, g, {"result"}) # {}
    <3>1. PICK w \in Write :
            /\ w = queue[d][Latest(d, g, {"result"})] /\ w.op = "result"
            /\ \E i \in 1..Len(queue[d]) : w = queue[d][i] /\ GoodWrite(d, i)
      BY <1>1, <2>2, LatestFacts
    <3>2. w.homeWin # w.guestWin /\ w.homeWin \in BOOLEAN /\ w.guestWin \in BOOLEAN
      BY <3>1 DEF GoodWrite, Write
    <3>3. Score(d, g) = [home |-> w.homeWin, guest |-> w.guestWin]
      BY <2>2, <3>1 DEF Score
    <3>. QED  BY <3>2, <3>3
  <2>. QED  BY <2>1, <2>2
<1>7. \E p \in Teams \ {ViewHome(d, g)} : p \in ViewRoster(d, g)
  <2>1. CASE Pending(d, g, {"create", "start"}) = {}
    <3>1. Pending(d, g, {"start"}) = {}
      BY <2>1 DEF Pending
    <3>2. PICK p \in server[g].roster : Outsider(p, g)
      BY <1>1, <3>1 DEF KnownStart, Started
    <3>3. p \in TeamIDs /\ p \in ViewRoster(d, g)
      BY <1>2, <2>1 DEF GameDoc, ViewRoster
    <3>. QED  BY <1>4, <3>2, <3>3
  <2>2. CASE Pending(d, g, {"create", "start"}) # {}
    <3>1. PICK w \in Write :
            /\ w = queue[d][Latest(d, g, {"create", "start"})] /\ w.game = g
            /\ w.op \in {"create", "start"} /\ w.op # "create"
            /\ \E i \in 1..Len(queue[d]) : w = queue[d][i] /\ FairWrite(d, i)
      BY <1>1, <2>2, LatestFacts
    <3>2. PICK p \in w.roster : Outsider(p, g)
      BY <3>1 DEF FairWrite
    <3>3. p \in TeamIDs /\ p \in ViewRoster(d, g)
      BY <2>2, <3>1 DEF Write, ViewRoster
    <3>. QED  BY <1>4, <3>2, <3>3
  <2>. QED  BY <2>1, <2>2
<1>. QED  BY <1>3, <1>5, <1>6, <1>7

(* While no device changes team: results reported at once, late joins and   *)
(* unsent writes notwithstanding, both teams' histories show a played game, *)
(* with opposite results (getGamesHistory, getGameTeamResult).              *)
THEOREM HistoriesAgree ==
  ASSUME MovableDevices = {}
  PROVE  Spec => []HistoriesOppose
<1>1. Init => PlayedInv
  BY EmptySeq DEF Init, PlayedInv, Absent
<1>2. Inv /\ FairInv /\ PlayedInv => HistoriesOppose
  <2>. SUFFICES ASSUME Inv, FairInv, PlayedInv,
                       NEW d \in Devices, NEW t \in Teams, NEW g \in TeamHistory(d, t)
                PROVE  LET u == GameOpponent(d, g, t)
                       IN  /\ u \in Teams \ {t} /\ g \in TeamHistory(d, u)
                           /\ GameOpponent(d, g, u) = t
                           /\ GameTeamResult(d, g, t) # GameTeamResult(d, g, u)
                           /\ \E p \in Teams \ {ViewHome(d, g)} :
                                /\ g \in PlayerHistory(d, p)
                                /\ GameTeamResult(d, g, p) = GameTeamResult(d, g, ViewGuest(d, g))
    BY DEF HistoriesOppose
  <2>1. g \in Games /\ ViewStatus(d, g) = "completed" /\ t \in {ViewHome(d, g), ViewGuest(d, g)}
    BY DEF TeamHistory, Plays
  <2>2. /\ ViewHome(d, g) \in Teams /\ ViewGuest(d, g) \in Teams \ {ViewHome(d, g)}
        /\ Score(d, g).home \in BOOLEAN /\ Score(d, g).guest = ~Score(d, g).home
    BY <2>1, PlayedView
  <2>3. PICK p \in Teams \ {ViewHome(d, g)} : p \in ViewRoster(d, g)
    BY <2>1, PlayedView
  <2>4. PICK u : u = GameOpponent(d, g, t)
    OBVIOUS
  <2>5. /\ u \in Teams \ {t} /\ {t, u} = {ViewHome(d, g), ViewGuest(d, g)}
        /\ GameOpponent(d, g, u) = t
    BY <2>1, <2>2, <2>4 DEF GameOpponent
  <2>6. g \in TeamHistory(d, u)
    BY <2>1, <2>5 DEF TeamHistory, Plays
  <2>7. GameTeamResult(d, g, t) # GameTeamResult(d, g, u)
    BY <2>2, <2>5 DEF GameTeamResult
  <2>8. g \in PlayerHistory(d, p) /\ GameTeamResult(d, g, p) = GameTeamResult(d, g, ViewGuest(d, g))
    BY <2>1, <2>2, <2>3 DEF PlayerHistory, GameTeamResult
  <2>. QED  BY <2>4, <2>5, <2>6, <2>7, <2>8
<1>. QED  BY <1>1, <1>2, FairInvariance, InvNext, PlayedNext, PTL DEF Spec

-----------------------------------------------------------------------------
(* Replay: what a fold of a queue's writes over a document gives.           *)

(* f is a fold of the writes in device d's queue over the document of g. *)
Replays(f, d, g, n) ==
  f = [S \in SUBSET (1 .. n) |->
         IF S = {} THEN server[g] ELSE ApplyTo(g, f[S \ {Max(S)}], queue[d][Max(S)])]

(* Any value of the sets of a queue's positions that follows the recursion *)
(* is, at the whole queue, what replaying it gives.                        *)
LEMMA ReplayIs ==
  ASSUME NEW d \in Devices, NEW g \in Games, TypeOK, NEW n, n = Len(queue[d]),
         NEW c, Replays(c, d, g, n)
  PROVE  Replay(d, g) = c[1 .. n]
<1>. DEFINE h == CHOOSE f : Replays(f, d, g, n)
<1>1. n \in Nat /\ DOMAIN queue[d] = 1 .. n
  BY LenProperties DEF TypeOK
<1>2. Replay(d, g) = h[1 .. n]
  BY <1>1 DEF Replay, FoldLeft, MapThenFoldSet, Replays
<1>3. Replays(h, d, g, n)
  BY Zenon
<1>. HIDE DEF h
<1>4. ASSUME NEW S \in SUBSET (1 .. n)
      PROVE  /\ h[S] = IF S = {} THEN server[g]
                       ELSE ApplyTo(g, h[S \ {Max(S)}], queue[d][Max(S)])
             /\ c[S] = IF S = {} THEN server[g]
                       ELSE ApplyTo(g, c[S \ {Max(S)}], queue[d][Max(S)])
  BY <1>3, Zenon DEF Replays
<1>5. Follow(n, h, c)
  BY <1>4 DEF Follow
<1>6. \A S \in SUBSET (1 .. n) : h[S] = c[S]
  BY <1>1, <1>5, SameFold
<1>. QED  BY <1>2, <1>6

-----------------------------------------------------------------------------
(* The overlay over some positions of a queue *)

At(d, g, S, ops) == {i \in S : queue[d][i].game = g /\ queue[d][i].op \in ops}
LastAt(d, g, S, ops) == queue[d][Max(At(d, g, S, ops))]

OverlayRoster(d, g, S) ==
  LET whole == At(d, g, S, {"create", "start"})
      base  == IF whole = {} THEN server[g].roster
               ELSE LastAt(d, g, S, {"create", "start"}).roster
  IN  base \cup UNION {queue[d][i].roster :
                         i \in {k \in At(d, g, S, {"members"}) : \A j \in whole : j < k}}

(* The document a device would see if only the writes in S were unsent. *)
Overlay(d, g, S) ==
  [status   |-> IF At(d, g, S, StatusOps) = {} THEN server[g].status
                ELSE StatusSetBy[LastAt(d, g, S, StatusOps).op],
   home     |-> IF At(d, g, S, {"create", "seat"}) = {} THEN server[g].home
                ELSE LastAt(d, g, S, {"create", "seat"}).home,
   guest    |-> IF At(d, g, S, {"create", "seat"}) = {} THEN server[g].guest
                ELSE LastAt(d, g, S, {"create", "seat"}).guest,
   named    |-> server[g].named \/ At(d, g, S, {"name"}) # {},
   roster   |-> OverlayRoster(d, g, S),
   homeWin  |-> IF At(d, g, S, {"result"}) = {} THEN server[g].homeWin
                ELSE LastAt(d, g, S, {"result"}).homeWin,
   guestWin |-> IF At(d, g, S, {"result"}) = {} THEN server[g].guestWin
                ELSE LastAt(d, g, S, {"result"}).guestWin]

(* The last position m of S decides what is read of ops, or leaves it to R, *)
(* the positions before it.                                                 *)
Decides(d, g, S, R, m, ops) ==
  IF queue[d][m].game = g /\ queue[d][m].op \in ops
  THEN /\ At(d, g, S, ops) = At(d, g, R, ops) \cup {m}
       /\ At(d, g, S, ops) # {}
       /\ LastAt(d, g, S, ops) = queue[d][m]
  ELSE /\ At(d, g, S, ops) = At(d, g, R, ops)
       /\ LastAt(d, g, S, ops) = LastAt(d, g, R, ops)

LEMMA AtLast ==
  ASSUME NEW d \in Devices, NEW g \in Games, NEW n \in Nat,
         NEW S \in SUBSET (1 .. n), S # {}, NEW m, m = Max(S)
  PROVE  \A ops : Decides(d, g, S, S \ {m}, m, ops)
<1>. TAKE ops
<1>1. m \in S /\ \A i \in S : i <= m
  BY Greatest
<1>2. CASE queue[d][m].game = g /\ queue[d][m].op \in ops
  <2>1. At(d, g, S, ops) = At(d, g, S \ {m}, ops) \cup {m}
    BY <1>1, <1>2 DEF At
  <2>2. PICK P : P = At(d, g, S, ops)
    OBVIOUS
  <2>3. P \in SUBSET S /\ m \in P
    BY <2>1, <2>2 DEF At
  <2>4. Max(P) \in P /\ \A i \in P : i <= Max(P)
    BY <2>3, Greatest
  <2>5. PICK k : k = Max(P)
    OBVIOUS
  <2>6. k \in S /\ m <= k /\ k <= m
    BY <1>1, <2>3, <2>4, <2>5
  <2>7. Max(P) = m
    BY <1>1, <2>5, <2>6
  <2>. QED  BY <1>2, <2>1, <2>2, <2>7 DEF Decides, LastAt
<1>3. CASE ~(queue[d][m].game = g /\ queue[d][m].op \in ops)
  <2>1. At(d, g, S, ops) = At(d, g, S \ {m}, ops)
    BY <1>3 DEF At
  <2>. QED  BY <1>3, <2>1 DEF Decides, LastAt
<1>. QED  BY <1>2, <1>3

(* Device d has nothing to say of g, or updates of a posted game. *)
Updates(d, g) ==
  \A i \in 1 .. Len(queue[d]) : queue[d][i].game = g => queue[d][i].op # "create" /\ Posted(g)

LEMMA OverlayIsDoc ==
  ASSUME NEW d \in Devices, NEW g \in Games, TypeOK, NEW n, n = Len(queue[d]),
         NEW S \in SUBSET (1 .. n)
  PROVE  Overlay(d, g, S) \in GameDoc
<1>1. n \in Nat /\ \A i \in 1 .. n : queue[d][i] \in Write
  BY LenProperties, ElementOfSeq DEF TypeOK
<1>2. server[g] \in GameDoc
  BY DEF TypeOK
<1>3. ASSUME NEW ops, At(d, g, S, ops) # {}
      PROVE  LastAt(d, g, S, ops) \in Write /\ LastAt(d, g, S, ops).op \in ops
  <2>1. PICK P : P = At(d, g, S, ops)
    OBVIOUS
  <2>2. P \in SUBSET (1 .. n) /\ P # {}
    BY <1>3, <2>1 DEF At
  <2>3. Max(P) \in P
    BY <1>1, <2>2, Greatest
  <2>. QED  BY <1>1, <2>1, <2>2, <2>3 DEF At, LastAt
<1>4. At(d, g, S, StatusOps) # {} => StatusSetBy[LastAt(d, g, S, StatusOps).op] \in Statuses
  BY <1>3 DEF StatusOps, StatusSetBy, Statuses
<1>5. OverlayRoster(d, g, S) \in SUBSET TeamIDs
  <2>1. \A i \in At(d, g, S, {"members"}) : queue[d][i].roster \in SUBSET TeamIDs
    BY <1>1 DEF At, Write
  <2>2. At(d, g, S, {"create", "start"}) # {} =>
          LastAt(d, g, S, {"create", "start"}).roster \in SUBSET TeamIDs
    BY <1>3 DEF Write
  <2>. QED  BY <1>2, <2>1, <2>2 DEF OverlayRoster, GameDoc
<1>6. At(d, g, S, {"create", "seat"}) # {} => LastAt(d, g, S, {"create", "seat"}) \in Write
  BY <1>3
<1>7. At(d, g, S, {"result"}) # {} => LastAt(d, g, S, {"result"}) \in Write
  BY <1>3
<1>. QED  BY <1>2, <1>4, <1>5, <1>6, <1>7 DEF Overlay, GameDoc, Write

(* Two documents with the same parts are the same. *)
LEMMA SameDoc ==
  ASSUME NEW doc \in GameDoc, NEW res \in GameDoc,
         doc.status = res.status, doc.home = res.home, doc.guest = res.guest,
         doc.named = res.named, doc.roster = res.roster,
         doc.homeWin = res.homeWin, doc.guestWin = res.guestWin
  PROVE  doc = res
BY DEF GameDoc

(* One more write over the overlay of those before it. *)
LEMMA OverlayStep ==
  ASSUME NEW d \in Devices, NEW g \in Games, TypeOK, Updates(d, g), NEW n, n = Len(queue[d]),
         NEW S \in SUBSET (1 .. n), S # {}, NEW m, m = Max(S)
  PROVE  Overlay(d, g, S) = ApplyTo(g, Overlay(d, g, S \ {m}), queue[d][m])
<1>1. n \in Nat /\ \A i \in 1 .. n : queue[d][i] \in Write
  BY LenProperties, ElementOfSeq DEF TypeOK
<1>2. m \in S /\ \A i \in S : i <= m
  BY <1>1, Greatest
<1>3. PICK w \in Write : w = queue[d][m]
  BY <1>1, <1>2
<1>4. PICK R \in SUBSET (1 .. n) : R = S \ {m}
  OBVIOUS
<1>5. \A ops : IF w.game = g /\ w.op \in ops
               THEN /\ At(d, g, S, ops) = At(d, g, R, ops) \cup {m}
                    /\ At(d, g, S, ops) # {}
                    /\ LastAt(d, g, S, ops) = w
               ELSE /\ At(d, g, S, ops) = At(d, g, R, ops)
                    /\ LastAt(d, g, S, ops) = LastAt(d, g, R, ops)
  <2>1. \A ops : Decides(d, g, S, R, m, ops)
    BY <1>1, <1>4, AtLast
  <2>. QED  BY <1>3, <2>1, Zenon DEF Decides
<1>6. CASE w.game # g
  <2>1. \A ops : At(d, g, S, ops) = At(d, g, R, ops) /\ LastAt(d, g, S, ops) = LastAt(d, g, R, ops)
    BY <1>5, <1>6
  <2>2. Overlay(d, g, S) = Overlay(d, g, R)
    BY <2>1 DEF Overlay, OverlayRoster
  <2>. QED  BY <1>3, <1>4, <1>6, <2>2 DEF ApplyTo
<1>7. CASE w.game = g
  <2>. DEFINE old == Overlay(d, g, R)
              new == Overlay(d, g, S)
  <2>1. w.op # "create" /\ Posted(g) /\ w.op \in WriteOps
    BY <1>2, <1>3, <1>7 DEF Updates, Write
  <2>2. old \in GameDoc /\ new \in GameDoc
    BY OverlayIsDoc
  <2>3. old.status # "absent"
    <3>1. CASE At(d, g, R, StatusOps) = {}
      BY <2>1, <3>1 DEF Overlay, Posted
    <3>2. CASE At(d, g, R, StatusOps) # {}
      <4>1. PICK P : P = At(d, g, R, StatusOps)
        OBVIOUS
      <4>2. P \in SUBSET (1 .. n) /\ P # {}
        BY <3>2, <4>1 DEF At
      <4>3. Max(P) \in P
        BY <1>1, <4>2, Greatest
      <4>4. LastAt(d, g, R, StatusOps).op \in StatusOps
        BY <4>1, <4>3 DEF At, LastAt
      <4>. QED  BY <3>2, <4>4 DEF Overlay, StatusOps, StatusSetBy
    <3>. QED  BY <3>1, <3>2
  <2>4. Apply(old, w) \in GameDoc /\ Updated(old, w, Apply(old, w))
    BY <2>1, <2>2, <2>3, ApplyType, ApplyFields
  <2>5. new.status = Apply(old, w).status
    <3>1. new.status = IF w.op \in StatusOps THEN StatusSetBy[w.op] ELSE old.status
      BY <1>5, <1>7 DEF Overlay
    <3>. QED  BY <2>1, <2>4, <3>1 DEF Updated, StatusOps, StatusSetBy, WriteOps
  <2>6. new.home = Apply(old, w).home /\ new.guest = Apply(old, w).guest
    <3>1. /\ new.home = IF w.op = "seat" THEN w.home ELSE old.home
          /\ new.guest = IF w.op = "seat" THEN w.guest ELSE old.guest
      BY <1>5, <1>7, <2>1 DEF Overlay
    <3>. QED  BY <2>4, <3>1 DEF Updated
  <2>7. new.named = Apply(old, w).named
    <3>1. new.named = IF w.op = "name" THEN TRUE ELSE old.named
      BY <1>5, <1>7 DEF Overlay
    <3>. QED  BY <2>4, <3>1 DEF Updated
  <2>8. new.homeWin = Apply(old, w).homeWin /\ new.guestWin = Apply(old, w).guestWin
    <3>1. /\ new.homeWin = IF w.op = "result" THEN w.homeWin ELSE old.homeWin
          /\ new.guestWin = IF w.op = "result" THEN w.guestWin ELSE old.guestWin
      BY <1>5, <1>7, <2>1 DEF Overlay
    <3>. QED  BY <2>4, <3>1 DEF Updated
  <2>9. new.roster = Apply(old, w).roster
    <3>1. new.roster = OverlayRoster(d, g, S) /\ old.roster = OverlayRoster(d, g, R)
      BY DEF Overlay
    <3>2. OverlayRoster(d, g, S) = IF w.op = "members" THEN OverlayRoster(d, g, R) \cup w.roster
                                   ELSE IF w.op = "start" THEN w.roster
                                   ELSE OverlayRoster(d, g, R)
      <4>1. CASE w.op = "members"
        <5>1. /\ At(d, g, S, {"create", "start"}) = At(d, g, R, {"create", "start"})
              /\ LastAt(d, g, S, {"create", "start"}) = LastAt(d, g, R, {"create", "start"})
              /\ At(d, g, S, {"members"}) = At(d, g, R, {"members"}) \cup {m}
          BY <1>5, <1>7, <4>1
        <5>2. \A j \in At(d, g, R, {"create", "start"}) : j < m
          BY <1>1, <1>2, <1>4 DEF At
        <5>3. OverlayRoster(d, g, S) = OverlayRoster(d, g, R) \cup w.roster
          BY <1>3, <5>1, <5>2 DEF OverlayRoster
        <5>. QED  BY <4>1, <5>3
      <4>2. CASE w.op = "start"
        <5>1. /\ m \in At(d, g, S, {"create", "start"})
              /\ LastAt(d, g, S, {"create", "start"}) = w
          BY <1>5, <1>7, <4>2
        <5>2. ASSUME NEW i \in At(d, g, S, {"members"}) PROVE ~(m < i)
          BY <1>1, <1>2 DEF At
        <5>3. OverlayRoster(d, g, S) = w.roster
          BY <5>1, <5>2 DEF OverlayRoster
        <5>. QED  BY <4>2, <5>3
      <4>3. CASE w.op \notin {"members", "start"}
        <5>1. /\ At(d, g, S, {"create", "start"}) = At(d, g, R, {"create", "start"})
              /\ LastAt(d, g, S, {"create", "start"}) = LastAt(d, g, R, {"create", "start"})
              /\ At(d, g, S, {"members"}) = At(d, g, R, {"members"})
          BY <1>5, <2>1, <4>3
        <5>. QED  BY <4>3, <5>1 DEF OverlayRoster
      <4>. QED  BY <4>1, <4>2, <4>3
    <3>. QED  BY <2>4, <3>1, <3>2 DEF Updated
  <2>10. new = Apply(old, w)
    <3>. HIDE DEF old, new
    <3>. QED  BY <2>2, <2>4, <2>5, <2>6, <2>7, <2>8, <2>9, SameDoc
  <2>. QED  BY <1>3, <1>4, <1>7, <2>10 DEF ApplyTo
<1>. QED  BY <1>6, <1>7

(* The overlay of a whole queue is what the device's screens read. *)
LEMMA OverlayIsView ==
  ASSUME NEW d \in Devices, NEW g \in Games, TypeOK, NEW n, n = Len(queue[d])
  PROVE  LET doc == Overlay(d, g, 1 .. n)
         IN  /\ doc.status = ViewStatus(d, g) /\ doc.named = ViewNamed(d, g)
             /\ doc.home = ViewHome(d, g) /\ doc.guest = ViewGuest(d, g)
             /\ doc.roster = ViewRoster(d, g)
             /\ [home |-> doc.homeWin, guest |-> doc.guestWin] = Score(d, g)
<1>1. n \in Nat /\ DOMAIN queue[d] = 1 .. n
  BY LenProperties DEF TypeOK
<1>2. \A ops : At(d, g, 1 .. n, ops) = Pending(d, g, ops)
  BY <1>1 DEF At, Pending
<1>3. ASSUME NEW ops, Pending(d, g, ops) # {}
      PROVE  LastAt(d, g, 1 .. n, ops) = queue[d][Latest(d, g, ops)]
  <2>1. PICK P : P = Pending(d, g, ops)
    OBVIOUS
  <2>2. P \in SUBSET (1 .. n) /\ P # {}
    BY <1>1, <1>3, <2>1 DEF Pending
  <2>3. Max(P) \in P /\ \A i \in P : i <= Max(P)
    BY <1>1, <2>2, Greatest
  <2>4. PICK k : k = Latest(d, g, ops)
    OBVIOUS
  <2>5. k \in P /\ \A i \in P : i <= k
    BY <1>3, <2>1, <2>4, LatestIsPending DEF TypeOK
  <2>6. PICK l : l = Max(P)
    OBVIOUS
  <2>7. l \in P /\ \A i \in P : i <= l
    BY <2>3, <2>6
  <2>8. k = l
    <3>1. k \in Nat /\ l \in Nat
      BY <1>1, <2>2, <2>5, <2>7
    <3>2. k <= l /\ l <= k
      BY <2>5, <2>7
    <3>. QED  BY <3>1, <3>2
  <2>. QED  BY <1>2, <2>1, <2>4, <2>6, <2>8 DEF LastAt
<1>4. Overlay(d, g, 1 .. n).status = ViewStatus(d, g)
  BY <1>2, <1>3 DEF Overlay, ViewStatus
<1>5. /\ Overlay(d, g, 1 .. n).home = ViewHome(d, g)
      /\ Overlay(d, g, 1 .. n).guest = ViewGuest(d, g)
  BY <1>2, <1>3 DEF Overlay, ViewHome, ViewGuest
<1>6. Overlay(d, g, 1 .. n).named = ViewNamed(d, g)
  BY <1>2 DEF Overlay, ViewNamed
<1>7. Overlay(d, g, 1 .. n).roster = ViewRoster(d, g)
  BY <1>2, <1>3 DEF Overlay, OverlayRoster, ViewRoster
<1>8. [home  |-> Overlay(d, g, 1 .. n).homeWin,
       guest |-> Overlay(d, g, 1 .. n).guestWin] = Score(d, g)
  BY <1>2, <1>3 DEF Overlay, Score
<1>. QED  BY <1>4, <1>5, <1>6, <1>7, <1>8

LEMMA UpdatesReplay ==
  ASSUME NEW d \in Devices, NEW g \in Games, TypeOK, Updates(d, g)
  PROVE  Replay(d, g) = Overlay(d, g, 1 .. Len(queue[d]))
<1>. PICK n : n = Len(queue[d])
  OBVIOUS
<1>1. n \in Nat /\ DOMAIN queue[d] = 1 .. n
  BY LenProperties DEF TypeOK
<1>. DEFINE c == [S \in SUBSET (1 .. n) |-> Overlay(d, g, S)]
<1>2. Overlay(d, g, {}) = server[g]
  <2>1. /\ \A ops : At(d, g, {}, ops) = {}
        /\ server[g] \in GameDoc /\ Overlay(d, g, {}) \in GameDoc
    BY OverlayIsDoc DEF At, TypeOK
  <2>2. OverlayRoster(d, g, {}) = server[g].roster
    BY <2>1 DEF OverlayRoster
  <2>. QED  BY <2>1, <2>2, SameDoc DEF Overlay, GameDoc
<1>3. ASSUME NEW S \in SUBSET (1 .. n)
      PROVE  c[S] = IF S = {} THEN server[g]
                    ELSE ApplyTo(g, c[S \ {Max(S)}], queue[d][Max(S)])
  <2>1. CASE S = {}
    BY <1>2, <2>1
  <2>2. CASE S # {}
    <3>1. Overlay(d, g, S) = ApplyTo(g, Overlay(d, g, S \ {Max(S)}), queue[d][Max(S)])
      BY <2>2, OverlayStep
    <3>. QED  BY <2>2, <3>1
  <2>. QED  BY <2>1, <2>2
<1>4. Replays(c, d, g, n)
  BY <1>3, Zenon DEF Replays
<1>5. c[1 .. n] = Overlay(d, g, 1 .. n)
  OBVIOUS
<1>. HIDE DEF c
<1>6. Replay(d, g) = c[1 .. n]
  BY <1>4, ReplayIs
<1>. QED  BY <1>5, <1>6

(* A device that has not been told its game is posted has nothing else to  *)
(* say of it, and nobody else has.                                         *)
LEMMA CreateReplay ==
  ASSUME Inv, NEW d \in Devices, NEW g \in Games, NEW i \in 1 .. Len(queue[d]),
         queue[d][i].op = "create", queue[d][i].game = g
  PROVE  /\ Replay(d, g) = NewDoc(queue[d][i].home)
         /\ server[g] \in {Absent, NewDoc(queue[d][i].home)}
         /\ queue[d][i].guest = NoTeam /\ queue[d][i].roster = {}
         /\ \A j \in 1 .. Len(queue[d]) : queue[d][j].game = g => j = i
<1>. PICK n : n = Len(queue[d])
  OBVIOUS
<1>1. TypeOK /\ GoodWrite(d, i)
  BY DEF Inv, WriteInv
<1>2. n \in Nat /\ \A j \in 1 .. n : queue[d][j] \in Write
  BY <1>1, QueueType
<1>3. ASSUME NEW j \in 1 .. n, queue[d][j].game = g PROVE j = i
  <2>1. GoodWrite(d, j)
    BY DEF Inv, WriteInv
  <2>2. queue[d][j].op = "create"
    BY <1>3, <2>1 DEF GoodWrite, NoCreate
  <2>. QED  BY <1>1, <1>3, <2>2 DEF GoodWrite, OnlyCreate
<1>4. PICK new : new = NewDoc(queue[d][i].home)
  OBVIOUS
<1>. DEFINE c == [S \in SUBSET (1 .. n) |-> IF i \in S THEN new ELSE server[g]]
<1>5. ASSUME NEW S \in SUBSET (1 .. n)
      PROVE  c[S] = IF S = {} THEN server[g]
                    ELSE ApplyTo(g, c[S \ {Max(S)}], queue[d][Max(S)])
  <2>1. CASE S = {}
    BY <2>1
  <2>2. CASE S # {}
    <3>1. PICK m : m = Max(S)
      OBVIOUS
    <3>2. m \in S
      BY <1>2, <2>2, <3>1, Greatest
    <3>3. CASE m = i
      <4>1. \A doc : ApplyTo(g, doc, queue[d][m]) = new
        BY <1>4, <3>3 DEF ApplyTo, Apply
      <4>. QED  BY <2>2, <3>1, <3>2, <3>3, <4>1
    <3>4. CASE m # i
      <4>1. queue[d][m].game # g
        BY <1>3, <3>2, <3>4
      <4>2. c[S] = c[S \ {m}]
        BY <3>4
      <4>. QED  BY <2>2, <3>1, <4>1, <4>2 DEF ApplyTo
    <3>. QED  BY <3>3, <3>4
  <2>. QED  BY <2>1, <2>2
<1>6. Replays(c, d, g, n)
  BY <1>5, Zenon DEF Replays
<1>7. c[1 .. n] = new
  OBVIOUS
<1>. HIDE DEF c
<1>8. Replay(d, g) = new
  BY <1>1, <1>6, <1>7, ReplayIs
<1>. QED  BY <1>1, <1>3, <1>4, <1>8 DEF GoodWrite

(* Whatever a device has unsent and however often its writes are sent, the *)
(* parts of a document its screens read one by one are the parts of one    *)
(* document, the server's under the device's writes in their order.        *)
THEOREM ViewsReplay == Spec => []ViewIsReplay
<1>1. ASSUME Inv, NEW d \in Devices, NEW g \in Games
      PROVE  LET doc == Replay(d, g)
             IN  /\ doc.status = ViewStatus(d, g) /\ doc.named = ViewNamed(d, g)
                 /\ doc.home = ViewHome(d, g) /\ doc.guest = ViewGuest(d, g)
                 /\ doc.roster = ViewRoster(d, g)
                 /\ [home |-> doc.homeWin, guest |-> doc.guestWin] = Score(d, g)
  <2>1. TypeOK
    BY <1>1 DEF Inv
  <2>2. CASE Pending(d, g, {"create"}) = {}
    <3>1. Updates(d, g)
      <4>1. ASSUME NEW i \in 1 .. Len(queue[d]), queue[d][i].game = g
            PROVE  queue[d][i].op # "create" /\ Posted(g)
        <5>1. queue[d][i].op # "create"
          BY <2>1, <2>2, <4>1, QueueType DEF Pending
        <5>. QED  BY <1>1, <4>1, <5>1 DEF Inv, WriteInv, GoodWrite
      <4>. QED  BY <4>1 DEF Updates
    <3>. QED  BY <2>1, <3>1, UpdatesReplay, OverlayIsView
  <2>3. CASE Pending(d, g, {"create"}) # {}
    <3>1. PICK i \in 1 .. Len(queue[d]) : queue[d][i].op = "create" /\ queue[d][i].game = g
      BY <2>1, <2>3, QueueType DEF Pending
    <3>2. PICK w \in Write : w = queue[d][i]
      BY <2>1, QueueType
    <3>3. /\ Replay(d, g) = NewDoc(w.home) /\ w.op = "create"
          /\ server[g] \in {Absent, NewDoc(w.home)}
          /\ w.guest = NoTeam /\ w.roster = {}
          /\ \A j \in 1 .. Len(queue[d]) : queue[d][j].game = g => j = i
      BY <1>1, <3>1, <3>2, CreateReplay
    <3>4. \A ops : Pending(d, g, ops) = IF "create" \in ops THEN {i} ELSE {}
      BY <2>1, <3>1, <3>2, <3>3, QueueType DEF Pending
    <3>5. \A ops : "create" \in ops => Latest(d, g, ops) = i
      <4>1. SUFFICES ASSUME NEW ops, "create" \in ops PROVE Latest(d, g, ops) = i
        OBVIOUS
      <4>2. Pending(d, g, ops) = {i}
        BY <3>4, <4>1
      <4>3. Latest(d, g, ops) \in Pending(d, g, ops)
        <5>1. Pending(d, g, ops) # {}
          BY <4>2
        <5>. QED  BY <2>1, <5>1, LatestIsPending DEF TypeOK
      <4>. QED  BY <4>2, <4>3
    <3>51. /\ Pending(d, g, StatusOps) = {i} /\ Latest(d, g, StatusOps) = i
           /\ Pending(d, g, {"create", "seat"}) = {i} /\ Latest(d, g, {"create", "seat"}) = i
           /\ Pending(d, g, {"create", "start"}) = {i} /\ Latest(d, g, {"create", "start"}) = i
           /\ Pending(d, g, {"members"}) = {}
      BY <3>4, <3>5 DEF StatusOps
    <3>6. /\ ViewStatus(d, g) = "listing" /\ ViewHome(d, g) = w.home
          /\ ViewGuest(d, g) = NoTeam
      BY <3>2, <3>3, <3>51 DEF ViewStatus, ViewHome, ViewGuest, StatusSetBy
    <3>7. /\ ~server[g].homeWin /\ ~server[g].guestWin /\ ~server[g].named
          /\ server[g].homeWin = FALSE /\ server[g].guestWin = FALSE
      BY <3>3 DEF NewDoc, Absent
    <3>8. ViewNamed(d, g) = FALSE
      BY <3>4, <3>7 DEF ViewNamed
    <3>9. ViewRoster(d, g) = {}
      BY <3>2, <3>3, <3>51 DEF ViewRoster
    <3>10. Score(d, g) = [home |-> FALSE, guest |-> FALSE]
      BY <3>4, <3>7 DEF Score
    <3>. QED  BY <3>3, <3>6, <3>8, <3>9, <3>10 DEF NewDoc, Absent
  <2>. QED  BY <2>2, <2>3
<1>2. Inv => ViewIsReplay
  BY <1>1 DEF ViewIsReplay
<1>. QED  BY <1>2, Invariance, PTL

-----------------------------------------------------------------------------
(* The second halves of operations.  newGame and joinGame keep what is left  *)
(* of them in a callback: on a device that is not killed and whose user     *)
(* does not open the Listing screen, no trap takes it away, and the write   *)
(* it leaves is sent after the first half.                                  *)

Keeps(d) == ud[d] # NoTeam /\ d \notin Killable \cup ListingViewers

(* No device of team t loses its callbacks. *)
StaysOn(t) == t # NoTeam /\ \A d \in Devices : ud[d] = t => Keeps(d)

GuestCall(d, g) == \E c \in InFlight(d) : c.kind = "guest" /\ c.game = g
PostedCall(d, g) == Pend(d, "posted", g, NoTeam) \in calls

(* The start of g is still to come from d, after its write at i. *)
StartAfter(d, i, g) ==
  \/ GuestCall(d, g)
  \/ \E j \in Pending(d, g, {"start"}) : i < j

NameComing(d, g) == PostedCall(d, g) \/ Pending(d, g, {"name"}) # {}

OweWrite(d, i) ==
  LET w == queue[d][i] IN
  /\ w.op = "seat" => w.guest = ud[d] /\ (Keeps(d) => StartAfter(d, i, w.game))
  /\ w.op = "start" /\ i <= sent[d] => Off(w.game)
  /\ w.op = "create" => /\ w.home = ud[d]
                        /\ Keeps(d) => PostedCall(d, w.game)

OweCall(c) ==
  /\ c.kind \in {"hosting", "listing", "guest"} => c.team = ud[c.dev]
  /\ c.kind = "delete" => c.dev \in ListingViewers

(* A guest seated on a listing is about to start it, and the poster of an *)
(* unnamed game about to name it.                                         *)
SeatOwesStart(g) ==
  server[g].status = "listing" /\ StaysOn(server[g].guest) =>
    \E d \in Devices : ud[d] = server[g].guest /\ StartAfter(d, 0, g)

PostOwesName(g) ==
  Posted(g) /\ ~server[g].named /\ StaysOn(server[g].home) =>
    \E d \in Devices : ud[d] = server[g].home /\ NameComing(d, g)

HalvesOwed == \A g \in Games : SeatOwesStart(g) /\ PostOwesName(g)

OweInv ==
  /\ \A d \in Devices : \A i \in 1..Len(queue[d]) : OweWrite(d, i)
  /\ \A c \in calls : OweCall(c)
  /\ HalvesOwed
(* A device that sees a game under way sees its guest. *)
LEMMA ActiveHasGuest ==
  ASSUME Inv, FairInv, NEW d \in Devices, NEW g \in Games, ViewStatus(d, g) = "active"
  PROVE  ViewGuest(d, g) # NoTeam
<1>1. KnownGuest(d, g) /\ NoCreate(g)
  BY ActiveFacts, ViewFacts
<1>2. CASE Pending(d, g, {"create", "seat"}) = {}
  <2>1. Pending(d, g, {"seat"}) = {}
    BY <1>2 DEF Pending
  <2>. QED  BY <1>1, <1>2, <2>1 DEF KnownGuest, Seated, ViewGuest
<1>3. CASE Pending(d, g, {"create", "seat"}) # {}
  <2>1. PICK i : i = Latest(d, g, {"create", "seat"})
    OBVIOUS
  <2>2. i \in Pending(d, g, {"create", "seat"})
    BY <1>3, <2>1, LatestIsPending DEF Inv, TypeOK
  <2>3. /\ i \in 1..Len(queue[d]) /\ queue[d][i].game = g
        /\ queue[d][i].op \in {"create", "seat"}
    BY <2>2, QueueType DEF Pending, Inv
  <2>4. queue[d][i].op = "seat"
    BY <1>1, <2>3 DEF NoCreate
  <2>5. queue[d][i].guest # NoTeam
    BY <2>3, <2>4 DEF FairInv, FairWrite, Outsider
  <2>. QED  BY <1>3, <2>1, <2>5 DEF ViewGuest
<1>. QED  BY <1>2, <1>3

(* A callback that is awaited stays, unless it is one of those that go. *)
LEMMA AwaitedCalls ==
  ASSUME NEW e, NEW g
  PROVE  /\ GuestCall(e, g) => \/ GuestCall(e, g)'
                               \/ \E c \in calls \ calls' :
                                    c.dev = e /\ c.kind = "guest" /\ c.game = g
         /\ PostedCall(e, g) => \/ PostedCall(e, g)'
                                \/ \E c \in calls \ calls' :
                                     c.dev = e /\ c.kind = "posted" /\ c.game = g
<1>1. /\ Pend(e, "posted", g, NoTeam).dev = e /\ Pend(e, "posted", g, NoTeam).kind = "posted"
      /\ Pend(e, "posted", g, NoTeam).game = g
  BY DEF Pend
<1>. QED  BY <1>1 DEF GuestCall, PostedCall, InFlight

(* What a callback leaves behind when it goes, if it was awaited. *)
Leaves(c, d, w) ==
  Keeps(c.dev) =>
    /\ c.kind = "guest"  => c.dev = d /\ w.op = "start" /\ w.game = c.game
    /\ c.kind = "posted" => /\ c.dev = d /\ w.op = "name" /\ w.game = c.game
                            /\ Pending(d, c.game, {"create"}) = {}

LEMMA EnqueueOwes ==
  ASSUME Inv, OweInv, NEW d \in Devices, NEW w \in Write, Enqueue(d, w),
         UNCHANGED <<server, ud, sent>>,
         w.op = "seat" => w.guest = ud[d] /\ GuestCall(d, w.game)',
         w.op = "create" => w.home = ud[d] /\ PostedCall(d, w.game)',
         \A c \in calls \ calls' : Leaves(c, d, w),
         \A c \in calls' : c \in calls \/ OweCall(c)
  PROVE  OweInv'
<1>. USE DEF Inv
<1>. PICK n \in Nat : n = Len(queue[d])
  BY QueueType
<1>0. /\ \A e : Keeps(e)' <=> Keeps(e)
      /\ \A t : StaysOn(t)' <=> StaysOn(t)
  BY DEF Keeps, StaysOn
<1>1. /\ n = Len(queue[d]) /\ Len(queue'[d]) = n + 1 /\ queue'[d][n + 1] = w
      /\ DOMAIN queue'[d] = 1..(n + 1)
  BY AppendStep
<1>2. ASSUME NEW e \in Devices, NEW i \in 1..Len(queue[e])
      PROVE  queue'[e][i] = queue[e][i]
  BY AppendStep, QueueType
<1>3. ASSUME NEW e \in Devices, NEW i \in 1..Len(queue'[e])
      PROVE  i \in 1..Len(queue[e]) \/ (e = d /\ i = n + 1)
  BY AppendStep, <1>1, QueueType
<1>4. ASSUME NEW e \in Devices, NEW g \in Games, Keeps(e)
      PROVE  /\ GuestCall(e, g) => GuestCall(e, g)' \/ (e = d /\ w.op = "start" /\ w.game = g)
             /\ PostedCall(e, g) => \/ PostedCall(e, g)'
                                    \/ /\ e = d /\ w.op = "name" /\ w.game = g
                                       /\ Pending(d, g, {"create"}) = {}
  BY <1>4, AwaitedCalls DEF Leaves
<1>5. n + 1 \in Pending(d, w.game, {w.op})'
  BY <1>1 DEF Pending
<1>6. ASSUME NEW e \in Devices, NEW g \in Games, NEW i \in 0..Len(queue[e]),
             Keeps(e), StartAfter(e, i, g)
      PROVE  StartAfter(e, i, g)'
  <2>1. CASE GuestCall(e, g)
    <3>1. CASE GuestCall(e, g)'
      BY <3>1 DEF StartAfter
    <3>2. CASE e = d /\ w.op = "start" /\ w.game = g
      <4>1. n + 1 \in Pending(e, g, {"start"})'
        BY <1>5, <3>2
      <4>2. i < n + 1
        BY <1>1, <3>2
      <4>. QED  BY <4>1, <4>2 DEF StartAfter
    <3>. QED  BY <1>4, <1>6, <2>1, <3>1, <3>2
  <2>2. CASE \E j \in Pending(e, g, {"start"}) : i < j
    <3>1. Pending(e, g, {"start"}) \subseteq Pending(e, g, {"start"})'
      BY PendingGrows
    <3>. QED  BY <2>2, <3>1 DEF StartAfter
  <2>. QED  BY <1>6, <2>1, <2>2 DEF StartAfter
<1>7. ASSUME NEW e \in Devices, NEW g \in Games, Keeps(e), NameComing(e, g)
      PROVE  NameComing(e, g)'
  <2>1. Pending(e, g, {"name"}) \subseteq Pending(e, g, {"name"})'
    BY PendingGrows
  <2>. QED  BY <1>4, <1>5, <1>7, <2>1 DEF NameComing
<1>8. ASSUME NEW e \in Devices, NEW i \in 1..Len(queue[e]) PROVE OweWrite(e, i)'
  <2>1. PICK v \in Write : v = queue[e][i] /\ v = queue'[e][i]
    BY <1>2, QueueType
  <2>2. OweWrite(e, i) /\ v.game \in Games /\ i \in 0..Len(queue[e])
    BY <2>1 DEF OweInv, Write
  <2>3. v.op = "seat" => v.guest = ud[e] /\ (Keeps(e) => StartAfter(e, i, v.game)')
    BY <1>6, <2>1, <2>2 DEF OweWrite
  <2>4. v.op = "start" /\ i <= sent[e] => Off(v.game)
    BY <2>1, <2>2 DEF OweWrite
  <2>5. v.op = "create" => v.home = ud[e] /\ (Keeps(e) => PostedCall(e, v.game)')
    <3>1. v.op = "create" => i \in Pending(e, v.game, {"create"})
      BY <2>1, QueueType DEF Pending
    <3>. QED  BY <1>4, <2>1, <2>2, <3>1 DEF OweWrite
  <2>. QED  BY <1>0, <2>1, <2>3, <2>4, <2>5 DEF OweWrite, Off
<1>9. OweWrite(d, n + 1)'
  <2>1. ~(n + 1 <= sent'[d])
    BY <1>1 DEF TypeOK
  <2>2. w.op = "seat" => w.guest = ud'[d] /\ StartAfter(d, n + 1, w.game)'
    BY DEF StartAfter
  <2>. QED  BY <1>1, <2>1, <2>2 DEF OweWrite
<1>10. HalvesOwed'
  <2>1. ASSUME NEW g \in Games PROVE SeatOwesStart(g)' /\ PostOwesName(g)'
    <3>1. SeatOwesStart(g) /\ PostOwesName(g)
      BY DEF OweInv, HalvesOwed
    <3>2. \A e \in Devices : 0 \in 0..Len(queue[e])
      BY QueueType
    <3>3. SeatOwesStart(g)'
      BY <1>0, <1>6, <3>1, <3>2 DEF SeatOwesStart, StaysOn
    <3>4. PostOwesName(g)'
      BY <1>0, <1>7, <3>1 DEF PostOwesName, StaysOn, Posted
    <3>. QED  BY <3>3, <3>4
  <2>. QED  BY <2>1 DEF HalvesOwed
<1>11. \A c \in calls' : OweCall(c)'
  BY DEF OweInv, OweCall
<1>. QED  BY <1>3, <1>8, <1>9, <1>10, <1>11 DEF OweInv

LEMMA CallsOnlyOwes ==
  ASSUME OweInv, UNCHANGED <<server, queue, ud, sent>>,
         \A c \in calls \ calls' : Keeps(c.dev) => c.kind \notin {"guest", "posted"},
         \A c \in calls' : c \in calls \/ OweCall(c)
  PROVE  OweInv'
<1>0. /\ \A e : Keeps(e)' <=> Keeps(e)
      /\ \A t : StaysOn(t)' <=> StaysOn(t)
  BY DEF Keeps, StaysOn
<1>1. \A e, g, ops : Pending(e, g, ops)' = Pending(e, g, ops)
  BY DEF Pending
<1>2. ASSUME NEW e, NEW g, Keeps(e)
      PROVE  /\ GuestCall(e, g) => GuestCall(e, g)'
             /\ PostedCall(e, g) => PostedCall(e, g)'
  BY <1>2, AwaitedCalls
<1>3. \A e, g : Keeps(e) => /\ \A i : StartAfter(e, i, g) => StartAfter(e, i, g)'
                            /\ NameComing(e, g) => NameComing(e, g)'
  BY <1>1, <1>2 DEF StartAfter, NameComing
<1>4. ASSUME NEW d \in Devices, NEW i \in 1..Len(queue'[d]) PROVE OweWrite(d, i)'
  <2>1. OweWrite(d, i)
    BY DEF OweInv
  <2>. QED  BY <1>0, <1>2, <1>3, <2>1 DEF OweWrite, Off
<1>5. ASSUME NEW g \in Games PROVE SeatOwesStart(g)' /\ PostOwesName(g)'
  <2>1. SeatOwesStart(g) /\ PostOwesName(g)
    BY DEF OweInv, HalvesOwed
  <2>2. SeatOwesStart(g)'
    BY <1>0, <1>3, <2>1 DEF SeatOwesStart, StaysOn
  <2>3. PostOwesName(g)'
    BY <1>0, <1>3, <2>1 DEF PostOwesName, StaysOn, Posted
  <2>. QED  BY <2>2, <2>3
<1>6. \A c \in calls' : OweCall(c)'
  BY DEF OweInv, OweCall
<1>. QED  BY <1>4, <1>5, <1>6 DEF OweInv, HalvesOwed

(* What the server has been told, or is told in the step that drops it, is *)
(* done: the game has its name, or is off the board.                       *)
LEMMA ToldIsDone ==
  ASSUME Inv, OweInv, NEW d \in Devices, NEW s \in {0, 1}, Covers(d, s),
         \A g \in Games : Posted(g) => Lasts(g),
         \A g \in Games : Off(g) => Off(g)',
         NEW k \in 1..Len(queue[d]), k <= sent'[d] + s,
         NEW g \in Games, g = queue[d][k].game
  PROVE  /\ queue[d][k].op = "name"  => server'[g].named
         /\ queue[d][k].op = "start" => Off(g)'
<1>1. GoodWrite(d, k) /\ OweWrite(d, k)
  BY DEF Inv, WriteInv, OweInv
<1>2. CASE k <= sent[d]
  BY <1>1, <1>2 DEF GoodWrite, OweWrite, Lasts
<1>3. CASE Serves(d, k)
  <2>1. PICK w \in Write :
          /\ w = queue[d][k]
          /\ w.op # "create" => Posted(w.game) /\ Updated(server[w.game], w, server'[w.game])
    BY <1>3, ServeFacts
  <2>. QED  BY <2>1 DEF Updated, Off
<1>. QED  BY <1>2, <1>3 DEF Covers

LEMMA StreamOwes ==
  ASSUME Inv, OweInv, NEW d \in Devices, StreamStep(d)
  PROVE  OweInv'
<1>. USE DEF Inv
<1>1. PICK s \in {0, 1} : Drops(d, s) /\ Covers(d, s)
  BY StreamSteps
<1>2. UNCHANGED <<calls, ud>>
  BY StreamSteps
<1>3. /\ \A g \in Games : Posted(g) => Lasts(g)
      /\ \A g \in Games : Off(g) => Off(g)'
  <2>1. CASE server' = server
    BY <2>1 DEF Posted, Lasts, Off
  <2>2. CASE \E k \in 1..Len(queue[d]) : Serves(d, k)
    BY <2>2, ServeDocs, ServeOff
  <2>. QED  BY <2>1, <2>2, StreamSteps
<1>4. /\ \A e : Keeps(e)' <=> Keeps(e)
      /\ \A t : StaysOn(t)' <=> StaysOn(t)
      /\ \A e, g : (GuestCall(e, g)' <=> GuestCall(e, g)) /\ (PostedCall(e, g)' <=> PostedCall(e, g))
  BY <1>2 DEF Keeps, StaysOn, GuestCall, InFlight, PostedCall
<1>5. s = 1 => 1 <= sent'[d] + s
  BY <1>1 DEF Drops
(* A later write moves up with the one it follows. *)
<1>6. ASSUME NEW e \in Devices, NEW i \in 1..Len(queue'[e]), NEW k \in 1..Len(queue[e]),
             k = (IF e = d THEN i + s ELSE i), NEW g \in Games, StartAfter(e, k, g)
      PROVE  StartAfter(e, i, g)'
  <2>1. CASE GuestCall(e, g)
    BY <1>4, <2>1 DEF StartAfter
  <2>2. CASE \E j \in Pending(e, g, {"start"}) : k < j
    <3>1. PICK j \in 1..Len(queue[e]) :
            k < j /\ queue[e][j].game = g /\ queue[e][j].op = "start"
      BY <2>2, QueueType DEF Pending
    <3>2. CASE e = d
      <4>1. j - s \in 1..Len(queue'[e]) /\ (j - s) + s = j /\ i < j - s
        BY <1>1, <1>6, <3>1, <3>2, QueueType DEF Drops
      <4>2. queue'[e][j - s] = queue[e][j]
        BY <1>1, <3>2, <4>1 DEF Drops
      <4>3. j - s \in Pending(e, g, {"start"})'
        BY <1>1, <3>1, <4>1, <4>2 DEF Pending, Drops
      <4>. QED  BY <4>1, <4>3 DEF StartAfter
    <3>3. CASE e # d
      <4>1. queue'[e] = queue[e] /\ i = k
        BY <1>1, <1>6, <3>3 DEF Drops
      <4>2. j \in Pending(e, g, {"start"})'
        BY <3>1, <4>1, QueueType DEF Pending
      <4>. QED  BY <3>1, <4>1, <4>2 DEF StartAfter
    <3>. QED  BY <3>2, <3>3
  <2>. QED  BY <1>6, <2>1, <2>2 DEF StartAfter
<1>7. ASSUME NEW e \in Devices, NEW g \in Games, NEW op \in {"name", "start"},
             NEW j \in Pending(e, g, {op})
      PROVE  \/ Pending(e, g, {op})' # {}
             \/ (op = "name" => server'[g].named) /\ (op = "start" => Off(g)')
  <2>1. j \in 1..Len(queue[e]) /\ queue[e][j].game = g /\ queue[e][j].op = op
    BY <1>7, QueueType DEF Pending
  <2>2. \/ \E m \in 1..Len(queue'[e]) : queue'[e][m] = queue[e][j]
        \/ e = d /\ s = 1 /\ j = 1
    BY <1>1, <2>1, DropQueued
  <2>3. CASE \E m \in 1..Len(queue'[e]) : queue'[e][m] = queue[e][j]
    BY <1>1, <2>1, <2>3 DEF Pending, Drops
  <2>4. CASE e = d /\ s = 1 /\ j = 1
    <3>1. j <= sent'[d] + s
      BY <1>5, <2>4
    <3>. QED  BY <1>1, <1>3, <2>1, <2>4, <3>1, ToldIsDone
  <2>. QED  BY <2>2, <2>3, <2>4
<1>8. ASSUME NEW e \in Devices, NEW i \in 1..Len(queue'[e]) PROVE OweWrite(e, i)'
  <2>1. PICK k \in 1..Len(queue[e]) :
          queue'[e][i] = queue[e][k] /\ k = IF e = d THEN i + s ELSE i
    BY <1>1, DropSource
  <2>2. PICK v \in Write : v = queue[e][k] /\ v = queue'[e][i]
    BY <2>1, QueueType
  <2>3. OweWrite(e, k) /\ v.game \in Games
    BY <2>2 DEF OweInv, Write
  <2>4. v.op = "seat" => v.guest = ud[e] /\ (Keeps(e) => StartAfter(e, i, v.game)')
    BY <1>6, <2>1, <2>2, <2>3 DEF OweWrite
  <2>5. ASSUME v.op = "start", i <= sent'[e] PROVE Off(v.game)'
    <3>1. CASE e = d
      <4>1. k <= sent'[d] + s
        BY <1>1, <2>1, <2>5, <3>1, QueueType DEF Drops
      <4>. QED  BY <1>1, <1>3, <2>2, <2>3, <2>5, <3>1, <4>1, ToldIsDone
    <3>2. CASE e # d
      <4>1. k <= sent[e]
        BY <1>1, <2>1, <2>5, <3>2 DEF Drops
      <4>2. Off(v.game)
        BY <2>2, <2>3, <2>5, <4>1 DEF OweWrite
      <4>. QED  BY <1>3, <2>3, <4>2
    <3>. QED  BY <3>1, <3>2
  <2>6. v.op = "create" => v.home = ud[e] /\ (Keeps(e) => PostedCall(e, v.game)')
    BY <1>4, <2>2, <2>3 DEF OweWrite
  <2>. QED  BY <1>2, <1>4, <2>2, <2>4, <2>5, <2>6 DEF OweWrite
(* What the server applies is followed by what it owes. *)
<1>9. ASSUME NEW g \in Games, server'[g].status = "listing", StaysOn(server'[g].guest)
      PROVE  \/ /\ server[g].status = "listing" /\ server[g].guest = server'[g].guest
             \/ /\ ud[d] = server'[g].guest
                /\ \E k \in 1..Len(queue[d]) :
                     queue[d][k].op = "seat" /\ StartAfter(d, k, g)
  <2>1. CASE server'[g] = server[g]
    BY <1>9, <2>1
  <2>2. CASE server'[g] # server[g]
    <3>1. PICK k \in 1..Len(queue[d]) : Serves(d, k)
      BY <2>2, StreamSteps
    <3>2. PICK w \in Write :
            /\ w = queue[d][k]
            /\ \A h \in Games : h # w.game => server'[h] = server[h]
            /\ w.op = "create" => server'[w.game] = NewDoc(w.home)
            /\ w.op # "create" => Posted(w.game) /\ Updated(server[w.game], w, server'[w.game])
      BY <3>1, ServeFacts
    <3>3. g = w.game
      BY <2>2, <3>2
    <3>4. w.op # "create"
      BY <1>9, <3>2, <3>3 DEF NewDoc, Absent, StaysOn
    <3>5. Updated(server[g], w, server'[g])
      BY <3>2, <3>3, <3>4
    <3>6. CASE w.op = "seat"
      <4>1. server'[g].guest = w.guest /\ OweWrite(d, k)
        BY <3>5, <3>6 DEF Updated, OweInv
      <4>2. ud[d] = w.guest
        BY <3>2, <3>6, <4>1 DEF OweWrite
      <4>3. Keeps(d)
        BY <1>9, <4>1, <4>2 DEF StaysOn
      <4>. QED  BY <3>2, <3>3, <3>6, <4>1, <4>2, <4>3 DEF OweWrite
    <3>7. CASE w.op # "seat"
      BY <1>9, <3>5, <3>7 DEF Updated
    <3>. QED  BY <3>6, <3>7
  <2>. QED  BY <2>1, <2>2
<1>10. ASSUME NEW g \in Games PROVE SeatOwesStart(g)'
  <2>1. SUFFICES ASSUME server'[g].status = "listing", StaysOn(server'[g].guest)
                 PROVE  \E e \in Devices : ud[e] = server'[g].guest /\ StartAfter(e, 0, g)'
    BY <1>2, <1>4 DEF SeatOwesStart
  <2>2. PICK e \in Devices : ud[e] = server'[g].guest /\ StartAfter(e, 0, g)
    <3>1. CASE server[g].status = "listing" /\ server[g].guest = server'[g].guest
      BY <2>1, <3>1 DEF OweInv, HalvesOwed, SeatOwesStart
    <3>2. CASE /\ ud[d] = server'[g].guest
               /\ \E k \in 1..Len(queue[d]) :
                    queue[d][k].op = "seat" /\ StartAfter(d, k, g)
      <4>1. PICK k \in 1..Len(queue[d]) : StartAfter(d, k, g)
        BY <3>2
      <4>2. \A j \in Pending(d, g, {"start"}) : k < j => 0 < j
        BY QueueType DEF Pending
      <4>3. StartAfter(d, 0, g)
        BY <4>1, <4>2 DEF StartAfter
      <4>. QED  BY <3>2, <4>3
    <3>. QED  BY <1>9, <2>1, <3>1, <3>2
  <2>3. CASE GuestCall(e, g)
    BY <1>4, <2>2, <2>3 DEF StartAfter
  <2>4. CASE Pending(e, g, {"start"}) # {}
    <3>1. ~Off(g)'
      BY <2>1 DEF Off
    <3>2. PICK j \in Pending(e, g, {"start"})' : TRUE
      BY <1>7, <2>4, <3>1
    <3>3. 0 < j
      BY <1>1, <3>2 DEF Pending, Drops
    <3>. QED  BY <2>2, <3>2, <3>3 DEF StartAfter
  <2>. QED  BY <2>2, <2>3, <2>4 DEF StartAfter
<1>11. ASSUME NEW g \in Games PROVE PostOwesName(g)'
  <2>1. SUFFICES ASSUME Posted(g)', ~server'[g].named, StaysOn(server'[g].home)
                 PROVE  \E e \in Devices : ud[e] = server'[g].home /\ NameComing(e, g)'
    BY <1>2, <1>4 DEF PostOwesName
  <2>2. CASE Posted(g)
    <3>1. server'[g].home = server[g].home /\ ~server[g].named
      BY <1>3, <2>1, <2>2 DEF Lasts
    <3>2. PICK e \in Devices : ud[e] = server'[g].home /\ NameComing(e, g)
      BY <2>1, <2>2, <3>1 DEF OweInv, HalvesOwed, PostOwesName
    <3>3. NameComing(e, g)'
      BY <1>4, <1>7, <2>1, <3>2 DEF NameComing
    <3>. QED  BY <3>2, <3>3
  <2>3. CASE ~Posted(g)
    <3>1. PICK k \in 1..Len(queue[d]) : Serves(d, k)
      <4>1. server' # server
        BY <2>1, <2>3 DEF Posted
      <4>. QED  BY <4>1, StreamSteps
    <3>2. PICK w \in Write :
            /\ w = queue[d][k]
            /\ \A h \in Games : h # w.game => server'[h] = server[h]
            /\ w.op = "create" => server'[w.game] = NewDoc(w.home)
            /\ w.op # "create" => Posted(w.game)
      BY <3>1, ServeFacts
    <3>3. g = w.game /\ w.op = "create"
      BY <2>1, <2>3, <3>2 DEF Posted
    <3>4. server'[g].home = w.home
      BY <3>2, <3>3 DEF NewDoc, Absent
    <3>5. OweWrite(d, k)
      BY DEF OweInv
    <3>6. ud[d] = w.home
      BY <3>2, <3>3, <3>5 DEF OweWrite
    <3>7. Keeps(d)
      BY <2>1, <3>4, <3>6 DEF StaysOn
    <3>8. PostedCall(d, g)
      BY <3>2, <3>3, <3>5, <3>7 DEF OweWrite
    <3>. QED  BY <1>4, <3>4, <3>6, <3>8 DEF NameComing
  <2>. QED  BY <2>2, <2>3
<1>12. \A c \in calls' : OweCall(c)'
  BY <1>2 DEF OweInv, OweCall
<1>. QED  BY <1>8, <1>10, <1>11, <1>12 DEF OweInv, HalvesOwed

(* The traps of a device that has a team are those of the Listing screen. *)
LEMMA TrapFacts ==
  ASSUME Inv, FairInv, OweInv, NEW d \in Devices,
         \/ OpenUnnamedListingTraps(d) \/ DeleteListingTraps(d) \/ Restart(d)
         \/ \E g \in Games : \/ NewGamePostedTraps(d, g) \/ JoinGameSeatsTraps(d, g)
                             \/ ReportClickTraps(d, g)
  PROVE  ~Keeps(d)
<1>1. CASE OpenUnnamedListingTraps(d) \/ Restart(d)
  BY <1>1 DEF OpenUnnamedListingTraps, Restart, Keeps
<1>2. CASE DeleteListingTraps(d)
  <2>1. PICK t \in TeamIDs : Pend(d, "delete", NoGame, t) \in calls
    BY <1>2 DEF DeleteListingTraps
  <2>2. OweCall(Pend(d, "delete", NoGame, t))
    BY <2>1 DEF OweInv
  <2>. QED  BY <2>2 DEF OweCall, Pend, Keeps
<1>3. ASSUME NEW g \in Games, NewGamePostedTraps(d, g) PROVE ~Keeps(d)
  BY <1>3 DEF NewGamePostedTraps, Keeps
<1>4. ASSUME NEW g \in Games, JoinGameSeatsTraps(d, g) PROVE ~Keeps(d)
  <2>1. FairCall(Pend(d, "listing", g, NoTeam))
    BY <1>4 DEF JoinGameSeatsTraps, FairInv
  <2>. QED  BY <2>1 DEF FairCall, Pend, Outsider
<1>5. ASSUME NEW g \in Games, ReportClickTraps(d, g) PROVE ~Keeps(d)
  BY <1>5, ActiveHasGuest DEF ReportClickTraps, Keeps
<1>. QED  BY <1>1, <1>2, <1>3, <1>4, <1>5

LEMMA OweNext ==
  ASSUME MovableDevices = {}
  PROVE  Inv /\ FairInv /\ OweInv /\ [Next]_vars => OweInv'
<1>. SUFFICES ASSUME Inv, FairInv, OweInv, [Next]_vars PROVE OweInv'
  OBVIOUS
<1>. USE DEF Inv
<1>1. ASSUME NEW op \in WriteOps, NEW g \in Games
      PROVE  /\ Blank(op, g) \in Write /\ Blank(op, g).op = op /\ Blank(op, g).game = g
  BY BuiltTypes DEF Blank
<1>2. CASE UNCHANGED vars
  BY <1>2, CallsOnlyOwes DEF vars
<1>3. ASSUME NEW d \in Devices, StreamStep(d) PROVE OweInv'
  BY <1>3, StreamOwes
<1>4. ASSUME NEW d \in Devices, NEW g \in Games, NewGame(d, g) PROVE OweInv'
  <2>1. PICK w : w = [Blank("create", g) EXCEPT !.home = ud[d]]
    OBVIOUS
  <2>2. w \in Write /\ w.op = "create" /\ w.game = g /\ w.home = ud[d]
    BY <1>1, <2>1 DEF WriteOps, Write, Blank, TypeOK
  <2>3. /\ Enqueue(d, w) /\ UNCHANGED <<server, ud, sent>>
        /\ calls' = calls \cup {Pend(d, "posted", g, NoTeam)}
    BY <1>4, <2>1 DEF NewGame
  <2>4. PostedCall(d, g)' /\ OweCall(Pend(d, "posted", g, NoTeam))
    BY <2>3 DEF PostedCall, OweCall, Pend
  <2>. QED  BY <2>2, <2>3, <2>4, EnqueueOwes
<1>5. ASSUME NEW d \in Devices, NEW g \in Games, NewGamePosted(d, g) PROVE OweInv'
  <2>1. PICK w : w = Blank("name", g)
    OBVIOUS
  <2>2. w \in Write /\ w.op = "name" /\ w.game = g
    BY <1>1, <2>1 DEF WriteOps
  <2>3. PICK c : c = Pend(d, "posted", g, NoTeam)
    OBVIOUS
  <2>4. PICK m : m = Pend(d, "members", g, ud[d])
    OBVIOUS
  <2>5. /\ Enqueue(d, w) /\ UNCHANGED <<server, ud, sent>> /\ Pending(d, g, {"create"}) = {}
        /\ calls' = (calls \ {c}) \cup {m}
    BY <1>5, <2>1, <2>3, <2>4 DEF NewGamePosted
  <2>6. c.dev = d /\ c.kind = "posted" /\ c.game = g /\ OweCall(m)
    BY <2>3, <2>4 DEF Pend, OweCall
  <2>7. Leaves(c, d, w)
    BY <2>2, <2>5, <2>6 DEF Leaves
  <2>. QED  BY <2>2, <2>5, <2>6, <2>7, EnqueueOwes
<1>6. ASSUME NEW d \in Devices, NEW w \in Write, Enqueue(d, w), UNCHANGED <<server, ud, sent>>,
             ~Keeps(d), w.op \notin {"seat", "create"}, LoseCalls(d)
      PROVE  OweInv'
  <2>1. \A c \in calls \ calls' : Leaves(c, d, w)
    BY <1>6 DEF Leaves, LoseCalls, InFlight
  <2>2. \A c \in calls' : c \in calls
    BY <1>6 DEF LoseCalls
  <2>. QED  BY <1>6, <2>1, <2>2, EnqueueOwes
<1>7. ASSUME NEW d \in Devices, NEW g \in Games, NewGamePostedTraps(d, g) PROVE OweInv'
  <2>1. ~Keeps(d)
    BY <1>7, TrapFacts
  <2>. QED  BY <1>1, <1>6, <1>7, <2>1 DEF NewGamePostedTraps, WriteOps
<1>8. ASSUME NEW d \in Devices, NEW w \in Write, Enqueue(d, w), UNCHANGED <<server, ud, sent>>,
             w.op \notin {"seat", "create"}, NEW c, calls' = calls \ {c}, Leaves(c, d, w)
      PROVE  OweInv'
  BY <1>8, EnqueueOwes
<1>9. ASSUME NEW d \in Devices, NEW g \in Games, NewGameMembers(d, g) PROVE OweInv'
  <2>1. PICK t \in Teams :
          /\ Enqueue(d, [Blank("members", g) EXCEPT !.roster = {t}])
          /\ calls' = calls \ {Pend(d, "members", g, t)}
          /\ UNCHANGED <<server, ud, sent>>
    BY <1>9 DEF NewGameMembers
  <2>2. PICK w : w = [Blank("members", g) EXCEPT !.roster = {t}]
    OBVIOUS
  <2>3. w \in Write /\ w.op = "members"
    <3>1. Blank("members", g) \in Write /\ {t} \in SUBSET TeamIDs
      BY <1>1 DEF WriteOps, TeamIDs
    <3>. QED  BY <2>2, <3>1 DEF Write, Blank
  <2>4. Leaves(Pend(d, "members", g, t), d, w)
    BY DEF Leaves, Pend
  <2>. QED  BY <1>8, <2>1, <2>2, <2>3, <2>4
<1>10. ASSUME NEW d \in Devices, NEW g \in Games, JoinGameClick(d, g) PROVE OweInv'
  <2>1. OweCall(Pend(d, "hosting", g, ud[d]))
    BY DEF OweCall, Pend
  <2>. QED  BY <1>10, <2>1, CallsOnlyOwes DEF JoinGameClick
<1>11. ASSUME NEW d \in Devices, NEW g \in Games, CheckedHosting(d, g) PROVE OweInv'
  <2>1. PICK t \in Teams :
          /\ calls' = (calls \ {Pend(d, "hosting", g, t)}) \cup
               (IF Listings(d, t) # {} THEN {} ELSE {Pend(d, "listing", g, ud[d])})
          /\ UNCHANGED <<server, queue, ud, sent>>
    BY <1>11 DEF CheckedHosting
  <2>2. OweCall(Pend(d, "listing", g, ud[d])) /\ Pend(d, "hosting", g, t).kind = "hosting"
    BY DEF OweCall, Pend
  <2>. QED  BY <2>1, <2>2, CallsOnlyOwes
<1>12. ASSUME NEW d \in Devices, NEW g \in Games, JoinGameSeats(d, g) PROVE OweInv'
  <2>1. PICK t \in Teams :
          /\ Pend(d, "listing", g, t) \in calls
          /\ Enqueue(d, SeatWrite(d, g, t))
          /\ calls' = (calls \ {Pend(d, "listing", g, t)}) \cup
               {[Pend(d, "guest", g, t) EXCEPT !.roster = ViewRoster(d, g)]}
          /\ UNCHANGED <<server, ud, sent>>
    BY <1>12 DEF JoinGameSeats
  <2>2. PICK w : w = SeatWrite(d, g, t)
    OBVIOUS
  <2>3. w \in Write /\ w.op = "seat" /\ w.game = g /\ w.guest = t
    <3>1. Blank("seat", g) \in Write /\ ViewHome(d, g) \in TeamIDs /\ t \in TeamIDs
      BY <1>1, ViewTypes DEF WriteOps, TeamIDs
    <3>. QED  BY <2>2, <3>1 DEF SeatWrite, Write, Blank
  <2>4. t = ud[d]
    <3>1. OweCall(Pend(d, "listing", g, t))
      BY <2>1 DEF OweInv
    <3>. QED  BY <3>1 DEF OweCall, Pend
  <2>5. PICK c : c = [Pend(d, "guest", g, t) EXCEPT !.roster = ViewRoster(d, g)]
    OBVIOUS
  <2>6. c.dev = d /\ c.kind = "guest" /\ c.game = g /\ c.team = t
    BY <2>5 DEF Pend
  <2>7. GuestCall(d, g)' /\ OweCall(c)
    BY <2>1, <2>4, <2>5, <2>6 DEF GuestCall, InFlight, OweCall
  <2>8. Leaves(Pend(d, "listing", g, t), d, w)
    BY DEF Leaves, Pend
  <2>. QED  BY <2>1, <2>2, <2>3, <2>4, <2>5, <2>7, <2>8, EnqueueOwes
<1>13. ASSUME NEW d \in Devices, NEW g \in Games, JoinGameSeatsTraps(d, g) PROVE OweInv'
  <2>1. FairCall(Pend(d, "listing", g, NoTeam))
    BY <1>13 DEF JoinGameSeatsTraps, FairInv
  <2>. QED  BY <2>1 DEF FairCall, Pend, Outsider
<1>14. ASSUME NEW d \in Devices, NEW g \in Games, JoinGameStarts(d, g) PROVE OweInv'
  <2>1. PICK c \in InFlight(d) :
          /\ c.kind = "guest" /\ c.game = g
          /\ Enqueue(d, StartWrite(g, c))
          /\ calls' = calls \ {c}
          /\ UNCHANGED <<server, ud, sent>>
    BY <1>14 DEF JoinGameStarts
  <2>2. PICK w : w = StartWrite(g, c)
    OBVIOUS
  <2>3. c \in Call /\ c.dev = d
    BY DEF InFlight, TypeOK
  <2>4. w \in Write /\ w.op = "start" /\ w.game = g
    <3>1. Blank("start", g) \in Write /\ c.roster \cup {c.team} \in SUBSET TeamIDs
      BY <1>1, <2>3 DEF WriteOps, Call
    <3>. QED  BY <2>2, <3>1 DEF StartWrite, Write, Blank
  <2>5. Leaves(c, d, w)
    BY <2>1, <2>3, <2>4 DEF Leaves
  <2>. QED  BY <1>8, <2>1, <2>2, <2>4, <2>5
<1>15. ASSUME NEW d \in Devices, UNCHANGED <<server, queue, ud, sent>>, LoseCalls(d), ~Keeps(d)
       PROVE  OweInv'
  <2>1. /\ \A c \in calls \ calls' : c.dev = d
        /\ \A c \in calls' : c \in calls
    BY <1>15 DEF LoseCalls, InFlight
  <2>. QED  BY <1>15, <2>1, CallsOnlyOwes
<1>16. ASSUME NEW d \in Devices,
              OpenUnnamedListingTraps(d) \/ DeleteListingTraps(d) \/ Restart(d)
       PROVE  OweInv'
  <2>1. ~Keeps(d)
    BY <1>16, TrapFacts
  <2>. QED  BY <1>15, <1>16, <2>1 DEF OpenUnnamedListingTraps, DeleteListingTraps, Restart
<1>17. ASSUME NEW d \in Devices, NEW g \in Games, ReportClickTraps(d, g) PROVE OweInv'
  <2>1. ~Keeps(d)
    BY <1>17, TrapFacts
  <2>. QED  BY <1>15, <1>17, <2>1 DEF ReportClickTraps
<1>18. ASSUME NEW d \in Devices, DeleteListingClick(d) PROVE OweInv'
  <2>1. OweCall(Pend(d, "delete", NoGame, ud[d]))
    BY <1>18 DEF DeleteListingClick, OweCall, Pend
  <2>. QED  BY <1>18, <2>1, CallsOnlyOwes DEF DeleteListingClick
<1>19. ASSUME NEW d \in Devices, DeleteListing(d) PROVE OweInv'
  <2>1. PICK t \in TeamIDs :
          /\ \E g \in Games : Enqueue(d, Blank("withdraw", g))
          /\ calls' = calls \ {Pend(d, "delete", NoGame, t)}
          /\ UNCHANGED <<server, ud, sent>>
    BY <1>19 DEF DeleteListing, Listings
  <2>2. PICK g \in Games : Enqueue(d, Blank("withdraw", g))
    BY <2>1
  <2>3. PICK w : w = Blank("withdraw", g)
    OBVIOUS
  <2>4. w \in Write /\ w.op = "withdraw"
    BY <1>1, <2>3 DEF WriteOps
  <2>5. Leaves(Pend(d, "delete", NoGame, t), d, w)
    BY DEF Leaves, Pend
  <2>. QED  BY <1>8, <2>1, <2>2, <2>3, <2>4, <2>5
<1>20. ASSUME NEW d \in Devices, NEW g \in Games, ReportClick(d, g) PROVE OweInv'
  <2>1. \A win \in BOOLEAN : OweCall([Pend(d, "commit", g, NoTeam) EXCEPT !.homeWin = win])
    BY DEF OweCall, Pend
  <2>. QED  BY <1>20, <2>1, CallsOnlyOwes DEF ReportClick
<1>21. ASSUME NEW d \in Devices, NEW g \in Games, CommitResult(d, g) PROVE OweInv'
  <2>1. PICK c \in InFlight(d) :
          /\ c.kind = "commit" /\ c.game = g
          /\ Enqueue(d, [Blank("result", g) EXCEPT !.homeWin = c.homeWin,
                                                   !.guestWin = ~c.homeWin])
          /\ calls' = calls \ {c}
          /\ UNCHANGED <<server, ud, sent>>
    BY <1>21 DEF CommitResult
  <2>2. PICK w : w = [Blank("result", g) EXCEPT !.homeWin = c.homeWin, !.guestWin = ~c.homeWin]
    OBVIOUS
  <2>3. w \in Write
    <3>1. Blank("result", g) \in Write /\ c.homeWin \in BOOLEAN
      BY <1>1 DEF WriteOps, InFlight, TypeOK, Call
    <3>2. (~c.homeWin) \in BOOLEAN
      OBVIOUS
    <3>. QED  BY <2>2, <3>1, <3>2 DEF Write
  <2>4. w.op = "result" /\ Leaves(c, d, w)
    BY <2>1, <2>2 DEF Blank, Leaves
  <2>. QED  BY <1>8, <2>1, <2>2, <2>3, <2>4
<1>22. ASSUME NEW d \in Devices, TeamChange(d) PROVE OweInv'
  BY <1>22 DEF TeamChange
<1>. QED
  BY <1>2, <1>3, <1>4, <1>5, <1>7, <1>9, <1>10, <1>11, <1>12, <1>13, <1>14, <1>16,
     <1>17, <1>18, <1>19, <1>20, <1>21, <1>22
     DEF Next, DeviceStep, StreamStep, Callback, Click

LEMMA OweInvariance ==
  ASSUME MovableDevices = {}
  PROVE  Spec => []OweInv
<1>1. Init => OweInv
  <2>1. \A d \in Devices : Len(<<>>) = 0
    OBVIOUS
  <2>. QED  BY <2>1 DEF Init, OweInv, HalvesOwed, SeatOwesStart, PostOwesName, Absent, Posted
<1>. QED  BY <1>1, FairInvariance, InvNext, FairNext, OweNext, PTL DEF Spec

(* While no device changes team, whoever is seated on a listing is about to *)
(* start the game, and whoever posted a game is about to name it, if their  *)
(* team's devices are not killed and do not open the Listing screen: what   *)
(* SeatedStarts and PostedIsNamed rest on, besides fairness.                *)
THEOREM SecondHalvesOwed ==
  ASSUME MovableDevices = {}
  PROVE  Spec => []HalvesOwed
<1>1. OweInv => HalvesOwed
  BY DEF OweInv
<1>. QED  BY <1>1, OweInvariance, PTL

(* The write a callback is there for. *)
LeavesWrite(c) ==
  /\ c.kind = "posted" => Enqueue(c.dev, Blank("name", c.game))
  /\ c.kind = "guest"  => Enqueue(c.dev, StartWrite(c.game, c))
  /\ c.kind = "commit" => Enqueue(c.dev, [Blank("result", c.game) EXCEPT
                                            !.homeWin = c.homeWin, !.guestWin = ~c.homeWin])

NoHalfDropped == [][\A c \in calls \ calls' : Keeps(c.dev) => LeavesWrite(c)]_vars

LEMMA CallsGo ==
  ASSUME Inv, FairInv, OweInv, Next, NEW c \in calls \ calls', Keeps(c.dev)
  PROVE  LeavesWrite(c)
<1>. USE DEF Inv
<1>1. PICK d \in Devices :
        \/ DeviceStep(d)
        \/ \E g \in Games : Callback(d, g) \/ Click(d, g)
  BY DEF Next
<1>2. CASE StreamStep(d)
  BY <1>2, StreamSteps
<1>3. CASE LoseCalls(d) /\ ~Keeps(d)
  BY <1>3 DEF LoseCalls, InFlight
<1>4. CASE \/ OpenUnnamedListingTraps(d) \/ DeleteListingTraps(d) \/ Restart(d)
           \/ \E g \in Games : \/ NewGamePostedTraps(d, g) \/ JoinGameSeatsTraps(d, g)
                               \/ ReportClickTraps(d, g)
  <2>1. ~Keeps(d)
    BY <1>4, TrapFacts
  <2>2. LoseCalls(d)
    BY <1>4 DEF OpenUnnamedListingTraps, DeleteListingTraps, Restart, NewGamePostedTraps,
                JoinGameSeatsTraps, ReportClickTraps
  <2>. QED  BY <1>3, <2>1, <2>2
<1>5. CASE \/ DeleteListingClick(d) \/ TeamChange(d)
           \/ \E g \in Games : NewGame(d, g) \/ JoinGameClick(d, g) \/ ReportClick(d, g)
  BY <1>5 DEF DeleteListingClick, TeamChange, NewGame, JoinGameClick, ReportClick
<1>6. CASE DeleteListing(d)
  <2>1. c.kind = "delete"
    BY <1>6 DEF DeleteListing, Pend
  <2>. QED  BY <2>1 DEF LeavesWrite
<1>7. ASSUME NEW g \in Games,
             NewGameMembers(d, g) \/ CheckedHosting(d, g) \/ JoinGameSeats(d, g)
      PROVE  LeavesWrite(c)
  <2>1. \A k, t : Pend(d, k, g, t).kind = k
    BY DEF Pend
  <2>2. c.kind \in {"members", "hosting", "listing"}
    <3>1. CASE NewGameMembers(d, g)
      BY <2>1, <3>1 DEF NewGameMembers
    <3>2. CASE CheckedHosting(d, g)
      BY <2>1, <3>2 DEF CheckedHosting
    <3>3. CASE JoinGameSeats(d, g)
      BY <2>1, <3>3 DEF JoinGameSeats
    <3>. QED  BY <1>7, <3>1, <3>2, <3>3
  <2>. QED  BY <2>2 DEF LeavesWrite
<1>8. ASSUME NEW g \in Games, NewGamePosted(d, g) PROVE LeavesWrite(c)
  <2>1. c = Pend(d, "posted", g, NoTeam)
    BY <1>8 DEF NewGamePosted
  <2>2. c.dev = d /\ c.kind = "posted" /\ c.game = g
    BY <2>1 DEF Pend
  <2>. QED  BY <1>8, <2>2 DEF NewGamePosted, LeavesWrite
<1>9. ASSUME NEW g \in Games, JoinGameStarts(d, g) PROVE LeavesWrite(c)
  <2>1. /\ c \in InFlight(d) /\ c.kind = "guest" /\ c.game = g
        /\ Enqueue(d, StartWrite(g, c))
    BY <1>9 DEF JoinGameStarts
  <2>2. c.dev = d
    BY <2>1 DEF InFlight
  <2>. QED  BY <2>1, <2>2 DEF LeavesWrite
<1>10. ASSUME NEW g \in Games, CommitResult(d, g) PROVE LeavesWrite(c)
  <2>1. /\ c \in InFlight(d) /\ c.kind = "commit" /\ c.game = g
        /\ Enqueue(d, [Blank("result", g) EXCEPT !.homeWin = c.homeWin,
                                                 !.guestWin = ~c.homeWin])
    BY <1>10 DEF CommitResult
  <2>2. c.dev = d
    BY <2>1 DEF InFlight
  <2>. QED  BY <2>1, <2>2 DEF LeavesWrite
<1>. QED
  BY <1>1, <1>2, <1>4, <1>5, <1>6, <1>7, <1>8, <1>9, <1>10
     DEF DeviceStep, StreamStep, Callback, Click

(* Whoever clicks, traps or is killed elsewhere, on such a device no        *)
(* callback of newGame, joinGame or completeGame goes without the write it  *)
(* was there for joining the queue.                                         *)
THEOREM HalvesNotDropped ==
  ASSUME MovableDevices = {}
  PROVE  Spec => NoHalfDropped
<1>1. Inv /\ FairInv /\ OweInv /\ [Next]_vars =>
        [\A c \in calls \ calls' : Keeps(c.dev) => LeavesWrite(c)]_vars
  BY CallsGo
<1>. QED  BY <1>1, OweInvariance, FairInvariance, PTL DEF Spec, NoHalfDropped
=============================================================================
