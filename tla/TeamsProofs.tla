------------------------------ MODULE TeamsProofs ------------------------------
(***************************************************************************)
(* Theorems about Teams.tla, for any players, founders, codes, teams and   *)
(* streams that break: types, and that a phone which stores a team's id    *)
(* finds the team's document.  They rest on TeamsAssumption only; the      *)
(* bounds on what is under way may have any value.                         *)
(***************************************************************************)
EXTENDS Teams, Positions, SequenceTheorems, TLAPS

-----------------------------------------------------------------------------
(* The invariant *)

(* A team's document is on the server; or p knows the team: it is there, or *)
(* p founds it with a write that has not been acknowledged.                 *)
Exists(t) == t \in Teams /\ team[t].manager # NoPlayer

Creates(p, i, t) == queue[p][i].op = "create" /\ queue[p][i].team = t

Known(p, t) ==
  t = NoTeam \/ Exists(t) \/ \E i \in 1 .. Len(queue[p]) : Creates(p, i, t)

(* A phone only founds teams for its own player, and what the server has   *)
(* applied is there however often it comes again.  A player is only put    *)
(* into a team that will be there when the write arrives.                  *)
GoodWrite(p, i) ==
  LET w == queue[p][i]
  IN  /\ w.op = "create" => /\ w.player = p /\ w.team \in Teams
                            /\ i <= sent[p] => Exists(w.team)
      /\ w.op \in {"signup", "put"} =>
           w.team = NoTeam \/ Exists(w.team) \/ \E j \in 1 .. i - 1 : Creates(p, j, w.team)

Writes == \A p \in Players : \A i \in 1 .. Len(queue[p]) : GoodWrite(p, i)

Docs == \A q \in Players : teamOf[q] \in Teams => Exists(teamOf[q])

Ids == /\ \A p \in Players : Known(p, ud[p])
       /\ \A c \in calls : Known(c.phone, c.team)

Inv == TypeOK /\ Writes /\ Docs /\ Ids

-----------------------------------------------------------------------------
(* Queues *)

LEMMA QueueTypes ==
  ASSUME TypeOK, NEW p \in Players
  PROVE  /\ queue[p] \in Seq(Write) /\ Len(queue[p]) \in Nat
         /\ DOMAIN queue[p] = 1 .. Len(queue[p])
         /\ sent[p] \in Nat /\ sent[p] <= Len(queue[p])
         /\ \A i \in 1 .. Len(queue[p]) : queue[p][i] \in Write
<1>1. queue[p] \in Seq(Write) /\ sent[p] \in Nat /\ sent[p] <= Len(queue[p])
  BY DEF TypeOK
<1>2. Len(queue[p]) \in Nat /\ DOMAIN queue[p] = 1 .. Len(queue[p])
  BY <1>1, LenProperties
<1>3. \A i \in 1 .. Len(queue[p]) : queue[p][i] \in Write
  BY <1>1, ElementOfSeq
<1> QED
  BY <1>1, <1>2, <1>3

LEMMA WriteTypes ==
  ASSUME NEW w \in Write
  PROVE  /\ w.op \in {"signup", "create", "name", "put", "list", "unlist"}
         /\ w.player \in Players /\ w.team \in TeamIDs
  BY DEF Write

LEMMA WTypes ==
  ASSUME NEW op \in {"signup", "create", "name", "put", "list", "unlist"},
         NEW q \in Players, NEW t \in TeamIDs
  PROVE  /\ W(op, q, t) \in Write
         /\ W(op, q, t).op = op /\ W(op, q, t).player = q /\ W(op, q, t).team = t
  BY DEF W, Write

(* The latest of some pending writes is one of them. *)
LEMMA LatestIsOne ==
  ASSUME TypeOK, NEW p \in Players, NEW S, S \subseteq 1 .. Len(queue[p]), S # {}
  PROVE  \E i \in S : Latest(p, S) = queue[p][i]
<1>1. Len(queue[p]) \in Nat
  BY QueueTypes
<1>2. \E i \in S : \A j \in S : j <= i
  BY <1>1, LastPlace
<1> QED
  BY <1>2 DEF Latest

LEMMA PendingPlaces ==
  ASSUME TypeOK, NEW p \in Players, NEW ops, NEW q, NEW ts
  PROVE  Pending(p, ops, q, ts) \subseteq 1 .. Len(queue[p])
  BY QueueTypes DEF Pending

(* What p sees as q's team is a team id, or that q has no document; and a  *)
(* team p knows.                                                           *)
LEMMA SeenTeamType ==
  ASSUME TypeOK, NEW p \in Players, NEW q \in Players
  PROVE  SeenTeam(p, q) \in TeamIDs \cup {Missing}
<1> DEFINE own == Pending(p, {"signup", "put"}, q, TeamIDs)
<1>1. CASE own = {}
  BY <1>1 DEF SeenTeam, TypeOK
<1>2. CASE own # {}
  <2>1. PICK i \in own : Latest(p, own) = queue[p][i]
    BY <1>2, PendingPlaces, LatestIsOne
  <2>2. queue[p][i].team \in TeamIDs
    BY <2>1, PendingPlaces, QueueTypes, WriteTypes
  <2> QED
    BY <1>2, <2>1, <2>2 DEF SeenTeam
<1> QED
  BY <1>1, <1>2

LEMMA SeenTeamKnown ==
  ASSUME Inv, NEW p \in Players, NEW q \in Players, SeenTeam(p, q) # Missing
  PROVE  SeenTeam(p, q) \in TeamIDs /\ Known(p, SeenTeam(p, q))
<1> DEFINE own == Pending(p, {"signup", "put"}, q, TeamIDs)
<1> USE DEF Inv
<1>1. SeenTeam(p, q) \in TeamIDs
  BY SeenTeamType
<1>2. CASE own = {}
  BY <1>1, <1>2 DEF SeenTeam, Docs, Known, TeamIDs
<1>3. CASE own # {}
  <2>1. PICK i \in own : Latest(p, own) = queue[p][i]
    BY <1>3, PendingPlaces, LatestIsOne
  <2>2. i \in 1 .. Len(queue[p]) /\ queue[p][i].op \in {"signup", "put"}
    BY <2>1, PendingPlaces DEF Pending
  <2>3. GoodWrite(p, i)
    BY <2>2 DEF Writes
  <2>4. \A j \in 1 .. i - 1 : j \in 1 .. Len(queue[p])
    BY <2>2, QueueTypes
  <2>5. Known(p, queue[p][i].team)
    BY <2>2, <2>3, <2>4 DEF GoodWrite, Known
  <2> QED
    BY <1>1, <1>3, <2>1, <2>5 DEF SeenTeam
<1> QED
  BY <1>2, <1>3

-----------------------------------------------------------------------------
(* Adding writes to a queue *)

(* Writes p may add: it founds for itself, and names teams it knows. *)
Addable(p, ws) ==
  \A i \in 1 .. Len(ws) :
    /\ ws[i].op = "create" => ws[i].player = p /\ ws[i].team \in Teams
    /\ ws[i].op \in {"signup", "put"} =>
         \/ Known(p, ws[i].team)
         \/ \E j \in 1 .. i - 1 : ws[j].op = "create" /\ ws[j].team = ws[i].team

LEMMA EnqueueShape ==
  ASSUME TypeOK, NEW p \in Players, NEW ws \in Seq(Write), Enqueue(p, ws)
  PROVE  /\ queue' \in [Players -> Seq(Write)]
         /\ \A e \in Players : e # p => queue'[e] = queue[e]
         /\ Len(queue'[p]) = Len(queue[p]) + Len(ws) /\ Len(ws) \in Nat
         /\ \A i \in 1 .. Len(queue[p]) : queue'[p][i] = queue[p][i]
         /\ \A i \in 1 .. Len(ws) : queue'[p][Len(queue[p]) + i] = ws[i]
<1>1. queue[p] \in Seq(Write) /\ queue \in [Players -> Seq(Write)]
  BY DEF TypeOK
<1>2. queue[p] \o ws \in Seq(Write) /\ Len(queue[p] \o ws) = Len(queue[p]) + Len(ws)
  BY <1>1, ConcatProperties
<1>3. Len(queue[p]) \in Nat /\ Len(ws) \in Nat
  BY <1>1, LenProperties
<1>4. \A i \in 1 .. Len(queue[p]) + Len(ws) :
        (queue[p] \o ws)[i] = IF i <= Len(queue[p]) THEN queue[p][i] ELSE ws[i - Len(queue[p])]
  BY <1>1, ConcatProperties
<1>5. queue' = [queue EXCEPT ![p] = queue[p] \o ws]
  BY DEF Enqueue
<1>6. queue'[p] = queue[p] \o ws
  BY <1>1, <1>5
<1>7. \A i \in 1 .. Len(queue[p]) : queue'[p][i] = queue[p][i]
  BY <1>3, <1>4, <1>6
<1>8. ASSUME NEW i \in 1 .. Len(ws) PROVE queue'[p][Len(queue[p]) + i] = ws[i]
  <2>1. Len(queue[p]) + i \in 1 .. Len(queue[p]) + Len(ws)
        /\ ~(Len(queue[p]) + i <= Len(queue[p])) /\ (Len(queue[p]) + i) - Len(queue[p]) = i
    BY <1>3
  <2> QED
    BY <1>4, <1>6, <2>1
<1> QED
  BY <1>1, <1>2, <1>3, <1>5, <1>6, <1>7, <1>8

(* A step that leaves the server alone and adds good writes at most keeps  *)
(* all but what is stored and asked for, and nothing known is forgotten.   *)
Remembered == \A p \in Players : \A t : Known(p, t) => Known(p, t)'

LEMMA EnqueueKeeps ==
  ASSUME Inv, NEW p \in Players, NEW ws \in Seq(Write), Enqueue(p, ws), Addable(p, ws),
         UNCHANGED <<sent, teamOf, team>>
  PROVE  /\ Writes' /\ Docs' /\ Remembered
         /\ queue' \in [Players -> Seq(Write)]
         /\ \A e \in Players : sent'[e] <= Len(queue'[e])
<1> DEFINE n == Len(queue[p])
<1>1. TypeOK /\ Writes /\ Docs
  BY DEF Inv
<1>2. /\ queue' \in [Players -> Seq(Write)]
      /\ \A e \in Players : e # p => queue'[e] = queue[e]
      /\ Len(queue'[p]) = n + Len(ws) /\ Len(ws) \in Nat /\ n \in Nat
      /\ \A i \in 1 .. n : queue'[p][i] = queue[p][i]
      /\ \A i \in 1 .. Len(ws) : queue'[p][n + i] = ws[i]
  BY <1>1, EnqueueShape, QueueTypes
<1>3. \A t : Exists(t) <=> Exists(t)'
  BY DEF Exists
<1>4. Docs'
  BY <1>1, <1>3 DEF Docs
<1>5. ASSUME NEW e \in Players, NEW t, Known(e, t) PROVE Known(e, t)'
  <2>1. CASE e # p
    BY <2>1, <1>2, <1>3, <1>5 DEF Known, Creates
  <2>2. CASE e = p
    <3>1. \A i \in 1 .. n : i \in 1 .. Len(queue'[p])
      BY <1>2
    <3> QED
      BY <2>2, <3>1, <1>2, <1>3, <1>5 DEF Known, Creates
  <2> QED
    BY <2>1, <2>2
<1>6. ASSUME NEW e \in Players, NEW i \in 1 .. Len(queue'[e]) PROVE GoodWrite(e, i)'
  <2>1. CASE e # p
    <3>1. queue'[e] = queue[e] /\ i \in 1 .. Len(queue[e]) /\ GoodWrite(e, i)
      BY <1>1, <1>2, <1>6, <2>1 DEF Writes
    <3> QED
      BY <3>1 DEF GoodWrite, Creates, Exists
  <2>2. CASE e = p /\ i <= n
    <3>1. i \in 1 .. n /\ GoodWrite(p, i) /\ queue'[p][i] = queue[p][i]
      BY <1>1, <1>2, <2>2 DEF Writes
    <3>2. \A j \in 1 .. i - 1 : queue'[p][j] = queue[p][j]
      BY <1>2, <3>1
    <3> QED
      BY <2>2, <3>1, <3>2, <1>3 DEF GoodWrite, Creates
  <2>3. CASE e = p /\ i > n
    <3>0. i - n \in 1 .. Len(ws) /\ i = n + (i - n) /\ i \in Nat
      BY <1>2, <2>3
    <3>1. PICK k \in 1 .. Len(ws) : i = n + k /\ i \in Nat
      BY <3>0
    <3> DEFINE w == ws[k]
    <3>2. queue'[p][i] = w
      BY <1>2, <3>1
    <3> HIDE DEF w
    <3>3. ~(i <= sent[p])
      BY <1>1, <1>2, <2>3, <3>1, QueueTypes
    <3>4. ASSUME w.op \in {"signup", "put"}
          PROVE  \/ w.team = NoTeam \/ Exists(w.team)'
                 \/ \E j \in 1 .. i - 1 : Creates(p, j, w.team)'
      <4>1. CASE Known(p, w.team)
        <5>1. \A j \in 1 .. n : j \in 1 .. i - 1 /\ queue'[p][j] = queue[p][j]
          BY <1>2, <2>3, <3>1
        <5> QED
          BY <4>1, <5>1, <1>3 DEF Known, Creates
      <4>2. ASSUME NEW j \in 1 .. k - 1, ws[j].op = "create", ws[j].team = w.team
            PROVE  \E m \in 1 .. i - 1 : Creates(p, m, w.team)'
        <5>0. n + j \in 1 .. i - 1 /\ j \in 1 .. Len(ws)
          BY <1>2, <3>1
        <5>1. PICK m \in 1 .. i - 1 : m = n + j /\ j \in 1 .. Len(ws)
          BY <5>0
        <5>2. queue'[p][m] = ws[j]
          BY <1>2, <5>1
        <5> QED
          BY <4>2, <5>1, <5>2 DEF Creates
      <4> QED
        BY <3>1, <3>4, <4>1, <4>2 DEF Addable, w
    <3>5. w.op = "create" => w.player = p /\ w.team \in Teams
      BY <3>1 DEF Addable, w
    <3> QED
      BY <2>3, <3>2, <3>3, <3>4, <3>5 DEF GoodWrite
  <2> QED
    BY <1>2, <2>1, <2>2, <2>3
<1>7. \A e \in Players : sent'[e] <= Len(queue'[e])
  <2>1. TAKE e \in Players
  <2>2. sent'[e] = sent[e] /\ sent[e] <= Len(queue[e]) /\ sent[e] \in Nat
    BY <1>1, QueueTypes
  <2>3. CASE e = p
    BY <1>2, <2>2, <2>3
  <2>4. CASE e # p
    BY <1>2, <2>2, <2>4
  <2> QED
    BY <2>3, <2>4
<1> QED
  BY <1>2, <1>4, <1>5, <1>6, <1>7 DEF Writes, Remembered

LEMMA StillKeeps ==
  ASSUME Inv, UNCHANGED <<queue, sent, teamOf, team>>
  PROVE  Writes' /\ Docs' /\ Remembered
<1>1. \A t : Exists(t) <=> Exists(t)'
  BY DEF Exists
<1> QED
  BY <1>1 DEF Inv, Writes, GoodWrite, Creates, Docs, Known, Remembered

-----------------------------------------------------------------------------
(* The wire *)

(* The write in place k arrives, all before it having arrived. *)
LEMMA ArriveKeeps ==
  ASSUME Inv, NEW p \in Players, NEW k \in 1 .. Len(queue[p]), k = sent[p] + 1,
         Arrive(queue[p][k])
  PROVE  /\ teamOf' \in [Players -> TeamIDs \cup {Missing}]
         /\ team' \in [Teams -> TeamDoc]
         /\ \A t : Exists(t) => Exists(t)'
         /\ \A t : Creates(p, k, t) => Exists(t)'
         /\ Docs'
<1> DEFINE w == queue[p][k]
<1>1. TypeOK /\ Writes /\ Docs
  BY DEF Inv
<1>2. w \in Write /\ GoodWrite(p, k) /\ sent[p] \in Nat
  BY <1>1, QueueTypes DEF Writes
<1>3. /\ w.op \in {"signup", "create", "name", "put", "list", "unlist"}
      /\ w.player \in Players /\ w.team \in TeamIDs
  BY <1>2, WriteTypes
<1>4. /\ teamOf' = [teamOf EXCEPT ![w.player] = TeamAfter(@, w)]
      /\ team'   = [t \in Teams |-> IF t = w.team THEN Applied(team[t], w) ELSE team[t]]
  BY DEF Arrive
<1> HIDE DEF w
<1>5. NoPlayer \notin Players
  BY TeamsAssumption
<1>6. ASSUME NEW doc \in TeamDoc
      PROVE  /\ Applied(doc, w) \in TeamDoc
             /\ doc.manager # NoPlayer => Applied(doc, w).manager # NoPlayer
             /\ w.op = "create" => Applied(doc, w).manager # NoPlayer
  BY <1>3, <1>5 DEF Applied, TeamDoc
<1>7. team' \in [Teams -> TeamDoc]
  BY <1>1, <1>4, <1>6 DEF TypeOK
<1>8. ASSUME NEW t, Exists(t) PROVE Exists(t)'
  <2>1. t \in Teams /\ team[t] \in TeamDoc /\ team[t].manager # NoPlayer
    BY <1>1, <1>8 DEF Exists, TypeOK
  <2>2. team'[t] \in {team[t], Applied(team[t], w)}
    BY <1>4, <2>1
  <2> QED
    BY <1>6, <2>1, <2>2 DEF Exists
<1>9. ASSUME NEW t, Creates(p, k, t) PROVE Exists(t)'
  <2>1. w.op = "create" /\ w.team = t /\ t \in Teams
    BY <1>2, <1>9 DEF Creates, GoodWrite, w
  <2>2. team'[t] = Applied(team[t], w) /\ team[t] \in TeamDoc
    BY <1>1, <1>4, <2>1 DEF TypeOK
  <2> QED
    BY <1>6, <2>1, <2>2 DEF Exists
<1>10. teamOf' \in [Players -> TeamIDs \cup {Missing}]
  BY <1>1, <1>3, <1>4 DEF TypeOK, TeamAfter
<1>11. ASSUME w.op \in {"signup", "put"} PROVE w.team = NoTeam \/ Exists(w.team)
  <2>1. CASE \E j \in 1 .. k - 1 : Creates(p, j, w.team)
    <3>1. PICK j \in 1 .. k - 1 : Creates(p, j, w.team)
      BY <2>1
    <3>2. j \in 1 .. Len(queue[p]) /\ j <= sent[p]
      BY <1>1, <1>2, <3>1, QueueTypes
    <3>3. GoodWrite(p, j)
      BY <1>1, <3>2 DEF Writes
    <3> QED
      BY <3>1, <3>2, <3>3 DEF GoodWrite, Creates
  <2> QED
    BY <1>2, <1>11, <2>1 DEF GoodWrite, w
<1>12. ASSUME NEW q \in Players, NEW t \in Teams, teamOf'[q] = t PROVE Exists(t)'
  <2>1. CASE teamOf[q] = t
    BY <1>1, <1>8, <2>1 DEF Docs
  <2>2. CASE teamOf[q] # t
    <3>1. t = w.team /\ w.op \in {"signup", "put"}
      BY <1>1, <1>3, <1>4, <1>12, <2>2 DEF TypeOK, TeamAfter
    <3>2. NoTeam \notin Teams
      BY TeamsAssumption
    <3> QED
      BY <1>8, <1>11, <3>1, <3>2
  <2> QED
    BY <2>1, <2>2
<1>13. Docs'
  BY <1>12 DEF Docs, Exists
<1> QED
  BY <1>7, <1>8, <1>9, <1>10, <1>13

(* The oldest write leaves the queue after it has arrived. *)
LEMMA TailKeeps ==
  ASSUME Inv, NEW p \in Players, queue[p] # <<>>,
         queue' = [queue EXCEPT ![p] = Tail(@)],
         \A t : Exists(t) => Exists(t)',
         \A t : Creates(p, 1, t) => Exists(t)',
         \A e \in Players : e # p => sent'[e] = sent[e],
         sent'[p] = 0 \/ sent'[p] = sent[p] - 1
  PROVE  /\ Writes' /\ Remembered
         /\ queue' \in [Players -> Seq(Write)]
         /\ Len(queue'[p]) = Len(queue[p]) - 1
<1>1. TypeOK /\ Writes
  BY DEF Inv
<1>2. queue[p] \in Seq(Write) /\ queue \in [Players -> Seq(Write)] /\ Len(queue[p]) \in Nat
      /\ sent[p] \in Nat
  BY <1>1, QueueTypes DEF TypeOK
<1>3. /\ Tail(queue[p]) \in Seq(Write) /\ Len(Tail(queue[p])) = Len(queue[p]) - 1
      /\ \A i \in 1 .. Len(Tail(queue[p])) : Tail(queue[p])[i] = queue[p][i + 1]
      /\ Len(queue[p]) >= 1
  BY <1>2, HeadTailProperties, EmptySeq
<1>4. /\ queue' \in [Players -> Seq(Write)]
      /\ \A e \in Players : e # p => queue'[e] = queue[e]
      /\ Len(queue'[p]) = Len(queue[p]) - 1
      /\ \A i \in 1 .. Len(queue'[p]) : queue'[p][i] = queue[p][i + 1]
  BY <1>2, <1>3
<1>5. ASSUME NEW m \in Nat, m <= Len(queue'[p]), NEW t, NEW i \in 1 .. m + 1, Creates(p, i, t)
      PROVE  Exists(t)' \/ \E j \in 1 .. m : Creates(p, j, t)'
  <2>1. CASE i = 1
    BY <1>5, <2>1 DEF Creates
  <2>2. CASE i # 1
    <3>1. i - 1 \in 1 .. m /\ i - 1 \in 1 .. Len(queue'[p]) /\ (i - 1) + 1 = i
      BY <1>2, <1>4, <1>5, <2>2
    <3>2. queue'[p][i - 1] = queue[p][i]
      BY <1>4, <3>1
    <3> QED
      BY <1>5, <3>1, <3>2 DEF Creates
  <2> QED
    BY <2>1, <2>2
<1>6. ASSUME NEW e \in Players, NEW t, Known(e, t) PROVE Known(e, t)'
  <2>1. CASE e # p
    BY <2>1, <1>4, <1>6 DEF Known, Creates
  <2>2. CASE e = p
    <3>1. Len(queue'[p]) \in Nat /\ Len(queue'[p]) + 1 = Len(queue[p])
      BY <1>2, <1>3, <1>4
    <3>2. PICK m \in Nat : m = Len(queue'[p])
      BY <3>1
    <3>3. (\E i \in 1 .. m + 1 : Creates(p, i, t)) =>
            Exists(t)' \/ \E j \in 1 .. m : Creates(p, j, t)'
      BY <1>5, <3>2
    <3>4. t = NoTeam \/ Exists(t) \/ \E i \in 1 .. m + 1 : Creates(p, i, t)
      BY <1>6, <2>2, <3>1, <3>2 DEF Known
    <3> QED
      BY <2>2, <3>2, <3>3, <3>4 DEF Known
  <2> QED
    BY <2>1, <2>2
<1>7. ASSUME NEW e \in Players, NEW i \in 1 .. Len(queue'[e]) PROVE GoodWrite(e, i)'
  <2>1. CASE e # p
    BY <1>1, <1>4, <2>1 DEF Writes, GoodWrite, Creates
  <2>2. CASE e = p
    <3>1. i \in 1 .. Len(queue'[p]) /\ i + 1 \in 1 .. Len(queue[p]) /\ i \in Nat
      BY <1>2, <1>3, <1>4, <2>2
    <3>2. queue'[p][i] = queue[p][i + 1] /\ GoodWrite(p, i + 1)
      BY <1>1, <1>4, <3>1 DEF Writes
    <3>3. i <= sent'[p] => i + 1 <= sent[p]
      BY <1>2, <3>1
    <3>4. i - 1 \in Nat /\ i - 1 <= Len(queue'[p]) /\ (i - 1) + 1 = (i + 1) - 1
      BY <1>2, <1>4, <3>1
    <3>5. \A t : (\E j \in 1 .. (i + 1) - 1 : Creates(p, j, t)) =>
                   Exists(t)' \/ \E j \in 1 .. i - 1 : Creates(p, j, t)'
      BY <1>5, <3>4
    <3> QED
      BY <2>2, <3>2, <3>3, <3>5 DEF GoodWrite
  <2> QED
    BY <2>1, <2>2
<1> QED
  BY <1>4, <1>6, <1>7 DEF Writes, Remembered

LEMMA WireKeeps ==
  ASSUME Inv, NEW p \in Players, Deliver(p) \/ Reach(p) \/ Acknowledge(p) \/ Reconnect(p)
  PROVE  Inv'
<1>1. TypeOK /\ Writes /\ Docs /\ Ids
  BY DEF Inv
<1>2. /\ queue[p] \in Seq(Write) /\ Len(queue[p]) \in Nat
      /\ sent[p] \in Nat /\ sent[p] <= Len(queue[p])
      /\ queue \in [Players -> Seq(Write)] /\ sent \in [Players -> Nat]
      /\ \A e \in Players : sent[e] <= Len(queue[e])
  BY <1>1, QueueTypes DEF TypeOK
<1>3. UNCHANGED <<calls, ud, screen>>
  BY DEF Deliver, Reach, Acknowledge, Reconnect
<1>4. Remembered => Ids'
  BY <1>1, <1>3 DEF Ids, Remembered, TypeOK, Call
<1>5. CASE Deliver(p)
  <2>1. /\ sent[p] = 0 /\ queue[p] # <<>> /\ Arrive(queue[p][1])
        /\ queue' = [queue EXCEPT ![p] = Tail(@)] /\ sent' = sent
        /\ 1 \in 1 .. Len(queue[p])
    BY <1>2, <1>5, HeadTailProperties, EmptySeq DEF Deliver
  <2>2. /\ teamOf' \in [Players -> TeamIDs \cup {Missing}] /\ team' \in [Teams -> TeamDoc]
        /\ \A t : Exists(t) => Exists(t)'
        /\ \A t : Creates(p, 1, t) => Exists(t)'
        /\ Docs'
    BY <1>2, <2>1, ArriveKeeps
  <2>3. /\ Writes' /\ Remembered /\ queue' \in [Players -> Seq(Write)]
        /\ Len(queue'[p]) = Len(queue[p]) - 1
    BY <2>1, <2>2, TailKeeps
  <2>4. \A e \in Players : sent'[e] <= Len(queue'[e])
    BY <1>2, <2>1, <2>3
  <2> QED
    BY <1>1, <1>2, <1>3, <1>4, <2>1, <2>2, <2>3, <2>4 DEF Inv, TypeOK
<1>6. CASE Reach(p)
  <2>0. PICK k \in 1 .. Len(queue[p]) : k = sent[p] + 1
    BY <1>2, <1>6 DEF Reach
  <2>1. /\ k \in 1 .. Len(queue[p]) /\ Arrive(queue[p][k])
        /\ queue' = queue /\ sent' = [sent EXCEPT ![p] = @ + 1]
    BY <2>0, <1>6 DEF Reach
  <2>2. /\ teamOf' \in [Players -> TeamIDs \cup {Missing}] /\ team' \in [Teams -> TeamDoc]
        /\ \A t : Exists(t) => Exists(t)'
        /\ \A t : Creates(p, k, t) => Exists(t)'
        /\ Docs'
    BY <2>0, <2>1, ArriveKeeps
  <2>3. sent' \in [Players -> Nat] /\ sent'[p] = k /\ \A e \in Players : e # p => sent'[e] = sent[e]
    BY <1>2, <2>0, <2>1
  <2>4. \A e \in Players : sent'[e] <= Len(queue'[e])
    BY <1>2, <2>1, <2>3
  <2>5. Remembered
    BY <2>1, <2>2 DEF Remembered, Known, Creates
  <2>6. ASSUME NEW e \in Players, NEW i \in 1 .. Len(queue'[e]) PROVE GoodWrite(e, i)'
    <3>1. i \in 1 .. Len(queue[e]) /\ GoodWrite(e, i) /\ queue'[e] = queue[e]
      BY <1>1, <2>1, <2>6 DEF Writes
    <3>2. i <= sent'[e] => i <= sent[e] \/ (e = p /\ i = k)
      BY <1>2, <2>0, <2>3, <3>1
    <3> QED
      BY <2>2, <3>1, <3>2 DEF GoodWrite, Creates
  <2> QED
    BY <1>1, <1>2, <1>3, <1>4, <2>1, <2>2, <2>3, <2>4, <2>5, <2>6 DEF Inv, TypeOK, Writes
<1>7. CASE Acknowledge(p)
  <2>1. /\ sent[p] > 0 /\ queue' = [queue EXCEPT ![p] = Tail(@)]
        /\ sent' = [sent EXCEPT ![p] = @ - 1] /\ UNCHANGED <<teamOf, team>>
    BY <1>7 DEF Acknowledge
  <2>2. queue[p] # <<>> /\ 1 \in 1 .. Len(queue[p])
    BY <1>2, <2>1, EmptySeq
  <2>3. \A t : Exists(t) <=> Exists(t)'
    BY <2>1 DEF Exists
  <2>4. \A t : Creates(p, 1, t) => Exists(t)'
    BY <1>1, <1>2, <2>1, <2>2, <2>3 DEF Writes, GoodWrite, Creates
  <2>5. /\ sent' \in [Players -> Nat] /\ sent'[p] = sent[p] - 1
        /\ \A e \in Players : e # p => sent'[e] = sent[e]
    BY <1>2, <2>1
  <2>6. /\ Writes' /\ Remembered /\ queue' \in [Players -> Seq(Write)]
        /\ Len(queue'[p]) = Len(queue[p]) - 1
    BY <2>1, <2>2, <2>3, <2>4, <2>5, TailKeeps
  <2>7. Docs'
    BY <1>1, <2>1, <2>3 DEF Docs
  <2>8. \A e \in Players : sent'[e] <= Len(queue'[e])
    BY <1>2, <2>1, <2>5, <2>6
  <2> QED
    BY <1>1, <1>2, <1>3, <1>4, <2>1, <2>5, <2>6, <2>7, <2>8 DEF Inv, TypeOK
<1>8. CASE Reconnect(p)
  <2>1. /\ queue' = queue /\ sent' = [sent EXCEPT ![p] = 0] /\ UNCHANGED <<teamOf, team>>
    BY <1>8 DEF Reconnect
  <2>2. /\ sent' \in [Players -> Nat] /\ \A e \in Players : sent'[e] <= sent[e]
        /\ \A e \in Players : sent'[e] <= Len(queue'[e])
    BY <1>2, <2>1
  <2>3. \A t : Exists(t) <=> Exists(t)'
    BY <2>1 DEF Exists
  <2>4. Remembered /\ Docs'
    BY <1>1, <2>1, <2>3 DEF Remembered, Known, Creates, Docs
  <2>5. ASSUME NEW e \in Players, NEW i \in 1 .. Len(queue'[e]) PROVE GoodWrite(e, i)'
    <3>1. i \in 1 .. Len(queue[e]) /\ GoodWrite(e, i)
      BY <1>1, <2>1, <2>5 DEF Writes
    <3>2. i <= sent'[e] => i <= sent[e]
      BY <1>2, <2>2, <3>1
    <3> QED
      BY <2>1, <2>3, <3>1, <3>2 DEF GoodWrite, Creates
  <2> QED
    BY <1>1, <1>2, <1>3, <1>4, <2>1, <2>2, <2>4, <2>5 DEF Inv, TypeOK, Writes
<1> QED
  BY <1>5, <1>6, <1>7, <1>8

-----------------------------------------------------------------------------
(* The steps of a phone *)

LEMMA PendTypes ==
  ASSUME NEW p \in Players, NEW kind \in CallKinds, NEW t \in TeamIDs, NEW q \in Players
  PROVE  /\ Pend(p, kind, t, q) \in Call
         /\ Pend(p, kind, t, q).phone = p /\ Pend(p, kind, t, q).team = t
  BY DEF Pend, Call

LEMMA CallTypes ==
  ASSUME Inv, NEW p \in Players, NEW kinds, NEW c \in OnPhone(p, kinds)
  PROVE  /\ c \in calls /\ c.phone = p /\ c.team \in TeamIDs /\ c.player \in Players
         /\ Known(p, c.team)
  BY DEF Inv, TypeOK, Ids, OnPhone, Call

(* A step of a phone: the server is left alone, and what it newly stores   *)
(* or asks for is known to it.                                             *)
LEMMA LocalKeeps ==
  ASSUME Inv, Writes', Docs', Remembered,
         queue' \in [Players -> Seq(Write)], \A e \in Players : sent'[e] <= Len(queue'[e]),
         UNCHANGED <<sent, teamOf, team>>,
         screen' \in [Players -> Screens],
         NEW p \in Players, NEW t \in TeamIDs, ud' = ud \/ ud' = [ud EXCEPT ![p] = t],
         ud' # ud => Known(p, t)',
         \A c \in calls' : c \in calls \/ (c \in Call /\ c.phone = p /\ Known(p, c.team)')
  PROVE  Inv'
<1>1. TypeOK /\ Ids
  BY DEF Inv
<1>2. ud' \in [Players -> TeamIDs] /\ calls' \subseteq Call
  BY <1>1 DEF TypeOK
<1>3. TypeOK'
  BY <1>1, <1>2 DEF TypeOK
<1>4. ASSUME NEW e \in Players, NEW u, u = ud'[e] PROVE Known(e, u)'
  <2>1. CASE u = ud[e]
    BY <1>1, <2>1 DEF Ids, Remembered
  <2>2. CASE u # ud[e]
    BY <1>1, <1>4, <2>2 DEF TypeOK
  <2> QED
    BY <2>1, <2>2
<1>5. ASSUME NEW c \in calls' PROVE Known(c.phone, c.team)'
  <2>1. CASE c \in calls
    BY <1>1, <2>1 DEF Ids, Remembered, TypeOK, Call
  <2> QED
    BY <2>1
<1>6. \A e \in Players : Known(e, ud[e])'
  BY <1>4 DEF Known, Creates, Exists
<1> QED
  BY <1>3, <1>5, <1>6 DEF Inv, Ids

(* The same when the queue is left alone as well. *)
LEMMA StillStep ==
  ASSUME Inv, UNCHANGED <<queue, sent, teamOf, team>>,
         screen' \in [Players -> Screens],
         NEW p \in Players, NEW t \in TeamIDs, ud' = ud \/ ud' = [ud EXCEPT ![p] = t],
         ud' # ud => Known(p, t),
         \A c \in calls' : c \in calls \/ (c \in Call /\ c.phone = p /\ Known(p, c.team))
  PROVE  Inv'
<1>1. Writes' /\ Docs' /\ Remembered
  BY StillKeeps
<1>2. queue' \in [Players -> Seq(Write)] /\ \A e \in Players : sent'[e] <= Len(queue'[e])
  BY DEF Inv, TypeOK
<1>3. ud' # ud => Known(p, t)'
  BY <1>1 DEF Remembered
<1>4. \A c \in calls' : c \in calls \/ (c \in Call /\ c.phone = p /\ Known(p, c.team)')
  BY <1>1 DEF Remembered
<1> QED
  BY <1>1, <1>2, <1>3, <1>4, LocalKeeps

LEMMA NoTeamKnown == \A p : Known(p, NoTeam) /\ Known(p, NoTeam)'
  BY DEF Known

LEMMA RestartShape ==
  ASSUME Inv, NEW p \in Players, Restart(p)
  PROVE  /\ screen' \in [Players -> Screens]
         /\ \A c \in calls' : c \in calls \/ (c \in Call /\ c.phone = p /\ c.team = NoTeam)
<1>1. NoTeam \in TeamIDs /\ "store" \in CallKinds
  BY DEF TeamIDs, CallKinds
<1> QED
  BY <1>1, PendTypes DEF Inv, TypeOK, Restart, Screens, OnPhone

LEMMA RestartKeeps ==
  ASSUME Inv, NEW p \in Players, Restart(p), UNCHANGED <<queue, sent, teamOf, team, ud>>
  PROVE  Inv'
<1>1. NoTeam \in TeamIDs
  BY DEF TeamIDs
<1> QED
  BY <1>1, RestartShape, NoTeamKnown, StillStep

LEMMA StillSteps ==
  ASSUME Inv, NEW p \in Players,
         \/ StoreTeam(p) \/ Relaunch(p) \/ OpenTab(p) \/ HearInvited(p) \/ ShowTeam(p)
         \/ ShowTraps(p) \/ HearRemoved(p) \/ (\E q \in Players : AddClick(p, q))
         \/ ClickTraps(p) \/ AddAllowed(p) \/ AddRefused(p)
         \/ (\E q \in Players : RemoveClick(p, q)) \/ RemoveRefused(p)
  PROVE  Inv'
<1>1. /\ screen \in [Players -> Screens] /\ NoTeam \in TeamIDs /\ ud[p] \in TeamIDs
      /\ {"new", "home", "none", "team"} \subseteq Screens
      /\ {"add", "query", "remove", "show", "store"} \subseteq CallKinds
      /\ Known(p, ud[p]) /\ Known(p, NoTeam)
  BY NoTeamKnown DEF Inv, TypeOK, TeamIDs, Screens, CallKinds, Ids
<1>2. CASE StoreTeam(p)
  <2>1. PICK c \in OnPhone(p, {"store"}) :
          /\ ud' = [ud EXCEPT ![p] = IF SeenTeam(p, p) = Missing THEN @ ELSE SeenTeam(p, p)]
          /\ calls' = calls \ {c} /\ UNCHANGED <<sent, teamOf, team, queue, screen>>
    BY <1>2 DEF StoreTeam
  <2>2. PICK t : t = IF SeenTeam(p, p) = Missing THEN ud[p] ELSE SeenTeam(p, p)
    OBVIOUS
  <2>3. t \in TeamIDs /\ Known(p, t)
    BY <1>1, <2>2, SeenTeamKnown
  <2>4. ud' = [ud EXCEPT ![p] = t]
    BY <2>1, <2>2
  <2> QED
    BY <1>1, <2>1, <2>3, <2>4, StillStep
<1>3. CASE Relaunch(p) \/ ShowTraps(p) \/ ClickTraps(p)
  BY <1>3, RestartKeeps DEF Relaunch, ShowTraps, ClickTraps
<1>4. CASE OpenTab(p)
  <2>1. screen' \in [Players -> Screens] /\ UNCHANGED <<queue, sent, teamOf, team, ud>>
    BY <1>1, <1>4 DEF OpenTab
  <2>2. calls' \subseteq calls \cup {Pend(p, "show", ud[p], p)}
    BY <1>4 DEF OpenTab
  <2>3. Pend(p, "show", ud[p], p) \in Call
        /\ Pend(p, "show", ud[p], p).phone = p /\ Pend(p, "show", ud[p], p).team = ud[p]
    BY <1>1, PendTypes
  <2> QED
    BY <1>1, <2>1, <2>2, <2>3, StillStep
<1>5. CASE HearInvited(p)
  <2>1. PICK t \in Teams : t = SeenTeam(p, p)
    BY <1>5 DEF HearInvited
  <2>2. t \in TeamIDs /\ Known(p, t)
    BY <2>1, SeenTeamKnown, TeamsAssumption DEF TeamIDs
  <2>3. /\ ud' = [ud EXCEPT ![p] = t] /\ calls' = calls \cup {Pend(p, "show", t, p)}
        /\ UNCHANGED <<queue, sent, teamOf, team, screen>>
    BY <1>5, <2>1 DEF HearInvited
  <2>4. Pend(p, "show", t, p) \in Call
        /\ Pend(p, "show", t, p).phone = p /\ Pend(p, "show", t, p).team = t
    BY <1>1, <2>2, PendTypes
  <2> QED
    BY <1>1, <2>2, <2>3, <2>4, StillStep
<1>6. CASE ShowTeam(p)
  <2>1. calls' \subseteq calls /\ screen' \in [Players -> Screens]
        /\ UNCHANGED <<queue, sent, teamOf, team, ud>>
    BY <1>1, <1>6 DEF ShowTeam
  <2> QED
    BY <1>1, <2>1, StillStep
<1>7. CASE HearRemoved(p)
  <2>1. /\ calls' = calls /\ ud' = [ud EXCEPT ![p] = NoTeam]
        /\ screen' \in [Players -> Screens] /\ UNCHANGED <<queue, sent, teamOf, team>>
    BY <1>1, <1>7 DEF HearRemoved
  <2> QED
    BY <1>1, <2>1, StillStep
<1>8. CASE \E q \in Players : AddClick(p, q) \/ RemoveClick(p, q)
  <2>1. PICK q \in Players, kind \in CallKinds :
          /\ calls' = calls \cup {Pend(p, kind, ud[p], q)}
          /\ UNCHANGED <<queue, sent, teamOf, team, ud, screen>>
    BY <1>1, <1>8 DEF AddClick, RemoveClick
  <2>2. Pend(p, kind, ud[p], q) \in Call
        /\ Pend(p, kind, ud[p], q).phone = p /\ Pend(p, kind, ud[p], q).team = ud[p]
    BY <1>1, PendTypes
  <2> QED
    BY <1>1, <2>1, <2>2, StillStep
<1>9. CASE AddAllowed(p)
  <2>1. PICK c \in OnPhone(p, {"add"}) :
          /\ calls' = (calls \ {c}) \cup
               IF SeenManager(p, c.team) # p THEN {}
               ELSE {Pend(p, "query", IF SeenNamed(p, c.team) THEN c.team ELSE NoTeam, c.player)}
          /\ UNCHANGED <<sent, teamOf, team, queue, ud, screen>>
    BY <1>9 DEF AddAllowed
  <2>2. PICK t : t = IF SeenNamed(p, c.team) THEN c.team ELSE NoTeam
    OBVIOUS
  <2>3. t \in TeamIDs /\ Known(p, t) /\ c.player \in Players
    BY <1>1, <2>2, CallTypes
  <2>4. Pend(p, "query", t, c.player) \in Call
        /\ Pend(p, "query", t, c.player).phone = p /\ Pend(p, "query", t, c.player).team = t
    BY <1>1, <2>3, PendTypes
  <2>5. calls' \subseteq calls \cup {Pend(p, "query", t, c.player)}
    BY <2>1, <2>2
  <2> QED
    BY <1>1, <2>1, <2>3, <2>4, <2>5, StillStep
<1>10. CASE AddRefused(p) \/ RemoveRefused(p)
  <2>1. calls' \subseteq calls /\ UNCHANGED <<queue, sent, teamOf, team, ud, screen>>
    BY <1>10 DEF AddRefused, RemoveRefused
  <2> QED
    BY <1>1, <2>1, StillStep
<1> QED
  BY <1>2, <1>3, <1>4, <1>5, <1>6, <1>7, <1>8, <1>9, <1>10

-----------------------------------------------------------------------------
(* The steps that write *)

(* A player is put into a team known to the phone, or into none. *)
LEMMA MembershipAddable ==
  ASSUME NEW p \in Players, NEW q \in Players, NEW t \in TeamIDs, Known(p, t),
         NEW op \in {"list", "unlist"}, NEW u \in TeamIDs
  PROVE  /\ <<W("put", q, t)>> \in Seq(Write) /\ Addable(p, <<W("put", q, t)>>)
         /\ <<W("put", q, t), W(op, q, u)>> \in Seq(Write)
         /\ Addable(p, <<W("put", q, t), W(op, q, u)>>)
<1> DEFINE a == W("put", q, t)
           b == W(op, q, u)
<1>1. /\ a \in Write /\ a.op = "put" /\ a.team = t
      /\ b \in Write /\ b.op \in {"list", "unlist"}
  BY WTypes
<1> HIDE DEF a, b
<1>2. /\ <<a>> \in Seq(Write) /\ Len(<<a>>) = 1 /\ <<a>>[1] = a
      /\ <<a, b>> \in Seq(Write) /\ Len(<<a, b>>) = 2
      /\ <<a, b>>[1] = a /\ <<a, b>>[2] = b
  BY <1>1
<1>3. Addable(p, <<a>>) /\ Addable(p, <<a, b>>)
  BY <1>1, <1>2 DEF Addable
<1> QED
  BY <1>2, <1>3 DEF a, b

LEMMA SignUpKeeps ==
  ASSUME Inv, NEW p \in Players, SignUp(p)
  PROVE  Inv'
<1> DEFINE a == W("signup", p, NoTeam)
<1>1. NoTeam \in TeamIDs /\ screen \in [Players -> Screens] /\ "home" \in Screens
  BY DEF Inv, TypeOK, TeamIDs, Screens
<1>2. a \in Write /\ a.op = "signup" /\ a.team = NoTeam
  BY <1>1, WTypes
<1>3. /\ Enqueue(p, <<a>>) /\ ud' = [ud EXCEPT ![p] = NoTeam]
      /\ screen' = [screen EXCEPT ![p] = "home"] /\ UNCHANGED <<sent, teamOf, team, calls>>
  BY DEF SignUp
<1> HIDE DEF a
<1>4. <<a>> \in Seq(Write) /\ Len(<<a>>) = 1 /\ <<a>>[1] = a
  BY <1>2
<1>5. Addable(p, <<a>>)
  BY <1>2, <1>4, NoTeamKnown DEF Addable
<1>6. /\ Writes' /\ Docs' /\ Remembered /\ queue' \in [Players -> Seq(Write)]
      /\ \A e \in Players : sent'[e] <= Len(queue'[e])
  BY <1>3, <1>4, <1>5, EnqueueKeeps
<1> QED
  BY <1>1, <1>3, <1>6, NoTeamKnown, LocalKeeps

LEMMA CreateTeamKeeps ==
  ASSUME Inv, NEW p \in Players, NEW t \in Teams, CreateTeam(p, t)
  PROVE  Inv'
<1> DEFINE a == W("create", p, t)
           b == W("name", p, t)
           c == W("put", p, t)
           ws == <<a, b, c>>
<1>1. t \in TeamIDs /\ screen \in [Players -> Screens] /\ "team" \in Screens
  BY DEF Inv, TypeOK, TeamIDs, Screens
<1>2. /\ a \in Write /\ a.op = "create" /\ a.player = p /\ a.team = t
      /\ b \in Write /\ b.op = "name" /\ b.player = p /\ b.team = t
      /\ c \in Write /\ c.op = "put" /\ c.player = p /\ c.team = t
  BY <1>1, WTypes
<1>3. /\ Enqueue(p, ws) /\ ud' = [ud EXCEPT ![p] = t]
      /\ screen' = [screen EXCEPT ![p] = "team"] /\ UNCHANGED <<sent, teamOf, team, calls>>
  BY DEF CreateTeam
<1> HIDE DEF a, b, c
<1>4. ws \in Seq(Write) /\ Len(ws) = 3 /\ ws[1] = a /\ ws[2] = b /\ ws[3] = c
  BY <1>2
<1> HIDE DEF ws
<1>5. Addable(p, ws)
  <2> SUFFICES ASSUME NEW i \in 1 .. 3
               PROVE  /\ ws[i].op = "create" => ws[i].player = p /\ ws[i].team \in Teams
                      /\ ws[i].op \in {"signup", "put"} =>
                           \/ Known(p, ws[i].team)
                           \/ \E j \in 1 .. i - 1 : ws[j].op = "create" /\ ws[j].team = ws[i].team
    BY <1>4 DEF Addable
  <2>1. CASE i = 1
    BY <1>2, <1>4, <2>1
  <2>2. CASE i = 2
    BY <1>2, <1>4, <2>2
  <2>3. CASE i = 3
    <3>1. 1 \in 1 .. i - 1
      BY <2>3
    <3> QED
      BY <1>2, <1>4, <2>3, <3>1
  <2> QED
    BY <2>1, <2>2, <2>3
<1>6. /\ Writes' /\ Docs' /\ Remembered /\ queue' \in [Players -> Seq(Write)]
      /\ \A e \in Players : sent'[e] <= Len(queue'[e])
  BY <1>3, <1>4, <1>5, EnqueueKeeps
<1>7. Known(p, t)'
  <2>1. /\ Len(queue'[p]) = Len(queue[p]) + 3 /\ Len(queue[p]) \in Nat
        /\ queue'[p][Len(queue[p]) + 1] = a
    <3>1. TypeOK
      BY DEF Inv
    <3>2. /\ Len(queue'[p]) = Len(queue[p]) + Len(ws) /\ Len(queue[p]) \in Nat
          /\ \A i \in 1 .. Len(ws) : queue'[p][Len(queue[p]) + i] = ws[i]
      BY <1>3, <1>4, <3>1, EnqueueShape, QueueTypes
    <3>3. 1 \in 1 .. Len(ws)
      BY <1>4
    <3> QED
      BY <1>4, <3>2, <3>3
  <2>2. Len(queue[p]) + 1 \in 1 .. Len(queue'[p])
    BY <2>1
  <2>3. PICK i \in 1 .. Len(queue'[p]) : i = Len(queue[p]) + 1
    BY <2>2
  <2>4. Creates(p, i, t)'
    BY <1>2, <2>1, <2>3 DEF Creates
  <2> QED
    BY <2>3, <2>4 DEF Known
<1> QED
  BY <1>1, <1>3, <1>6, <1>7, LocalKeeps

LEMMA MembershipKeeps ==
  ASSUME Inv, NEW p \in Players, AddPlayer(p) \/ AddTraps(p) \/ RemoveMember(p) \/ RemoveTraps(p)
  PROVE  Inv'
<1>1. /\ screen \in [Players -> Screens] /\ NoTeam \in TeamIDs /\ ud[p] \in TeamIDs
      /\ Known(p, NoTeam)
  BY NoTeamKnown DEF Inv, TypeOK, TeamIDs
<1>2. PICK q \in Players, t \in TeamIDs, op \in {"list", "unlist"} :
        /\ Known(p, t)
        /\ \/ /\ Enqueue(p, <<W("put", q, t), W(op, q, ud[p])>>)
              /\ calls' \subseteq calls /\ screen' = screen
           \/ /\ Enqueue(p, <<W("put", q, t)>>)
              /\ Restart(p)
        /\ UNCHANGED <<sent, teamOf, team, ud>>
  <2>1. CASE AddPlayer(p) \/ AddTraps(p)
    <3>1. PICK c \in OnPhone(p, {"query"}), q \in Players :
            /\ \/ /\ Enqueue(p, <<W("put", q, c.team), W("list", q, ud[p])>>)
                  /\ calls' = calls \ {c} /\ screen' = screen
               \/ /\ Enqueue(p, <<W("put", q, c.team)>>)
                  /\ Restart(p)
            /\ UNCHANGED <<sent, teamOf, team, ud>>
      BY <2>1 DEF AddPlayer, AddTraps, Found
    <3>2. c.team \in TeamIDs /\ Known(p, c.team) /\ calls \ {c} \subseteq calls
      BY CallTypes
    <3> QED
      BY <3>1, <3>2
  <2>2. CASE RemoveMember(p) \/ RemoveTraps(p)
    <3>1. PICK c \in OnPhone(p, {"remove"}) :
            /\ \/ /\ Enqueue(p, <<W("put", c.player, NoTeam), W("unlist", c.player, ud[p])>>)
                  /\ calls' = calls \ {c} /\ screen' = screen
               \/ /\ Enqueue(p, <<W("put", c.player, NoTeam)>>)
                  /\ Restart(p)
            /\ UNCHANGED <<sent, teamOf, team, ud>>
      BY <2>2 DEF RemoveMember, RemoveTraps
    <3>2. c.player \in Players /\ calls \ {c} \subseteq calls
      BY CallTypes
    <3> QED
      BY <1>1, <3>1, <3>2
  <2> QED
    BY <2>1, <2>2
<1>3. CASE Enqueue(p, <<W("put", q, t), W(op, q, ud[p])>>) /\ calls' \subseteq calls /\ screen' = screen
  <2>1. PICK ws \in Seq(Write) : ws = <<W("put", q, t), W(op, q, ud[p])>> /\ Addable(p, ws)
    BY <1>1, <1>2, MembershipAddable
  <2>2. Enqueue(p, ws)
    BY <1>3, <2>1
  <2>3. /\ Writes' /\ Docs' /\ Remembered /\ queue' \in [Players -> Seq(Write)]
        /\ \A e \in Players : sent'[e] <= Len(queue'[e])
    BY <1>2, <2>1, <2>2, EnqueueKeeps
  <2> QED
    BY <1>1, <1>2, <1>3, <2>3, LocalKeeps
<1>4. CASE Enqueue(p, <<W("put", q, t)>>) /\ Restart(p)
  <2>1. PICK ws \in Seq(Write) : ws = <<W("put", q, t)>> /\ Addable(p, ws)
    BY <1>1, <1>2, MembershipAddable
  <2>2. Enqueue(p, ws)
    BY <1>4, <2>1
  <2>3. /\ Writes' /\ Docs' /\ Remembered /\ queue' \in [Players -> Seq(Write)]
        /\ \A e \in Players : sent'[e] <= Len(queue'[e])
    BY <1>2, <2>1, <2>2, EnqueueKeeps
  <2> QED
    BY <1>1, <1>2, <1>4, <2>3, RestartShape, NoTeamKnown, LocalKeeps
<1> QED
  BY <1>2, <1>3, <1>4

-----------------------------------------------------------------------------
LEMMA InitInv == Init => Inv
<1> SUFFICES ASSUME Init PROVE Inv
  OBVIOUS
<1>1. \A p \in Players : queue[p] = <<>> /\ Len(queue[p]) = 0 /\ 1 .. Len(queue[p]) = {}
  BY EmptySeq DEF Init
<1>2. NoDoc \in TeamDoc
  BY DEF NoDoc, TeamDoc
<1>3. TypeOK
  <2>1. queue \in [Players -> Seq(Write)]
    BY EmptySeq DEF Init
  <2>2. sent \in [Players -> Nat] /\ \A p \in Players : sent[p] <= Len(queue[p])
    BY <1>1 DEF Init
  <2> QED
    BY <1>2, <2>1, <2>2, TeamsAssumption DEF Init, TypeOK, TeamIDs, Screens
<1>4. Writes /\ Ids
  BY <1>1, NoTeamKnown DEF Writes, Ids, Init
<1>5. Docs
  BY TeamsAssumption DEF Docs, Init
<1> QED
  BY <1>3, <1>4, <1>5 DEF Inv

LEMMA NextInv == Inv /\ [Next]_vars => Inv'
<1> SUFFICES ASSUME Inv, [Next]_vars PROVE Inv'
  OBVIOUS
<1>1. CASE UNCHANGED vars
  <2>1. Writes' /\ Docs'
    BY <1>1, StillKeeps DEF vars
  <2>2. TypeOK' /\ Ids'
    BY <1>1 DEF vars, Inv, TypeOK, Ids, Known, Creates, Exists
  <2> QED
    BY <2>1, <2>2 DEF Inv
<1>2. CASE Next
  <2>1. PICK p \in Players :
          \/ Deliver(p) \/ Reach(p) \/ Acknowledge(p) \/ Reconnect(p)
          \/ SignUp(p) \/ Relaunch(p) \/ StoreTeam(p)
          \/ Tab(p) \/ Add(p) \/ Remove(p)
          \/ \E t \in Teams : CreateTeam(p, t)
    BY <1>2 DEF Next
  <2>2. CASE Deliver(p) \/ Reach(p) \/ Acknowledge(p) \/ Reconnect(p)
    BY <2>2, WireKeeps
  <2>3. CASE SignUp(p)
    BY <2>3, SignUpKeeps
  <2>4. CASE Relaunch(p) \/ StoreTeam(p) \/ Tab(p)
    BY <2>4, StillSteps DEF Tab
  <2>5. CASE Add(p)
    BY <2>5, StillSteps, MembershipKeeps DEF Add
  <2>6. CASE Remove(p)
    BY <2>6, StillSteps, MembershipKeeps DEF Remove
  <2>7. CASE \E t \in Teams : CreateTeam(p, t)
    BY <2>7, CreateTeamKeeps
  <2> QED
    BY <2>1, <2>2, <2>3, <2>4, <2>5, <2>6, <2>7
<1> QED
  BY <1>1, <1>2

LEMMA Invariance == Spec => []Inv
  BY InitInv, NextInv, PTL DEF Spec

-----------------------------------------------------------------------------
(* Documents, writes, callbacks and stored ids keep their types, whatever  *)
(* the streams lose and the server is sent again.                          *)
THEOREM TypeCorrect == Spec => []TypeOK
<1>1. Inv => TypeOK
  BY DEF Inv
<1> QED
  BY Invariance, <1>1, PTL

(* A phone that stores a team's id finds the team: an id reaches another   *)
(* phone only through a write that follows the founding, however often     *)
(* either is sent again.                                                   *)
THEOREM StoredTeamsExist == Spec => []StoredTeamExists
<1>1. ASSUME Inv, NEW p \in Players, ud[p] # NoTeam
      PROVE  ud[p] \in Teams /\ SeenManager(p, ud[p]) # NoPlayer
  <2>1. Known(p, ud[p]) /\ ud[p] \in Teams
    BY <1>1 DEF Inv, Ids, TypeOK, TeamIDs
  <2>2. CASE Pending(p, {"create"}, p, {ud[p]}) # {}
    BY <2>1, <2>2, TeamsAssumption DEF SeenManager
  <2>3. CASE Pending(p, {"create"}, p, {ud[p]}) = {}
    <3>1. ASSUME NEW i \in 1 .. Len(queue[p]), Creates(p, i, ud[p]) PROVE FALSE
      <4>1. queue[p][i].player = p
        BY <1>1, <3>1 DEF Inv, Writes, GoodWrite, Creates
      <4>2. i \in DOMAIN queue[p]
        BY <1>1, <3>1, QueueTypes DEF Inv
      <4> QED
        BY <2>3, <3>1, <4>1, <4>2 DEF Pending, Creates
    <3> QED
      BY <1>1, <2>1, <2>3, <3>1 DEF Known, Exists, SeenManager
  <2> QED
    BY <2>1, <2>2, <2>3
<1>2. Inv => StoredTeamExists
  BY <1>1 DEF StoredTeamExists
<1> QED
  BY Invariance, <1>2, PTL
=============================================================================
